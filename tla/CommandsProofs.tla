--------------------------- MODULE CommandsProofs ---------------------------
(***************************************************************************)
(* What solve, the server, the cost reports and mining promise, for every  *)
(* cap, bill, number of calls, runs and rows, and every feed: the caps     *)
(* hold, what is told of the spending is what was paid, a report lies      *)
(* between the books of two moments, and mining calls that overlap do not  *)
(* mix up their logs and files.                                            *)
(*                                                                         *)
(* Each part has an invariant of its own (SolveInv, ServerInv, ReportInv,  *)
(* MiningInv); sums over files are recursive functions, of which Recursion *)
(* says that they exist and Climb what they add up to.                     *)
(***************************************************************************)
EXTENDS Commands, CommonProofs, SequenceTheorems

(* A command of solve, and its guard. *)

(* What the loop may return. *)
OutcomeKinds == {"solved", "gave_up", "prover_error", "budget_exceeded", "llm_error"}

OutcomeType == [kind : OutcomeKinds, total_cost_usd : Nat]

(* f[n] is the cost of the first n outcomes. *)
Costs(f, outcomes) ==
  /\ f \in [0 .. Len(outcomes) -> Nat]
  /\ f[0] = 0
  /\ \A n \in 1 .. Len(outcomes) : f[n] = f[n - 1] + outcomes[n].total_cost_usd

(* SumUsd adds up the costs one by one. *)
LEMMA CostsExist ==
  ASSUME NEW outcomes \in Seq(OutcomeType)
  PROVE  \E f : Costs(f, outcomes) /\ SumUsd(outcomes) = f[Len(outcomes)]
<1> DEFINE N == Len(outcomes)
           step == [n \in 1 .. N |-> [v \in Nat |-> v + outcomes[n].total_cost_usd]]
           Is(f) == f = [n \in 0 .. N |-> IF n = 0 THEN 0 ELSE f[n - 1] + outcomes[n].total_cost_usd]
<1>1. N \in Nat
  OBVIOUS
<1>2. \A n \in 1 .. N : outcomes[n].total_cost_usd \in Nat
  <2>1. \A n \in 1 .. N : outcomes[n] \in OutcomeType
    OBVIOUS
  <2> QED
    BY <2>1 DEF OutcomeType
<1>3. SumUsd(outcomes) = (CHOOSE f : Is(f))[N]
  BY DEF SumUsd
<1> HIDE DEF N
<1>4. step \in [1 .. N -> [Nat -> Nat]]
  BY <1>2
<1>5. \A n \in 1 .. N : \A v \in Nat : step[n][v] = v + outcomes[n].total_cost_usd
  OBVIOUS
<1> HIDE DEF step
<1>6. PICK f \in [0 .. N -> Nat] : f[0] = 0 /\ \A n \in 1 .. N : f[n] = step[n][f[n - 1]]
  <2>1. 0 \in Nat
    OBVIOUS
  <2>2. \E f : Recurs(f, Nat, 0, N, step)
    BY <1>1, <1>4, <2>1, Recursion
  <2> QED
    BY <2>2 DEF Recurs
<1>7. \A n \in 1 .. N : n - 1 \in 0 .. N /\ n \in 0 .. N /\ n # 0
  BY <1>1
<1>8. \A n \in 1 .. N : f[n] = f[n - 1] + outcomes[n].total_cost_usd
  BY <1>5, <1>6, <1>7
<1>9. Is(f)
  BY <1>1, <1>6, <1>8
<1> DEFINE g == CHOOSE f2 : Is(f2)
<1>10. Is(g)
  BY <1>9
<1> HIDE DEF g
<1>11. DOMAIN g = 0 .. N /\ g[0] = 0
       /\ \A n \in 1 .. N : g[n] = g[n - 1] + outcomes[n].total_cost_usd
  BY <1>1, <1>7, <1>10
<1> DEFINE S == {n \in 0 .. N : g[n] \in Nat}
<1>12. ASSUME NEW n \in 1 .. N, n - 1 \in S PROVE n \in S
  <2>1. g[n] = g[n - 1] + outcomes[n].total_cost_usd /\ g[n - 1] \in Nat
    BY <1>11, <1>12
  <2>2. g[n] \in Nat
    BY <1>2, <2>1
  <2> QED
    BY <1>7, <2>2
<1>13. 0 \in S
  BY <1>1, <1>11
<1> HIDE DEF S
<1>14. 0 .. N \subseteq S
  BY <1>1, <1>12, <1>13, Climb
<1>15. g \in [0 .. N -> Nat]
  BY <1>10, <1>14 DEF S
<1> QED
  BY <1>3, <1>11, <1>15 DEF Costs, g, N

(* One more outcome adds its cost. *)
LEMMA CostAdded ==
  ASSUME NEW outcomes \in Seq(OutcomeType), NEW o \in OutcomeType
  PROVE  /\ SumUsd(outcomes) \in Nat
         /\ SumUsd(Append(outcomes, o)) = SumUsd(outcomes) + o.total_cost_usd
<1> DEFINE N == Len(outcomes)
           more == Append(outcomes, o)
<1>1. N \in Nat /\ more \in Seq(OutcomeType) /\ Len(more) = N + 1 /\ more[N + 1] = o
      /\ \A n \in 1 .. N : more[n] = outcomes[n]
  OBVIOUS
<1>2. PICK f : Costs(f, outcomes) /\ SumUsd(outcomes) = f[N]
  BY CostsExist
<1> HIDE DEF more
<1>3. PICK g : Costs(g, more) /\ SumUsd(more) = g[Len(more)]
  BY <1>1, CostsExist
<1> HIDE DEF N
<1> DEFINE S == {n \in 0 .. N : f[n] = g[n]}
<1>4. 0 \in S
  BY <1>1, <1>2, <1>3 DEF Costs
<1>5. ASSUME NEW n \in 1 .. N, n - 1 \in S PROVE n \in S
  <2>1. n \in 1 .. N + 1 /\ n \in 0 .. N
    BY <1>1
  <2>2. f[n] = f[n - 1] + outcomes[n].total_cost_usd
    BY <1>2 DEF Costs, N
  <2>3. g[n] = g[n - 1] + more[n].total_cost_usd
    BY <1>1, <1>3, <2>1 DEF Costs
  <2> QED
    BY <1>1, <1>5, <2>1, <2>2, <2>3
<1> HIDE DEF S
<1>6. 0 .. N \subseteq S
  BY <1>1, <1>4, <1>5, Climb
<1>7. N \in 0 .. N /\ N + 1 \in 1 .. N + 1 /\ (N + 1) - 1 = N
  BY <1>1
<1>8. f[N] = g[N]
  BY <1>6, <1>7 DEF S
<1>9. g[N + 1] = g[N] + o.total_cost_usd
  BY <1>1, <1>3, <1>7 DEF Costs
<1>10. f[N] \in Nat
  BY <1>2, <1>7 DEF Costs, N
<1> QED
  BY <1>1, <1>2, <1>3, <1>8, <1>9, <1>10 DEF more

(* No outcome, no cost. *)
LEMMA NothingCosts == SumUsd(<<>>) = 0
<1>1. <<>> \in Seq(OutcomeType) /\ Len(<<>>) = 0
  OBVIOUS
<1> QED
  BY <1>1, CostsExist DEF Costs

-----------------------------------------------------------------------------
(* A command that is under way. *)
Under == pc \in {"file", "obligation", "round"}

(* The ranges of the variables. *)
SolveTyped ==
  /\ pc \in {"idle", "start", "file", "obligation", "round"}
  /\ server \in BOOLEAN
  /\ default_cap \in Caps \union {None}
  /\ request \in [cap : Caps \union {None}, files : Nat]
  /\ budget \in {Only(cap) : cap \in Caps \union {None}}
  /\ guard \in GuardType
  /\ installed \in BOOLEAN
  /\ files \in 0 .. MaxFiles
  /\ todo \in 0 .. MaxObligations
  /\ seen \in 0 .. MaxFiles
  /\ loop \in [rounds : 0 .. MaxRounds, cost : Nat]
  /\ tally \in [parse_failed : BOOLEAN, obligations_total : Nat, solved : Nat, sum_usd : Nat]
  /\ outcome_rows \in Seq(OutcomeType)
  /\ manifest \in ManifestType \union {None}
  /\ billed \in Nat

(* The counters of the summary and the list of the outcomes. *)
Counting ==
  LET n == Len(outcome_rows) IN
  /\ tally.solved <= n
  /\ (tally.solved = n) <=> \A i \in DOMAIN outcome_rows : outcome_rows[i].kind = "solved"
  /\ tally.obligations_total <= MaxObligations
  /\ pc = "round" => /\ tally.obligations_total = n + 1 /\ todo > 0
                     /\ tally.obligations_total + todo <= MaxObligations + 1
  /\ pc \notin {"idle", "round"} =>
       tally.obligations_total = n /\ tally.obligations_total + todo <= MaxObligations
  /\ tally.obligations_total \in {n, n + 1}

(* A file is still to be read, or was, or parse_failed says so. *)
FilesTold ==
  /\ seen + files <= request.files /\ request.files <= MaxFiles
  /\ tally.parse_failed <=> seen + files < request.files

(* What is under way has its guard, and what was paid is somewhere. *)
Paying ==
  /\ Promised # None => billed <= Promised + MaxBill
  /\ Under => /\ budget = Only(Promised)
              /\ installed <=> Promised # None
              /\ installed => guard.spent = billed
  /\ ~Under => ~installed
  /\ pc = "start" => billed = 0
  /\ pc # "round" => loop = NewRounds \/ pc = "idle"
  /\ pc # "idle" => tally.sum_usd + loop.cost = billed
  /\ tally.sum_usd = SumUsd(outcome_rows)

(* The manifest is what the command that has ended counted. *)
Written ==
  /\ (pc = "idle" /\ answer \in {"0", "1", "ok"}) => manifest # None
  /\ manifest # None =>
       /\ pc = "idle" /\ files = 0
       /\ answer = Answer
       /\ tally.obligations_total = Len(outcome_rows)
       /\ tally.sum_usd = billed
       /\ manifest.total_cost_usd = billed

(* The invariant of the command. *)
SolveInv == SolveTyped /\ Counting /\ FilesTold /\ Paying /\ Written

(* What the assumptions on the constants say of caps and bounds. *)
LEMMA Bounds ==
  /\ MaxFiles \in Nat /\ MaxObligations \in Nat /\ MaxRounds \in Nat
  /\ MaxBill \in Nat /\ None \notin Nat
  /\ \A cap \in Caps : cap \in Nat \/ cap = None
  /\ \A bill \in Bills : bill \in BillType /\ bill.cost \in Nat /\ bill.cost <= MaxBill
  /\ None \notin ManifestType /\ None # "0" /\ None # "1" /\ None # "ok"
<1>1. \A bill \in Bills : bill \in BillType /\ bill.cost <= MaxBill
  BY SpendingAssumption
<1>2. \A bill \in Bills : bill.cost \in Nat
  BY <1>1 DEF BillType
<1> QED
  BY <1>1, <1>2, SpendingAssumption, SolveAssumption, NoneAssumption DEF Cap

(* The ranges, field by field. *)
LEMMA Shapes ==
  ASSUME SolveTyped
  PROVE  /\ request.cap \in Caps \union {None} /\ request.files \in Nat
         /\ Promised \in Caps \union {None} /\ EffectiveCap = Promised
         /\ Promised # None => Promised \in Nat
         /\ loop.rounds \in 0 .. MaxRounds /\ loop.cost \in Nat
         /\ tally.parse_failed \in BOOLEAN /\ tally.obligations_total \in Nat
         /\ tally.solved \in Nat /\ tally.sum_usd \in Nat
         /\ tally = [parse_failed |-> tally.parse_failed,
                     obligations_total |-> tally.obligations_total,
                     solved |-> tally.solved, sum_usd |-> tally.sum_usd]
         /\ Len(outcome_rows) \in Nat
<1>1. request.cap \in Caps \union {None} /\ request.files \in Nat
  BY DEF SolveTyped
<1>2. Promised \in Caps \union {None} /\ EffectiveCap = Promised
  BY <1>1 DEF SolveTyped, Promised, EffectiveCap
<1>3. Promised # None => Promised \in Nat
  BY <1>2, Bounds
<1>4. loop.rounds \in 0 .. MaxRounds /\ loop.cost \in Nat
  BY DEF SolveTyped
<1>5. tally \in [parse_failed : BOOLEAN, obligations_total : Nat, solved : Nat, sum_usd : Nat]
  BY DEF SolveTyped
<1>6. Len(outcome_rows) \in Nat
  BY DEF SolveTyped
<1> QED
  BY <1>1, <1>2, <1>3, <1>4, <1>5, <1>6

(* It holds before the first command. *)
LEMMA SolveStarts == Init => SolveInv
<1> SUFFICES ASSUME Init PROVE SolveInv
  OBVIOUS
<1>1. outcome_rows = <<>> /\ Len(outcome_rows) = 0 /\ outcome_rows \in Seq(OutcomeType)
  BY DEF Init
<1>2. SolveTyped
  <2>1. NewGuard \in GuardType
    BY DEF NewGuard, GuardType
  <2>2. loop \in [rounds : 0 .. MaxRounds, cost : Nat]
    BY Bounds DEF Init, NewRounds
  <2>3. tally \in [parse_failed : BOOLEAN, obligations_total : Nat, solved : Nat, sum_usd : Nat]
    BY DEF Init, NewTally
  <2>4. budget \in {Only(cap) : cap \in Caps \union {None}}
    BY DEF Init
  <2>5. default_cap \in Caps \union {None} /\ server \in BOOLEAN
    BY DEF Init
  <2>6. request \in [cap : Caps \union {None}, files : Nat]
    BY DEF Init
  <2>7. files \in 0 .. MaxFiles /\ todo \in 0 .. MaxObligations /\ seen \in 0 .. MaxFiles
    BY Bounds DEF Init
  <2> QED
    BY <1>1, <2>1, <2>2, <2>3, <2>4, <2>5, <2>6, <2>7 DEF Init, SolveTyped
<1>3. Counting
  BY <1>1, Bounds DEF Init, Counting, NewTally
<1>4. FilesTold
  BY Bounds DEF Init, FilesTold, NewTally
<1>5. Paying
  <2>1. Promised # None => billed <= Promised + MaxBill
    BY <1>2, Shapes, Bounds DEF Init
  <2> QED
    BY <1>1, <2>1, NothingCosts DEF Init, Paying, Under, NewTally
<1>6. Written
  BY Bounds DEF Init, Written
<1> QED
  BY <1>2, <1>3, <1>4, <1>5, <1>6 DEF SolveInv

(* A command or a request is given: its budget is its own, and its guard   *)
(* is fresh.                                                               *)
LEMMA AskStep == SolveInv /\ (\E cap \in Caps, n \in 1 .. MaxFiles : Ask(cap, n)) => SolveInv'
<1> SUFFICES ASSUME SolveInv, NEW cap \in Caps, NEW n \in 1 .. MaxFiles, Ask(cap, n)
             PROVE  SolveInv'
  OBVIOUS
<1>1. outcome_rows' = <<>> /\ Len(outcome_rows') = 0 /\ outcome_rows' \in Seq(OutcomeType)
  BY DEF Ask
<1>2. SolveTyped'
  <2>1. loop' \in [rounds : 0 .. MaxRounds, cost : Nat]
    BY Bounds DEF Ask, NewRounds
  <2>2. tally' \in [parse_failed : BOOLEAN, obligations_total : Nat, solved : Nat, sum_usd : Nat]
    BY DEF Ask, NewTally
  <2>3. request' \in [cap : Caps \union {None}, files : Nat]
    BY Bounds DEF Ask
  <2>4. files' \in 0 .. MaxFiles /\ todo' \in 0 .. MaxObligations /\ seen' \in 0 .. MaxFiles
    BY Bounds DEF Ask
  <2>5. UNCHANGED <<server, default_cap, budget, guard, installed>>
        /\ pc' = "start" /\ manifest' = None /\ billed' = 0
    BY DEF Ask
  <2> QED
    BY <1>1, <2>1, <2>2, <2>3, <2>4, <2>5 DEF SolveInv, SolveTyped
<1>3. Counting'
  BY <1>1, Bounds DEF Ask, Counting, NewTally
<1>4. FilesTold'
  BY Bounds DEF Ask, FilesTold, NewTally
<1>5. Paying'
  <2>1. Promised' # None => Promised' \in Nat
    <3>1. request'.cap \in Caps \union {None}
      BY <1>2 DEF SolveTyped
    <3>2. Promised' \in Caps \union {None}
      BY <1>2, <3>1 DEF SolveTyped, Promised
    <3> QED
      BY <3>2, Bounds
  <2>2. Promised' # None => billed' <= Promised' + MaxBill
    BY <2>1, Bounds DEF Ask
  <2>3. ~installed
    BY DEF SolveInv, Paying, Under, Ask
  <2> QED
    BY <1>1, <2>2, <2>3, NothingCosts DEF Ask, Paying, Under, NewTally, NewRounds
<1>6. Written'
  BY Bounds DEF Ask, Written
<1> QED
  BY <1>2, <1>3, <1>4, <1>5, <1>6 DEF SolveInv

(* The command ends before it has started, or in an exception. *)
LEMMA BreakStep == SolveInv /\ (NotStarted \/ CapUnreadable \/ Raises \/ ManifestRaises) => SolveInv'
<1> SUFFICES ASSUME SolveInv, NotStarted \/ CapUnreadable \/ Raises \/ ManifestRaises
             PROVE  SolveInv'
  OBVIOUS
<1>1. /\ pc' = "idle" /\ answer' \in {"2", "3", "error", "raised"}
      /\ installed' = FALSE
      /\ UNCHANGED <<server, default_cap, request, budget, guard, billed, manifest, files,
                     todo, loop, tally, outcome_rows, seen>>
  <2>1. CASE NotStarted
    <3>1. ~installed
      BY <2>1 DEF SolveInv, Paying, Under, NotStarted
    <3>2. installed \in BOOLEAN
      BY DEF SolveInv, SolveTyped
    <3> QED
      BY <2>1, <3>1, <3>2 DEF NotStarted, End, asked, money, made
  <2>2. CASE CapUnreadable
    <3>1. ~installed
      BY <2>2 DEF SolveInv, Paying, Under, CapUnreadable
    <3>2. installed \in BOOLEAN
      BY DEF SolveInv, SolveTyped
    <3> QED
      BY <2>2, <3>1, <3>2 DEF CapUnreadable, End, asked, money, made
  <2>3. CASE Raises
    BY <2>3 DEF Raises, End, asked, made
  <2>4. CASE ManifestRaises
    BY <2>4 DEF ManifestRaises, End, asked, made
  <2> QED
    BY <2>1, <2>2, <2>3, <2>4
<1>2. pc # "idle" /\ manifest = None
  <2>1. pc # "idle"
    BY DEF NotStarted, CapUnreadable, Raises, ManifestRaises
  <2> QED
    BY <2>1 DEF SolveInv, Written
<1>3. SolveTyped'
  BY <1>1 DEF SolveInv, SolveTyped
<1>4. Counting'
  BY <1>1, <1>2 DEF SolveInv, SolveTyped, Counting
<1>5. FilesTold'
  BY <1>1 DEF SolveInv, FilesTold
<1>6. Paying'
  <2>1. Promised' = Promised
    BY <1>1 DEF Promised
  <2> QED
    BY <1>1, <2>1 DEF SolveInv, Paying, Under
<1>7. Written'
  BY <1>1, <1>2 DEF Written
<1> QED
  BY <1>3, <1>4, <1>5, <1>6, <1>7 DEF SolveInv

(* The command starts, or refuses without Lean. *)
LEMMA StartStep == SolveInv /\ StartRun => SolveInv'
<1> SUFFICES ASSUME SolveInv, StartRun PROVE SolveInv'
  OBVIOUS
<1>1. /\ pc = "start" /\ pc' = "file"
      /\ UNCHANGED <<server, default_cap, request, files, todo, loop, tally, outcome_rows,
                     seen, manifest, answer, billed>>
      /\ budget' = Only(EffectiveCap) /\ guard' = NewGuard /\ installed' = (EffectiveCap # None)
  BY DEF StartRun, asked, made, ended
<1>2. EffectiveCap = Promised /\ Promised \in Caps \union {None} /\ Promised' = Promised
  BY <1>1, Shapes DEF SolveInv, Promised
<1>3. billed = 0
  BY <1>1 DEF SolveInv, Paying
<1>4. SolveTyped'
  <2>1. NewGuard \in GuardType
    BY DEF NewGuard, GuardType
  <2> QED
    BY <1>1, <1>2, <2>1 DEF SolveInv, SolveTyped
<1>5. Counting'
  BY <1>1 DEF SolveInv, Counting
<1>6. FilesTold'
  BY <1>1 DEF SolveInv, FilesTold
<1>7. Paying'
  <2>1. NewGuard.spent = 0
    BY DEF NewGuard
  <2>2. /\ Promised # None => billed <= Promised + MaxBill
        /\ loop = NewRounds
        /\ tally.sum_usd + loop.cost = billed
        /\ tally.sum_usd = SumUsd(outcome_rows)
    BY <1>1 DEF SolveInv, Paying
  <2> QED
    BY <1>1, <1>2, <1>3, <2>1, <2>2 DEF Paying, Under
<1>8. Written'
  BY <1>1 DEF SolveInv, Written
<1> QED
  BY <1>4, <1>5, <1>6, <1>7, <1>8 DEF SolveInv

(* A file is passed over, read, or done with, and an obligation begun. *)
LEMMA FileFailsStep == SolveInv /\ FileFails => SolveInv'
<1> SUFFICES ASSUME SolveInv, FileFails PROVE SolveInv'
  OBVIOUS
<1>1. /\ pc = "file" /\ pc' = "file" /\ files > 0 /\ files' = files - 1
      /\ UNCHANGED <<server, default_cap, request, budget, guard, installed, billed, todo,
                     loop, outcome_rows, seen, manifest, answer>>
  BY DEF FileFails, asked, money, ended
<1>2. tally' = [parse_failed |-> TRUE, obligations_total |-> tally.obligations_total,
                solved |-> tally.solved, sum_usd |-> tally.sum_usd]
  BY Shapes DEF SolveInv, FileFails
<1>3. /\ tally'.parse_failed = TRUE /\ tally'.obligations_total = tally.obligations_total
      /\ tally'.solved = tally.solved /\ tally'.sum_usd = tally.sum_usd
  BY <1>2
<1>4. SolveTyped'
  <2>1. files' \in 0 .. MaxFiles
    BY <1>1, Bounds DEF SolveInv, SolveTyped
  <2>2. tally' \in [parse_failed : BOOLEAN, obligations_total : Nat, solved : Nat, sum_usd : Nat]
    BY <1>2, Shapes DEF SolveInv
  <2> QED
    BY <1>1, <2>1, <2>2 DEF SolveInv, SolveTyped
<1>5. Counting'
  BY <1>1, <1>3 DEF SolveInv, Counting
<1>6. FilesTold'
  <2>1. files \in Nat /\ seen \in Nat /\ request.files \in Nat
    BY Shapes, Bounds DEF SolveInv, SolveTyped
  <2>2. seen + files <= request.files /\ request.files <= MaxFiles
    BY DEF SolveInv, FilesTold
  <2> QED
    BY <1>1, <1>3, <2>1, <2>2 DEF FilesTold
<1>7. Paying'
  <2>1. Promised' = Promised
    BY <1>1 DEF Promised
  <2> QED
    BY <1>1, <1>3, <2>1 DEF SolveInv, Paying, Under
<1>8. Written'
  BY <1>1 DEF SolveInv, Written
<1> QED
  BY <1>4, <1>5, <1>6, <1>7, <1>8 DEF SolveInv

(* A file is read. *)
LEMMA FileReadStep == SolveInv /\ (\E n \in 0 .. MaxObligations : FileRead(n)) => SolveInv'
<1> SUFFICES ASSUME SolveInv, NEW n \in 0 .. MaxObligations, FileRead(n) PROVE SolveInv'
  OBVIOUS
<1>1. /\ pc = "file" /\ pc' = "obligation" /\ files > 0 /\ files' = files - 1
      /\ todo' = n /\ seen' = seen + 1
      /\ tally.obligations_total + n <= MaxObligations
      /\ UNCHANGED <<server, default_cap, request, budget, guard, installed, billed,
                     loop, tally, outcome_rows, manifest, answer>>
  BY DEF FileRead, asked, money, ended
<1>2. files \in Nat /\ seen \in Nat /\ request.files \in Nat /\ MaxFiles \in Nat
  BY Shapes, Bounds DEF SolveInv, SolveTyped
<1>3. seen + files <= request.files /\ request.files <= MaxFiles
      /\ (tally.parse_failed <=> seen + files < request.files)
  BY DEF SolveInv, FilesTold
<1>4. seen' + files' = seen + files /\ seen' \in 0 .. MaxFiles /\ files' \in 0 .. MaxFiles
  BY <1>1, <1>2, <1>3
<1>5. SolveTyped'
  BY <1>1, <1>4 DEF SolveInv, SolveTyped
<1>6. Counting'
  BY <1>1 DEF SolveInv, Counting
<1>7. FilesTold'
  BY <1>1, <1>3, <1>4 DEF FilesTold
<1>8. Paying'
  <2>1. Promised' = Promised
    BY <1>1 DEF Promised
  <2> QED
    BY <1>1, <2>1 DEF SolveInv, Paying, Under
<1>9. Written'
  BY <1>1 DEF SolveInv, Written
<1> QED
  BY <1>5, <1>6, <1>7, <1>8, <1>9 DEF SolveInv

(* The loop is entered for an obligation. *)
LEMMA BeginStep == SolveInv /\ BeginObligation => SolveInv'
<1> SUFFICES ASSUME SolveInv, BeginObligation PROVE SolveInv'
  OBVIOUS
<1>1. /\ pc = "obligation" /\ pc' = "round" /\ todo > 0 /\ loop' = NewRounds
      /\ UNCHANGED <<server, default_cap, request, budget, guard, installed, billed, files,
                     todo, outcome_rows, seen, manifest, answer>>
  BY DEF BeginObligation, asked, money, ended
<1>2. tally' = [parse_failed |-> tally.parse_failed,
                obligations_total |-> tally.obligations_total + 1,
                solved |-> tally.solved, sum_usd |-> tally.sum_usd]
  BY Shapes DEF SolveInv, BeginObligation
<1>3. /\ tally'.parse_failed = tally.parse_failed
      /\ tally'.obligations_total = tally.obligations_total + 1
      /\ tally'.solved = tally.solved /\ tally'.sum_usd = tally.sum_usd
  BY <1>2
<1>4. loop = NewRounds
  BY <1>1 DEF SolveInv, Paying
<1>5. SolveTyped'
  <2>1. tally' \in [parse_failed : BOOLEAN, obligations_total : Nat, solved : Nat, sum_usd : Nat]
    BY <1>2, Shapes DEF SolveInv
  <2> QED
    BY <1>1, <1>4, <2>1 DEF SolveInv, SolveTyped
<1>6. Counting'
  <2>1. tally.obligations_total \in Nat /\ Len(outcome_rows) \in Nat /\ MaxObligations \in Nat
        /\ todo \in Nat
    BY Shapes, Bounds DEF SolveInv, SolveTyped
  <2>2. tally.obligations_total = Len(outcome_rows)
        /\ tally.obligations_total + todo <= MaxObligations
    BY <1>1 DEF SolveInv, Counting
  <2>3. tally'.obligations_total = Len(outcome_rows) + 1
        /\ tally'.obligations_total + todo <= MaxObligations + 1
        /\ tally'.obligations_total <= MaxObligations
    BY <1>1, <1>3, <2>1, <2>2
  <2> QED
    BY <1>1, <1>3, <2>3 DEF SolveInv, Counting
<1>7. FilesTold'
  BY <1>1, <1>3 DEF SolveInv, FilesTold
<1>8. Paying'
  <2>1. Promised' = Promised
    BY <1>1 DEF Promised
  <2> QED
    BY <1>1, <1>3, <1>4, <2>1 DEF SolveInv, Paying, Under
<1>9. Written'
  BY <1>1 DEF SolveInv, Written
<1> QED
  BY <1>5, <1>6, <1>7, <1>8, <1>9 DEF SolveInv

(* A file is done, and its result is noted. *)
LEMMA FileDoneStep == SolveInv /\ FileDone => SolveInv'
<1> SUFFICES ASSUME SolveInv, FileDone PROVE SolveInv'
  OBVIOUS
<1>1. /\ pc = "obligation" /\ pc' = "file"
      /\ UNCHANGED <<server, default_cap, request, budget, guard, installed, billed, files,
                     todo, loop, tally, outcome_rows, seen, manifest, answer>>
  BY DEF FileDone, asked, money, ended, made
<1>2. Promised' = Promised
  BY <1>1 DEF Promised
<1>3. SolveTyped'
  BY <1>1 DEF SolveInv, SolveTyped
<1>4. Counting'
  BY <1>1 DEF SolveInv, Counting
<1>5. FilesTold'
  BY <1>1 DEF SolveInv, FilesTold
<1>6. Paying'
  BY <1>1, <1>2 DEF SolveInv, Paying, Under
<1>7. Written'
  BY <1>1 DEF SolveInv, Written
<1> QED
  BY <1>3, <1>4, <1>5, <1>6, <1>7 DEF SolveInv

(* The command ends: its manifest and its exit code are of what the loops  *)
(* returned.                                                               *)
LEMMA FinishStep == SolveInv /\ Finish => SolveInv'
<1> SUFFICES ASSUME SolveInv, Finish PROVE SolveInv'
  OBVIOUS
<1>1. /\ pc = "file" /\ pc' = "idle" /\ files = 0 /\ answer' = Answer
      /\ installed' = FALSE
      /\ manifest' = [total_cost_usd |-> tally.sum_usd,
                      obligations_total |-> tally.obligations_total,
                      obligations_solved |-> tally.solved]
      /\ UNCHANGED <<server, default_cap, request, budget, guard, billed, files,
                     todo, loop, tally, outcome_rows, seen>>
  BY DEF Finish, End, asked, made
<1>2. Promised' = Promised /\ Answer' = Answer
  BY <1>1 DEF Promised, Answer
<1>3. manifest' \in ManifestType
  BY <1>1, Shapes DEF SolveInv, ManifestType
<1>4. loop = NewRounds /\ tally.sum_usd + loop.cost = billed /\ tally.sum_usd = billed
  <2>1. loop = NewRounds /\ tally.sum_usd + loop.cost = billed /\ tally.sum_usd \in Nat
    BY <1>1, Shapes DEF SolveInv, Paying
  <2> QED
    BY <2>1 DEF NewRounds
<1>5. SolveTyped'
  BY <1>1, <1>3 DEF SolveInv, SolveTyped
<1>6. Counting'
  BY <1>1 DEF SolveInv, Counting
<1>7. FilesTold'
  BY <1>1 DEF SolveInv, FilesTold
<1>8. Paying'
  BY <1>1, <1>2, <1>4 DEF SolveInv, Paying, Under
<1>9. Written'
  <2>1. manifest' # None /\ manifest'.total_cost_usd = tally.sum_usd
    BY <1>1, <1>3, Bounds
  <2>2. tally.obligations_total = Len(outcome_rows)
    BY <1>1 DEF SolveInv, Counting
  <2> QED
    BY <1>1, <1>2, <1>4, <2>1, <2>2 DEF Written
<1> QED
  BY <1>5, <1>6, <1>7, <1>8, <1>9 DEF SolveInv

(* An outcome that is noted keeps the counters: it is solved, or not all   *)
(* are from now on.                                                        *)
LEMMA OutcomeNoted ==
  ASSUME SolveInv, NEW kind \in OutcomeKinds, NEW cost \in Nat, Outcome(kind, cost)
  PROVE  LET n == Len(outcome_rows) IN
         /\ outcome_rows' \in Seq(OutcomeType) /\ Len(outcome_rows') = n + 1
         /\ tally' \in [parse_failed : BOOLEAN, obligations_total : Nat, solved : Nat, sum_usd : Nat]
         /\ tally'.parse_failed = tally.parse_failed
         /\ tally'.obligations_total = tally.obligations_total
         /\ tally'.sum_usd = tally.sum_usd + cost
         /\ tally'.sum_usd = SumUsd(outcome_rows')
         /\ tally'.solved <= n + 1
         /\ (tally'.solved = n + 1) <=> \A i \in DOMAIN outcome_rows' : outcome_rows'[i].kind = "solved"
<1> DEFINE n == Len(outcome_rows)
           o == [kind |-> kind, total_cost_usd |-> cost]
           one == IF kind = "solved" THEN 1 ELSE 0
<1>1. o \in OutcomeType /\ o.kind = kind /\ o.total_cost_usd = cost
  BY DEF OutcomeType
<1>2. outcome_rows \in Seq(OutcomeType) /\ n \in Nat
  BY DEF SolveInv, SolveTyped
<1>3. outcome_rows' = Append(outcome_rows, o)
  BY DEF Outcome
<1>4. one \in Nat
  OBVIOUS
<1>5. tally' = [parse_failed |-> tally.parse_failed,
                obligations_total |-> tally.obligations_total,
                solved |-> tally.solved + one, sum_usd |-> tally.sum_usd + cost]
  BY Shapes DEF SolveInv, Outcome
<1> HIDE DEF o, one
<1>6. /\ tally.parse_failed \in BOOLEAN /\ tally.obligations_total \in Nat
      /\ tally.solved \in Nat /\ tally.sum_usd \in Nat
  BY Shapes DEF SolveInv
<1>7. outcome_rows' \in Seq(OutcomeType) /\ Len(outcome_rows') = n + 1
      /\ DOMAIN outcome_rows' = 1 .. n + 1 /\ DOMAIN outcome_rows = 1 .. n
      /\ outcome_rows'[n + 1] = o /\ \A i \in 1 .. n : outcome_rows'[i] = outcome_rows[i]
  BY <1>1, <1>2, <1>3
<1>8. tally'.sum_usd = SumUsd(outcome_rows')
  <2>1. SumUsd(outcome_rows') = SumUsd(outcome_rows) + cost
    BY <1>1, <1>2, <1>3, CostAdded
  <2> QED
    BY <1>5, <2>1 DEF SolveInv, Paying
<1>9. tally'.solved <= n + 1
      /\ ((tally'.solved = n + 1) <=> tally.solved = n /\ kind = "solved")
  <2>1. tally.solved <= n
    BY DEF SolveInv, Counting
  <2>2. tally'.solved = tally.solved + one
    BY <1>5
  <2> QED
    BY <1>2, <1>6, <2>1, <2>2 DEF one
<1>10. (\A i \in DOMAIN outcome_rows' : outcome_rows'[i].kind = "solved")
       <=> kind = "solved" /\ \A i \in DOMAIN outcome_rows : outcome_rows[i].kind = "solved"
  <2>1. \A i : i \in 1 .. n + 1 <=> i \in 1 .. n \/ i = n + 1
    BY <1>2
  <2> QED
    BY <1>1, <1>7, <2>1
<1>11. (tally.solved = n) <=> \A i \in DOMAIN outcome_rows : outcome_rows[i].kind = "solved"
  BY DEF SolveInv, Counting
<1>12. tally' \in [parse_failed : BOOLEAN, obligations_total : Nat, solved : Nat, sum_usd : Nat]
       /\ tally'.parse_failed = tally.parse_failed
       /\ tally'.obligations_total = tally.obligations_total
       /\ tally'.sum_usd = tally.sum_usd + cost
  BY <1>4, <1>5, <1>6
<1> QED
  BY <1>7, <1>8, <1>9, <1>10, <1>11, <1>12

(* A round that paid c, which the guard has counted if there is one: the   *)
(* next, or the end of the obligation.                                     *)
LEMMA RoundStep ==
  ASSUME SolveInv, NEW c \in Nat, pc = "round", UNCHANGED <<asked, budget, installed, files, ended>>,
         guard' \in GuardType, billed' = billed + c, installed => guard'.spent = billed',
         Promised # None => billed' <= Promised + MaxBill,
         \/ loop.rounds < MaxRounds /\ NextRound(c)
         \/ \E kind \in OutcomeKinds : Outcome(kind, loop.cost + c)
  PROVE  SolveInv'
<1>1. UNCHANGED <<server, default_cap, request, budget, installed, files, manifest, answer>>
  BY DEF asked, ended
<1>2. Promised' = Promised
  BY <1>1 DEF Promised
<1>3. /\ loop.rounds \in 0 .. MaxRounds /\ loop.cost \in Nat /\ billed \in Nat
      /\ tally.sum_usd \in Nat /\ MaxRounds \in Nat
  BY Shapes, Bounds DEF SolveInv, SolveTyped
<1>4. tally.sum_usd + loop.cost = billed
  BY DEF SolveInv, Paying
<1>5. /\ budget = Only(Promised)
      /\ installed <=> Promised # None
  BY DEF SolveInv, Paying, Under
<1>6. manifest = None
  BY DEF SolveInv, Written
<1>7. CASE loop.rounds < MaxRounds /\ NextRound(c)
  <2>1. /\ pc' = "round" /\ UNCHANGED <<todo, tally, outcome_rows, seen>>
        /\ loop' = [rounds |-> loop.rounds + 1, cost |-> loop.cost + c]
    BY <1>7 DEF NextRound, made
  <2>2. loop' \in [rounds : 0 .. MaxRounds, cost : Nat] /\ loop'.cost = loop.cost + c
    BY <1>3, <1>7, <2>1
  <2>3. SolveTyped'
    BY <1>1, <1>3, <2>1, <2>2 DEF SolveInv, SolveTyped
  <2>4. Counting'
    BY <2>1 DEF SolveInv, Counting
  <2>5. FilesTold'
    BY <1>1, <2>1 DEF SolveInv, FilesTold
  <2>6. Paying'
    <3>1. tally'.sum_usd + loop'.cost = billed'
      BY <1>3, <1>4, <2>1, <2>2
    <3>2. tally'.sum_usd = SumUsd(outcome_rows')
      BY <2>1 DEF SolveInv, Paying
    <3> QED
      BY <1>1, <1>2, <1>5, <2>1, <3>1, <3>2 DEF Paying, Under
  <2>7. Written'
    BY <1>1, <1>6, <2>1 DEF SolveInv, Written
  <2> QED
    BY <2>3, <2>4, <2>5, <2>6, <2>7 DEF SolveInv
<1>8. ASSUME NEW kind \in OutcomeKinds, Outcome(kind, loop.cost + c)
      PROVE  SolveInv'
  <2>1. /\ pc' = "obligation" /\ todo' = todo - 1 /\ loop' = NewRounds /\ seen' = seen
    BY <1>8 DEF Outcome
  <2>2. loop.cost + c \in Nat
    BY <1>3
  <2> DEFINE n == Len(outcome_rows)
  <2>3. /\ outcome_rows' \in Seq(OutcomeType) /\ Len(outcome_rows') = n + 1
        /\ tally' \in [parse_failed : BOOLEAN, obligations_total : Nat, solved : Nat, sum_usd : Nat]
        /\ tally'.parse_failed = tally.parse_failed
        /\ tally'.obligations_total = tally.obligations_total
        /\ tally'.sum_usd = tally.sum_usd + (loop.cost + c)
        /\ tally'.sum_usd = SumUsd(outcome_rows')
        /\ tally'.solved <= n + 1
        /\ (tally'.solved = n + 1) <=> \A i \in DOMAIN outcome_rows' : outcome_rows'[i].kind = "solved"
    BY <1>8, <2>2, OutcomeNoted
  <2>4. /\ todo > 0 /\ tally.obligations_total = n + 1
        /\ tally.obligations_total + todo <= MaxObligations + 1
        /\ tally.obligations_total <= MaxObligations
    BY DEF SolveInv, Counting
  <2>5. todo \in 0 .. MaxObligations /\ MaxObligations \in Nat /\ tally.obligations_total \in Nat
    BY Shapes, Bounds DEF SolveInv, SolveTyped
  <2>6. todo' \in 0 .. MaxObligations /\ tally.obligations_total + todo' <= MaxObligations
    BY <2>1, <2>4, <2>5
  <2>7. loop' \in [rounds : 0 .. MaxRounds, cost : Nat] /\ loop'.cost = 0
    BY <2>1, <1>3 DEF NewRounds
  <2>8. SolveTyped'
    <3>1. billed' \in Nat
      BY <1>3
    <3>2. /\ outcome_rows' \in Seq(OutcomeType)
          /\ tally' \in [parse_failed : BOOLEAN, obligations_total : Nat, solved : Nat, sum_usd : Nat]
      BY <2>3
    <3> QED
      BY <1>1, <2>1, <2>6, <2>7, <3>1, <3>2 DEF SolveInv, SolveTyped
  <2>9. Counting'
    BY <2>1, <2>3, <2>4, <2>6 DEF Counting
  <2>10. FilesTold'
    BY <1>1, <2>1, <2>3 DEF SolveInv, FilesTold
  <2>11. Paying'
    <3>1. tally'.sum_usd + loop'.cost = billed'
      BY <1>3, <1>4, <2>3, <2>7
    <3> QED
      BY <1>1, <1>2, <1>5, <2>1, <2>3, <3>1 DEF Paying, Under
  <2>12. Written'
    BY <1>1, <1>6, <2>1 DEF SolveInv, Written
  <2> QED
    BY <2>8, <2>9, <2>10, <2>11, <2>12 DEF SolveInv
<1> QED
  BY <1>7, <1>8

(* The guard of a cap has counted what the command was billed, so that the *)
(* call it admits crosses the cap at most by its own bill; and what record *)
(* cannot price costs nothing.                                             *)
LEMMA PaidStep == SolveInv /\ (\E bill \in Bills : PaidRound(bill)) => SolveInv'
<1> SUFFICES ASSUME SolveInv, NEW bill \in Bills, PaidRound(bill) PROVE SolveInv'
  OBVIOUS
<1>1. /\ pc = "round" /\ loop.rounds < MaxRounds
      /\ EnsureNotExceeded(budget, guard)
      /\ billed' = billed + bill.cost
      /\ guard' = IF installed THEN Recorded(budget, guard, bill) ELSE guard
      /\ UNCHANGED <<asked, budget, installed, files, ended>>
  BY DEF PaidRound, Proposing
<1>2. bill \in BillType /\ bill.cost \in Nat /\ bill.cost <= MaxBill /\ MaxBill \in Nat
  BY Bounds
<1>3. /\ budget = Only(Promised)
      /\ installed <=> Promised # None
      /\ installed => guard.spent = billed
      /\ Promised # None => billed <= Promised + MaxBill
  BY <1>1 DEF SolveInv, Paying, Under
<1>4. Promised \in Cap /\ (Promised # None => Promised \in Nat) /\ guard \in GuardType /\ billed \in Nat
  BY Shapes, SpendingAssumption DEF SolveInv, SolveTyped, Cap
<1>5. budget \in BudgetType /\ budget.max_cost_usd = Promised
  BY <1>3, <1>4 DEF Only, BudgetType, Cap
<1>6. /\ Recorded(budget, guard, bill) \in GuardType
      /\ Unaccountable(budget, bill) => bill.cost = 0
      /\ Recorded(budget, guard, bill).spent = guard.spent + bill.cost
  BY <1>2, <1>4, <1>5, RecordedCounts
<1>7. guard' \in GuardType /\ (installed => guard'.spent = billed')
  BY <1>1, <1>3, <1>4, <1>6
<1>8. Promised # None => billed' <= Promised + MaxBill
  <2>1. SUFFICES ASSUME Promised # None PROVE billed' <= Promised + MaxBill
    OBVIOUS
  <2>2. guard.spent = billed /\ guard.spent <= Promised
    BY <1>1, <1>3, <1>5, <2>1 DEF EnsureNotExceeded
  <2> QED
    BY <1>1, <1>2, <1>4, <2>1, <2>2
<1>9. AttemptedCost(budget, bill) = bill.cost
  BY <1>6 DEF AttemptedCost
<1>10. \/ NextRound(bill.cost)
       \/ \E kind \in OutcomeKinds : Outcome(kind, loop.cost + bill.cost)
  <2>1. \/ NextRound(bill.cost)
        \/ Outcome("budget_exceeded", loop.cost + AttemptedCost(budget, bill))
    BY DEF PaidRound
  <2> QED
    BY <1>9, <2>1 DEF OutcomeKinds
<1> QED
  BY <1>1, <1>2, <1>7, <1>8, <1>10, RoundStep

(* A round that costs nothing. *)
LEMMA FreeStep ==
  SolveInv /\ (\/ FreeRound \/ RefusedRound \/ FailedRound
               \/ \E kind \in {"solved", "gave_up", "prover_error"} : EndRounds(kind)) => SolveInv'
<1> SUFFICES ASSUME SolveInv,
                    \/ FreeRound \/ RefusedRound \/ FailedRound
                    \/ \E kind \in {"solved", "gave_up", "prover_error"} : EndRounds(kind)
             PROVE  SolveInv'
  OBVIOUS
<1>1. pc = "round" /\ UNCHANGED <<asked, money, files, ended>>
  BY DEF FreeRound, RefusedRound, FailedRound, EndRounds, Proposing
<1>2. UNCHANGED <<asked, budget, installed, files, ended>> /\ guard' = guard /\ billed' = billed
  BY <1>1 DEF money
<1>3. /\ guard \in GuardType /\ billed \in Nat /\ loop.cost \in Nat
      /\ installed => guard.spent = billed
      /\ Promised # None => billed <= Promised + MaxBill
  BY <1>1, Shapes DEF SolveInv, SolveTyped, Paying, Under
<1>4. billed' = billed + 0 /\ loop.cost + 0 = loop.cost
  BY <1>2, <1>3
<1>5. \/ loop.rounds < MaxRounds /\ NextRound(0)
      \/ \E kind \in OutcomeKinds : Outcome(kind, loop.cost)
  BY DEF FreeRound, RefusedRound, FailedRound, EndRounds, Proposing, OutcomeKinds
<1>6. \/ loop.rounds < MaxRounds /\ NextRound(0)
      \/ \E kind \in OutcomeKinds : Outcome(kind, loop.cost + 0)
  BY <1>4, <1>5
<1> QED
  BY <1>1, <1>2, <1>3, <1>4, <1>6, RoundStep

(* It stays when nothing moves. *)
LEMMA SolveStutters == SolveInv /\ UNCHANGED vars => SolveInv'
<1> SUFFICES ASSUME SolveInv, UNCHANGED vars PROVE SolveInv'
  OBVIOUS
<1>1. UNCHANGED <<pc, server, default_cap, request, budget, guard, installed, billed, files,
                  todo, loop, tally, outcome_rows, seen, manifest, answer>>
  BY DEF vars
<1>2. Promised' = Promised /\ Answer' = Answer
  BY <1>1 DEF Promised, Answer
<1> QED
  BY <1>1, <1>2 DEF SolveInv, SolveTyped, Counting, FilesTold, Paying, Under, Written

(* Every step keeps it. *)
LEMMA SolveSteps == SolveInv /\ [Next]_vars => SolveInv'
BY AskStep, BreakStep, StartStep, FileFailsStep, FileReadStep, BeginStep, PaidStep, FreeStep,
   FileDoneStep, FinishStep, SolveStutters DEF Next

-----------------------------------------------------------------------------
(* It gives the types, *)
LEMMA SolveTypes == SolveInv => TypeOK
<1> SUFFICES ASSUME SolveInv PROVE TypeOK
  OBVIOUS
<1>1. Len(outcome_rows) \in Nat /\ tally.solved \in Nat /\ tally.obligations_total \in Nat
      /\ loop.rounds \in 0 .. MaxRounds
  BY Shapes DEF SolveInv
<1>2. /\ tally.solved <= Len(outcome_rows)
      /\ tally.obligations_total \in {Len(outcome_rows), Len(outcome_rows) + 1}
      /\ tally.obligations_total <= MaxObligations
  BY DEF SolveInv, Counting
<1>3. tally.solved <= tally.obligations_total
      /\ Len(outcome_rows) \in {tally.obligations_total, tally.obligations_total - 1}
  BY <1>1, <1>2
<1> QED
  BY <1>1, <1>2, <1>3 DEF SolveInv, SolveTyped, TypeOK

(* the cap of a command, *)
LEMMA SolveCaps == SolveInv => CapHoldsPerCommand
BY DEF SolveInv, SolveTyped, Paying, Under, CapHoldsPerCommand

(* what is told of its spending, *)
LEMMA SolveSpending == SolveInv => SpendingReported
BY DEF SolveInv, Paying, Under, Written, SpendingReported

(* and the exit code. *)
LEMMA SolveExit == SolveInv => ExitCodeTellsAll
<1> SUFFICES ASSUME SolveInv, pc = "idle", manifest # None, ~server
             PROVE  LET all == \A i \in DOMAIN outcome_rows : outcome_rows[i].kind = "solved"
                    IN  /\ (answer = "0") <=> (all /\ seen = request.files)
                        /\ (answer = "1") <=> (~all /\ seen = request.files)
  BY DEF ExitCodeTellsAll
<1> DEFINE n == Len(outcome_rows)
           all == \A i \in DOMAIN outcome_rows : outcome_rows[i].kind = "solved"
<1>1. files = 0 /\ answer = Answer /\ tally.obligations_total = n
  BY DEF SolveInv, Written
<1>2. tally.solved <= n /\ ((tally.solved = n) <=> all)
  BY DEF SolveInv, Counting
<1>3. tally.solved \in Nat /\ n \in Nat /\ seen \in Nat /\ request.files \in Nat
  BY Shapes, Bounds DEF SolveInv, SolveTyped
<1>4. (tally.solved < tally.obligations_total) <=> ~all
  <2> HIDE DEF all, n
  <2> QED
    BY <1>1, <1>2, <1>3
<1>5. tally.parse_failed <=> seen # request.files
  BY <1>1, <1>3 DEF SolveInv, FilesTold
<1>6. answer = IF tally.parse_failed THEN "2"
               ELSE IF tally.solved < tally.obligations_total THEN "1" ELSE "0"
  BY <1>1 DEF Answer
<1> HIDE DEF all
<1> QED
  BY <1>4, <1>5, <1>6 DEF all

-----------------------------------------------------------------------------
(* The requests of the server. *)

(* Where the task of a request may be. *)
Stages == {"idle", "starting", "running", "waiting", "extracting", "done"}

(* What the server keeps of it. *)
TaskType ==
  [pc : Stages, tool : Tools \union {None}, cap : Caps \union {None}, calls : 0 .. MaxCalls,
   total : Nat, unread : BOOLEAN]

(* The ranges of the variables. *)
ServerTyped ==
  /\ default_max_cost_usd \in Caps
  /\ turn \in Requests \union {None}
  /\ task \in [Requests -> TaskType]
  /\ current \in [Requests -> Requests \union {None}]
  /\ guards \in [Requests -> InstalledType \union {None}]
  /\ llm_rows \in [Requests -> Nat \union {None}]
  /\ answers = [t \in Requests |-> answers[t]]

(* The cap that holds for a call. *)
CapOf(t) ==
  IF task[t].cap # None THEN task[t].cap
  ELSE IF task[t].tool = "solve" THEN default_max_cost_usd ELSE None

(* A request that is worked on has its run and, if there is a cap, a guard *)
(* of its own, and both have counted what it paid.                         *)
Own(t) ==
  /\ (turn = t) <=> (task[t].pc \in {"starting", "running", "extracting"})
  /\ current[t] = IF task[t].pc \in {"running", "waiting", "extracting"} THEN t ELSE None
  /\ task[t].pc \in {"idle", "starting"} => task[t].calls = 0 /\ task[t].total = 0 /\ llm_rows[t] = None
  /\ task[t].pc \in {"running", "waiting", "extracting"} => llm_rows[t] # None
  /\ llm_rows[t] # None => llm_rows[t] = task[t].total
  /\ (guards[t] # None) <=> (task[t].pc \in {"running", "waiting", "extracting"} /\ CapOf(t) # None)
  /\ guards[t] # None => guards[t].budget = Only(CapOf(t)) /\ guards[t].counted.spent = task[t].total
  /\ CapOf(t) # None => task[t].total <= CapOf(t) + MaxBill
  /\ (answers[t].kind = "none") <=> (task[t].pc # "done")
  /\ (answers[t].kind = "ok" /\ task[t].tool # "cost_report") => answers[t].total = llm_rows[t]

(* The invariant of the server. *)
ServerInv == ServerTyped /\ \A t \in Requests : Own(t)

(* What the assumptions on the constants say. *)
LEMMA ServerBounds ==
  /\ None \notin Requests /\ None \notin InstalledType /\ None \notin Nat
  /\ MaxCalls \in Nat /\ MaxBill \in Nat
  /\ \A cap \in Caps : cap \in Nat \/ cap = None
  /\ \A bill \in Bills : bill \in BillType /\ bill.cost \in Nat /\ bill.cost <= MaxBill
<1>1. \A bill \in Bills : bill \in BillType /\ bill.cost <= MaxBill
  BY SpendingAssumption
<1>2. \A bill \in Bills : bill.cost \in Nat
  BY <1>1 DEF BillType
<1> QED
  BY <1>1, <1>2, SpendingAssumption, McpServerAssumption, NoneAssumption DEF Cap

(* A task, field by field. *)
LEMMA TaskShape ==
  ASSUME ServerTyped, NEW t \in Requests
  PROVE  /\ task[t].pc \in Stages /\ task[t].tool \in Tools \union {None}
         /\ task[t].cap \in Caps \union {None} /\ task[t].calls \in 0 .. MaxCalls
         /\ task[t].total \in Nat /\ task[t].unread \in BOOLEAN
         /\ task[t] = [pc |-> task[t].pc, tool |-> task[t].tool, cap |-> task[t].cap,
                       calls |-> task[t].calls, total |-> task[t].total, unread |-> task[t].unread]
         /\ CapOf(t) \in Cap /\ (CapOf(t) # None => CapOf(t) \in Nat)
         /\ CapOf(t) = ToolCap(task[t].tool, task[t].cap)
<1>1. task[t] \in TaskType
  BY DEF ServerTyped
<1>2. /\ task[t].pc \in Stages /\ task[t].tool \in Tools \union {None}
      /\ task[t].cap \in Caps \union {None} /\ task[t].calls \in 0 .. MaxCalls
      /\ task[t].total \in Nat /\ task[t].unread \in BOOLEAN
      /\ task[t] = [pc |-> task[t].pc, tool |-> task[t].tool, cap |-> task[t].cap,
                    calls |-> task[t].calls, total |-> task[t].total, unread |-> task[t].unread]
  BY <1>1 DEF TaskType
<1>3. CapOf(t) \in Caps \union {None}
  BY <1>2 DEF CapOf, ServerTyped
<1>4. CapOf(t) = ToolCap(task[t].tool, task[t].cap)
  BY DEF CapOf, ToolCap
<1> QED
  BY <1>2, <1>3, <1>4, ServerBounds, SpendingAssumption DEF Cap

(* It holds before the first request. *)
LEMMA ServerStarts == ServerInit => ServerInv
<1> SUFFICES ASSUME ServerInit PROVE ServerInv
  OBVIOUS
<1>1. NewTask \in TaskType
  BY ServerBounds DEF NewTask, TaskType, Stages
<1>2. ServerTyped
  BY <1>1 DEF ServerInit, ServerTyped
<1>3. ASSUME NEW t \in Requests PROVE Own(t)
  <2>1. /\ task[t].pc = "idle" /\ task[t].calls = 0 /\ task[t].total = 0
        /\ turn = None /\ current[t] = None /\ guards[t] = None /\ llm_rows[t] = None
        /\ answers[t].kind = "none"
    BY DEF ServerInit, NewTask, NoAnswer
  <2>2. CapOf(t) # None => task[t].total <= CapOf(t) + MaxBill
    <3>1. CapOf(t) # None => CapOf(t) \in Nat
      BY <1>2, TaskShape
    <3> QED
      BY <2>1, <3>1, ServerBounds
  <2> QED
    BY <2>1, <2>2, ServerBounds DEF Own
<1> QED
  BY <1>2, <1>3 DEF ServerInv

(* Nothing of a request is changed by another's step. *)
LEMMA Elsewhere ==
  ASSUME ServerInv, NEW t \in Requests, NEW u \in Requests, u # t,
         default_max_cost_usd' = default_max_cost_usd,
         task'[u] = task[u], current'[u] = current[u], guards'[u] = guards[u],
         llm_rows'[u] = llm_rows[u], answers'[u] = answers[u],
         turn \in {None, t}, turn' \in {None, t}
  PROVE  Own(u)'
<1>1. Own(u)
  BY DEF ServerInv
<1>2. CapOf(u)' = CapOf(u)
  BY DEF CapOf
<1>3. turn # u /\ turn' # u
  BY ServerBounds
<1> QED
  BY <1>1, <1>2, <1>3 DEF Own

(* A step of t that leaves the guard, the runs and the answers alone. *)
LEMMA ReceiveStep ==
  ASSUME ServerInv, NEW t \in Requests, NEW tool \in Tools, NEW cap \in Caps, Receive(t, tool, cap)
  PROVE  ServerInv'
<1>1. /\ turn = None /\ task[t].pc = "idle" /\ turn' = t
      /\ UNCHANGED <<default_max_cost_usd, current, guards, llm_rows, answers>>
  BY DEF Receive
<1>2. task' = [task EXCEPT ![t] = [pc |-> "starting", tool |-> tool, cap |-> cap, calls |-> task[t].calls,
                                   total |-> task[t].total, unread |-> task[t].unread]]
  <2> DEFINE old == task[t]
             one == [old EXCEPT !.pc = "starting"]
             two == [one EXCEPT !.tool = tool]
  <2>1. old \in TaskType
    BY DEF ServerInv, ServerTyped
  <2>2. task' = [task EXCEPT ![t] = [two EXCEPT !.cap = cap]]
    BY DEF Receive
  <2> HIDE DEF old
  <2>3. one = [pc |-> "starting", tool |-> old.tool, cap |-> old.cap, calls |-> old.calls,
               total |-> old.total, unread |-> old.unread]
    BY <2>1 DEF TaskType
  <2> HIDE DEF one
  <2>4. two = [pc |-> "starting", tool |-> tool, cap |-> old.cap, calls |-> old.calls,
               total |-> old.total, unread |-> old.unread]
    BY <2>3
  <2> HIDE DEF two
  <2>5. [two EXCEPT !.cap = cap]
          = [pc |-> "starting", tool |-> tool, cap |-> cap, calls |-> old.calls,
             total |-> old.total, unread |-> old.unread]
    BY <2>4
  <2> QED
    BY <2>2, <2>5 DEF old
<1>3. task'[t] = [pc |-> "starting", tool |-> tool, cap |-> cap, calls |-> task[t].calls,
                  total |-> task[t].total, unread |-> task[t].unread]
      /\ \A u \in Requests : u # t => task'[u] = task[u]
  <2>1. task \in [Requests -> TaskType]
    BY DEF ServerInv, ServerTyped
  <2> QED
    BY <1>2, <2>1, Zenon
<1>4. ServerTyped'
  <2>1. task'[t] \in TaskType
    <3>1. /\ task[t].tool \in Tools \union {None} /\ task[t].cap \in Caps \union {None}
          /\ task[t].calls \in 0 .. MaxCalls /\ task[t].total \in Nat /\ task[t].unread \in BOOLEAN
      BY TaskShape DEF ServerInv
    <3> QED
      BY <1>3, <3>1 DEF TaskType, Stages
  <2>2. task' \in [Requests -> TaskType]
    BY <1>2, <1>3, <2>1 DEF ServerInv, ServerTyped
  <2> QED
    BY <1>1, <2>2 DEF ServerInv, ServerTyped
<1>5. ASSUME NEW u \in Requests, u # t PROVE Own(u)'
  BY <1>1, <1>3, <1>5, Elsewhere
<1>6. Own(t)'
  <2>1. Own(t)
    BY DEF ServerInv
  <2>2. task'[t].pc = "starting" /\ task'[t].calls = task[t].calls /\ task'[t].total = task[t].total
    BY <1>3
  <2>3. CapOf(t)' # None => CapOf(t)' \in Nat
    <3>1. task'[t].cap \in Caps
      BY <1>3
    <3>2. CapOf(t)' \in Caps \union {None}
      BY <1>4, <3>1 DEF CapOf, ServerTyped
    <3> QED
      BY <3>2, ServerBounds
  <2>4. /\ task[t].calls = 0 /\ task[t].total = 0 /\ llm_rows[t] = None
        /\ guards[t] = None /\ current[t] = None /\ answers[t].kind = "none"
    BY <1>1, <2>1 DEF Own
  <2>5. CapOf(t)' # None => task'[t].total <= CapOf(t)' + MaxBill
    BY <2>2, <2>3, <2>4, ServerBounds
  <2> QED
    BY <1>1, <2>2, <2>4, <2>5 DEF Own
<1> QED
  BY <1>4, <1>5, <1>6 DEF ServerInv

(* An answer, whatever it says, ends the call and takes down its guard. *)
LEMMA ReplyStep ==
  ASSUME ServerInv, NEW t \in Requests, turn = t, NEW kind \in {"ok", "error", "raised"}, NEW total,
         Reply(t, kind, total), UNCHANGED <<default_max_cost_usd, llm_rows>>,
         (kind = "ok" /\ task[t].tool # "cost_report") => total = llm_rows[t]
  PROVE  ServerInv'
<1>1. /\ turn' = None
      /\ current' = [current EXCEPT ![t] = None]
      /\ guards' = [guards EXCEPT ![t] = None]
      /\ answers' = [answers EXCEPT ![t] = [kind |-> kind, total |-> total]]
  BY DEF Reply, Leave
<1>2. task' = [task EXCEPT ![t] = [pc |-> "done", tool |-> task[t].tool, cap |-> task[t].cap,
                                   calls |-> task[t].calls, total |-> task[t].total,
                                   unread |-> task[t].unread]]
  <2> DEFINE old == task[t]
  <2>1. old \in TaskType
    BY DEF ServerInv, ServerTyped
  <2>2. task' = [task EXCEPT ![t] = [old EXCEPT !.pc = "done"]]
    BY DEF Reply, Leave
  <2> HIDE DEF old
  <2>3. [old EXCEPT !.pc = "done"]
          = [pc |-> "done", tool |-> old.tool, cap |-> old.cap, calls |-> old.calls,
             total |-> old.total, unread |-> old.unread]
    BY <2>1 DEF TaskType
  <2> QED
    BY <2>2, <2>3 DEF old
<1>3. /\ task'[t] = [pc |-> "done", tool |-> task[t].tool, cap |-> task[t].cap,
                     calls |-> task[t].calls, total |-> task[t].total, unread |-> task[t].unread]
      /\ current'[t] = None /\ guards'[t] = None
      /\ answers'[t] = [kind |-> kind, total |-> total]
  BY <1>1, <1>2 DEF ServerInv, ServerTyped
<1>4. \A u \in Requests : u # t =>
        /\ task'[u] = task[u] /\ current'[u] = current[u]
        /\ guards'[u] = guards[u] /\ answers'[u] = answers[u]
  BY <1>1, <1>2 DEF ServerInv, ServerTyped
<1>5. ServerTyped'
  <2>1. task'[t] \in TaskType
    <3>1. /\ task[t].tool \in Tools \union {None} /\ task[t].cap \in Caps \union {None}
          /\ task[t].calls \in 0 .. MaxCalls /\ task[t].total \in Nat /\ task[t].unread \in BOOLEAN
      BY TaskShape DEF ServerInv
    <3> QED
      BY <1>3, <3>1 DEF TaskType, Stages
  <2>2. task' \in [Requests -> TaskType]
    BY <1>2, <1>3, <2>1 DEF ServerInv, ServerTyped
  <2>3. current' \in [Requests -> Requests \union {None}]
    BY <1>1 DEF ServerInv, ServerTyped
  <2>4. guards' \in [Requests -> InstalledType \union {None}]
    BY <1>1 DEF ServerInv, ServerTyped
  <2>5. answers' = [u \in Requests |-> answers'[u]]
    BY <1>1 DEF ServerInv, ServerTyped
  <2> QED
    BY <1>1, <2>2, <2>3, <2>4, <2>5 DEF ServerInv, ServerTyped
<1>6. ASSUME NEW u \in Requests, u # t PROVE Own(u)'
  BY <1>1, <1>4, <1>6, Elsewhere
<1>7. Own(t)'
  <2>1. Own(t)
    BY DEF ServerInv
  <2>2. /\ task'[t].pc = "done" /\ task'[t].tool = task[t].tool /\ task'[t].cap = task[t].cap
        /\ task'[t].total = task[t].total
        /\ answers'[t].kind = kind /\ answers'[t].total = total
    BY <1>3
  <2>3. CapOf(t)' = CapOf(t)
    BY <2>2 DEF CapOf
  <2>4. turn' # t
    BY <1>1, ServerBounds
  <2> QED
    BY <1>3, <2>1, <2>2, <2>3, <2>4 DEF Own
<1> QED
  BY <1>5, <1>6, <1>7 DEF ServerInv

(* The run of a call is its own, and so is its guard, if it has a cap.     *)
LEMMA StartsStep == \A t \in Requests : ServerInv /\ ToolStarts(t) => ServerInv'
<1> SUFFICES ASSUME NEW t \in Requests, ServerInv, ToolStarts(t) PROVE ServerInv'
  OBVIOUS
<1> DEFINE cap == CapOf(t)
           own_guard == IF cap = None THEN None ELSE [budget |-> Only(cap), counted |-> NewGuard]
<1>1. /\ turn = t /\ task[t].pc = "starting"
      /\ current' = [current EXCEPT ![t] = t]
      /\ llm_rows' = [llm_rows EXCEPT ![t] = 0]
      /\ guards' = [guards EXCEPT ![t] = own_guard]
      /\ UNCHANGED <<default_max_cost_usd, turn, answers>>
  BY TaskShape DEF ServerInv, ToolStarts
<1>2. task' = [task EXCEPT ![t] = [pc |-> "running", tool |-> task[t].tool, cap |-> task[t].cap,
                                   calls |-> task[t].calls, total |-> task[t].total,
                                   unread |-> task[t].unread]]
  <2> DEFINE old == task[t]
  <2>1. old \in TaskType
    BY DEF ServerInv, ServerTyped
  <2>2. task' = [task EXCEPT ![t] = [old EXCEPT !.pc = "running"]]
    BY DEF ToolStarts
  <2> HIDE DEF old
  <2>3. [old EXCEPT !.pc = "running"]
          = [pc |-> "running", tool |-> old.tool, cap |-> old.cap, calls |-> old.calls,
             total |-> old.total, unread |-> old.unread]
    BY <2>1 DEF TaskType
  <2> QED
    BY <2>2, <2>3 DEF old
<1> HIDE DEF own_guard
<1>3. /\ task'[t] = [pc |-> "running", tool |-> task[t].tool, cap |-> task[t].cap,
                     calls |-> task[t].calls, total |-> task[t].total, unread |-> task[t].unread]
      /\ current'[t] = t /\ llm_rows'[t] = 0 /\ guards'[t] = own_guard
  BY <1>1, <1>2 DEF ServerInv, ServerTyped
<1>4. \A u \in Requests : u # t =>
        /\ task'[u] = task[u] /\ current'[u] = current[u]
        /\ guards'[u] = guards[u] /\ llm_rows'[u] = llm_rows[u]
  BY <1>1, <1>2 DEF ServerInv, ServerTyped
<1>5. cap \in Cap /\ (cap # None => cap \in Nat)
  BY TaskShape DEF ServerInv
<1> HIDE DEF cap
<1>6. own_guard # None <=> cap # None
  <2>1. cap # None => own_guard \in InstalledType
    <3>1. NewGuard \in GuardType
      BY DEF NewGuard, GuardType
    <3>2. Only(cap) \in BudgetType
      BY <1>5 DEF Only, BudgetType, Cap
    <3> QED
      BY <3>1, <3>2 DEF own_guard, InstalledType
  <2> QED
    BY <2>1, ServerBounds DEF own_guard
<1>7. own_guard \in InstalledType \union {None}
  <2>1. NewGuard \in GuardType
    BY DEF NewGuard, GuardType
  <2>2. Only(cap) \in BudgetType
    BY <1>5 DEF Only, BudgetType, Cap
  <2> QED
    BY <2>1, <2>2 DEF own_guard, InstalledType
<1>8. ServerTyped'
  <2>1. task'[t] \in TaskType
    <3>1. /\ task[t].tool \in Tools \union {None} /\ task[t].cap \in Caps \union {None}
          /\ task[t].calls \in 0 .. MaxCalls /\ task[t].total \in Nat /\ task[t].unread \in BOOLEAN
      BY TaskShape DEF ServerInv
    <3> QED
      BY <1>3, <3>1 DEF TaskType, Stages
  <2>2. task' \in [Requests -> TaskType]
    BY <1>2, <1>3, <2>1 DEF ServerInv, ServerTyped
  <2>3. current' \in [Requests -> Requests \union {None}]
    BY <1>1 DEF ServerInv, ServerTyped
  <2>4. guards' \in [Requests -> InstalledType \union {None}]
    BY <1>1, <1>7 DEF ServerInv, ServerTyped
  <2>5. llm_rows' \in [Requests -> Nat \union {None}]
    BY <1>1 DEF ServerInv, ServerTyped
  <2> QED
    BY <1>1, <2>2, <2>3, <2>4, <2>5 DEF ServerInv, ServerTyped
<1>9. ASSUME NEW u \in Requests, u # t PROVE Own(u)'
  BY <1>1, <1>4, <1>9, Elsewhere
<1>10. Own(t)'
  <2>1. Own(t)
    BY DEF ServerInv
  <2>2. /\ task'[t].pc = "running" /\ task'[t].tool = task[t].tool /\ task'[t].cap = task[t].cap
        /\ task'[t].calls = task[t].calls /\ task'[t].total = task[t].total
    BY <1>3
  <2>3. CapOf(t)' = cap
    BY <1>1, <2>2 DEF CapOf, cap
  <2>4. task[t].total = 0 /\ answers[t].kind # "ok"
    BY <1>1, <2>1 DEF Own
  <2>5. cap # None => own_guard = [budget |-> Only(cap), counted |-> NewGuard] /\ NewGuard.spent = 0
    BY DEF own_guard, NewGuard
  <2>6. cap # None => task[t].total <= cap + MaxBill
    BY <1>5, <2>4, ServerBounds
  <2> QED
    BY <1>1, <1>3, <1>6, <2>1, <2>2, <2>3, <2>4, <2>5, <2>6, ServerBounds DEF Own
<1> QED
  BY <1>8, <1>9, <1>10 DEF ServerInv

(* A call goes on, and nothing but how far it is has changed. *)
LEMMA GoesOn ==
  ASSUME ServerInv, NEW t \in Requests, NEW now \in TaskType,
         task[t].pc \in {"running", "waiting", "extracting"},
         now.pc \in {"running", "waiting", "extracting"},
         now.tool = task[t].tool, now.cap = task[t].cap, now.calls = task[t].calls,
         now.total = task[t].total,
         turn \in {None, t}, turn' = IF now.pc = "waiting" THEN None ELSE t,
         task' = [task EXCEPT ![t] = now],
         UNCHANGED <<default_max_cost_usd, current, guards, llm_rows, answers>>
  PROVE  ServerInv'
<1>1. task'[t] = now /\ \A u \in Requests : u # t => task'[u] = task[u]
  BY DEF ServerInv, ServerTyped
<1>2. ServerTyped'
  BY DEF ServerInv, ServerTyped
<1>3. ASSUME NEW u \in Requests, u # t PROVE Own(u)'
  BY <1>1, <1>3, Elsewhere
<1>4. Own(t)'
  <2>1. Own(t)
    BY DEF ServerInv
  <2>2. CapOf(t)' = CapOf(t)
    BY <1>1 DEF CapOf
  <2>3. turn' = t <=> now.pc # "waiting"
    BY ServerBounds
  <2> QED
    BY <1>1, <2>1, <2>2, <2>3 DEF Own
<1> QED
  BY <1>2, <1>3, <1>4 DEF ServerInv

(* A task goes on, and what it has paid stays what it was. *)
LEMMA OnStep ==
  \A t \in Requests : ServerInv /\ (FileUnreadable(t) \/ Await(t) \/ Resume(t)) => ServerInv'
<1> SUFFICES ASSUME NEW t \in Requests, ServerInv, FileUnreadable(t) \/ Await(t) \/ Resume(t)
             PROVE  ServerInv'
  OBVIOUS
<1> DEFINE old == task[t]
<1>1. old \in TaskType
  BY DEF ServerInv, ServerTyped
<1>2. CASE FileUnreadable(t)
  <2> DEFINE now == [old EXCEPT !.unread = TRUE]
  <2>1. /\ turn = t /\ turn' = t /\ old.pc = "running"
        /\ task' = [task EXCEPT ![t] = now]
        /\ UNCHANGED <<default_max_cost_usd, current, guards, llm_rows, answers>>
    BY <1>2 DEF FileUnreadable, Running
  <2> HIDE DEF old
  <2>2. /\ now \in TaskType /\ now.pc = old.pc /\ now.tool = old.tool /\ now.cap = old.cap
        /\ now.calls = old.calls /\ now.total = old.total
    BY <1>1 DEF TaskType
  <2> HIDE DEF now
  <2> QED
    BY <2>1, <2>2, GoesOn DEF old
<1>3. CASE Await(t)
  <2> DEFINE now == [old EXCEPT !.pc = "waiting"]
  <2>1. /\ turn = t /\ turn' = None /\ old.pc = "running"
        /\ task' = [task EXCEPT ![t] = now]
        /\ UNCHANGED <<default_max_cost_usd, current, guards, llm_rows, answers>>
    BY <1>3 DEF Await, Running
  <2> HIDE DEF old
  <2>2. /\ now \in TaskType /\ now.pc = "waiting" /\ now.tool = old.tool /\ now.cap = old.cap
        /\ now.calls = old.calls /\ now.total = old.total
    BY <1>1 DEF TaskType, Stages
  <2> HIDE DEF now
  <2> QED
    BY <2>1, <2>2, GoesOn DEF old
<1>4. CASE Resume(t)
  <2> DEFINE now == [old EXCEPT !.pc = "extracting"]
  <2>1. /\ turn = None /\ turn' = t /\ old.pc = "waiting"
        /\ task' = [task EXCEPT ![t] = now]
        /\ UNCHANGED <<default_max_cost_usd, current, guards, llm_rows, answers>>
    BY <1>4 DEF Resume
  <2> HIDE DEF old
  <2>2. /\ now \in TaskType /\ now.pc = "extracting" /\ now.tool = old.tool /\ now.cap = old.cap
        /\ now.calls = old.calls /\ now.total = old.total
    BY <1>1 DEF TaskType, Stages
  <2> HIDE DEF now
  <2> QED
    BY <2>1, <2>2, GoesOn DEF old
<1> QED
  BY <1>2, <1>3, <1>4

(* Money is counted where the call is, and its guard admits no call that   *)
(* would start beyond the cap.                                             *)
LEMMA PayStep == \A t \in Requests, bill \in Bills : ServerInv /\ Pay(t, bill) => ServerInv'
<1> SUFFICES ASSUME NEW t \in Requests, NEW bill \in Bills, ServerInv, Pay(t, bill)
             PROVE  ServerInv'
  OBVIOUS
<1> DEFINE old == task[t]
           g == guards[t].counted
           b == guards[t].budget
<1>1. Own(t) /\ old.pc = "running" /\ turn = t
  BY DEF ServerInv, Pay, Running
<1>2. /\ old.calls \in Nat /\ old.calls < MaxCalls /\ old.total \in Nat
      /\ old.tool \in Tools \union {None} /\ old.cap \in Caps \union {None} /\ old.unread \in BOOLEAN
      /\ CapOf(t) \in Cap /\ (CapOf(t) # None => CapOf(t) \in Nat)
  <2>1. /\ old.calls \in 0 .. MaxCalls /\ old.total \in Nat
        /\ old.tool \in Tools \union {None} /\ old.cap \in Caps \union {None} /\ old.unread \in BOOLEAN
        /\ CapOf(t) \in Cap /\ (CapOf(t) # None => CapOf(t) \in Nat)
    BY TaskShape DEF ServerInv
  <2>2. old.calls < MaxCalls
    BY DEF Pay
  <2> QED
    BY <2>1, <2>2, ServerBounds
<1>3. bill \in BillType /\ bill.cost \in Nat /\ bill.cost <= MaxBill /\ MaxBill \in Nat /\ MaxCalls \in Nat
  BY ServerBounds
<1>4. current[t] = t /\ llm_rows[t] = old.total
  BY <1>1 DEF Own
<1>5. /\ llm_rows' = [llm_rows EXCEPT ![t] = old.total + bill.cost]
      /\ UNCHANGED <<default_max_cost_usd, turn, current, answers>>
      /\ Admits(t)
  BY <1>4 DEF Pay, ActiveRun
<1> DEFINE now == [old EXCEPT !.calls = @ + 1, !.total = @ + bill.cost]
<1>6. task' = [task EXCEPT ![t] = now]
  <2>1. task' = [task EXCEPT ![t] = [old EXCEPT !.calls = old.calls + 1, !.total = old.total + bill.cost]]
    BY DEF Pay
  <2> QED
    BY <2>1
<1>7. /\ now \in TaskType /\ now.pc = "running" /\ now.tool = old.tool /\ now.cap = old.cap
      /\ now.total = old.total + bill.cost
  <2>1. old \in TaskType
    BY DEF ServerInv, ServerTyped
  <2>2. old.calls + 1 \in 0 .. MaxCalls /\ old.total + bill.cost \in Nat
    BY <1>2, <1>3
  <2> HIDE DEF old
  <2> DEFINE c == old.calls + 1
             d == old.total + bill.cost
             one == [old EXCEPT !.calls = c]
  <2>3. now = [one EXCEPT !.total = d]
    BY <2>1 DEF TaskType
  <2> HIDE DEF c, d
  <2>4. one = [pc |-> old.pc, tool |-> old.tool, cap |-> old.cap, calls |-> c,
               total |-> old.total, unread |-> old.unread]
    BY <2>1 DEF TaskType
  <2> HIDE DEF one, now
  <2>5. now = [pc |-> old.pc, tool |-> old.tool, cap |-> old.cap, calls |-> c,
               total |-> d, unread |-> old.unread]
    BY <2>3, <2>4
  <2> QED
    BY <1>1, <1>2, <2>2, <2>5 DEF TaskType, Stages, c, d
<1> DEFINE h == IF guards[t] = None THEN None
                ELSE [budget |-> b, counted |-> Recorded(b, g, bill)]
<1>8. guards[t] # None => /\ guards[t] = [budget |-> b, counted |-> g]
                          /\ b \in BudgetType /\ g \in GuardType
                          /\ b = Only(CapOf(t)) /\ g.spent = old.total /\ CapOf(t) # None
                          /\ EnsureNotExceeded(b, g)
  <2> SUFFICES ASSUME guards[t] # None
               PROVE  /\ guards[t] = [budget |-> b, counted |-> g]
                      /\ b \in BudgetType /\ g \in GuardType
                      /\ b = Only(CapOf(t)) /\ g.spent = old.total /\ CapOf(t) # None
                      /\ EnsureNotExceeded(b, g)
    OBVIOUS
  <2>1. guards[t] \in InstalledType
    BY DEF ServerInv, ServerTyped
  <2>2. guards[t] = [budget |-> b, counted |-> g] /\ b \in BudgetType /\ g \in GuardType
    BY <2>1 DEF InstalledType
  <2>3. b = Only(CapOf(t)) /\ g.spent = old.total /\ CapOf(t) # None
    BY <1>1 DEF Own
  <2>4. EnsureNotExceeded(b, g)
    BY <1>5 DEF Admits
  <2> QED
    BY <2>2, <2>3, <2>4
<1>9. guards' = [guards EXCEPT ![t] = h]
  <2>1. CASE guards[t] = None
    <3>1. guards' = guards /\ h = None
      BY <2>1 DEF Pay
    <3>2. guards \in [Requests -> InstalledType \union {None}]
      BY DEF ServerInv, ServerTyped
    <3> QED
      BY <2>1, <3>1, <3>2
  <2>2. CASE guards[t] # None
    <3> DEFINE r == Recorded(b, g, bill)
               i == guards[t]
    <3>1. guards' = [guards EXCEPT ![t] = [i EXCEPT !.counted = r]]
      BY <2>2 DEF Pay
    <3>2. i = [budget |-> b, counted |-> g]
      BY <1>8, <2>2
    <3> HIDE DEF r, i
    <3>3. [i EXCEPT !.counted = r] = [budget |-> b, counted |-> r]
      BY <3>2
    <3> QED
      BY <2>2, <3>1, <3>3 DEF r
  <2> QED
    BY <2>1, <2>2
<1>10. guards[t] # None =>
         /\ h \in InstalledType /\ h # None
         /\ h.budget = Only(CapOf(t)) /\ h.counted.spent = old.total + bill.cost
         /\ old.total <= CapOf(t)
  <2> SUFFICES ASSUME guards[t] # None
               PROVE  /\ h \in InstalledType /\ h # None
                      /\ h.budget = Only(CapOf(t)) /\ h.counted.spent = old.total + bill.cost
                      /\ old.total <= CapOf(t)
    OBVIOUS
  <2>1. Recorded(b, g, bill) \in GuardType /\ Recorded(b, g, bill).spent = g.spent + bill.cost
    BY <1>3, <1>8, RecordedCounts
  <2>2. h = [budget |-> b, counted |-> Recorded(b, g, bill)]
    OBVIOUS
  <2>3. b.max_cost_usd = CapOf(t)
    BY <1>8 DEF Only
  <2>4. old.total <= CapOf(t)
    BY <1>8, <2>3 DEF EnsureNotExceeded
  <2> HIDE DEF h
  <2>5. h \in InstalledType
    BY <1>8, <2>1, <2>2 DEF InstalledType
  <2>6. h.budget = b /\ h.counted = Recorded(b, g, bill)
    BY <2>2
  <2>7. h # None
    BY <2>5, ServerBounds
  <2>8. h.counted.spent = old.total + bill.cost
    BY <1>8, <2>1, <2>6
  <2> QED
    BY <1>8, <2>4, <2>5, <2>6, <2>7, <2>8
<1>11. h = None <=> guards[t] = None
  BY <1>10
<1> HIDE DEF now, h
<1>12. /\ task'[t] = now /\ guards'[t] = h /\ llm_rows'[t] = old.total + bill.cost
       /\ \A u \in Requests : u # t =>
            task'[u] = task[u] /\ guards'[u] = guards[u] /\ llm_rows'[u] = llm_rows[u]
  BY <1>5, <1>6, <1>9 DEF ServerInv, ServerTyped
<1>13. ServerTyped'
  <2>1. task' \in [Requests -> TaskType]
    BY <1>6, <1>7 DEF ServerInv, ServerTyped
  <2>2. h \in InstalledType \union {None}
    BY <1>10, <1>11
  <2>3. guards' \in [Requests -> InstalledType \union {None}]
    BY <1>9, <2>2 DEF ServerInv, ServerTyped
  <2>4. old.total + bill.cost \in Nat
    BY <1>2, <1>3
  <2>5. llm_rows' \in [Requests -> Nat \union {None}]
    BY <1>5, <2>4 DEF ServerInv, ServerTyped
  <2> QED
    BY <1>5, <2>1, <2>3, <2>5 DEF ServerInv, ServerTyped
<1>14. ASSUME NEW u \in Requests, u # t PROVE Own(u)'
  BY <1>1, <1>5, <1>12, <1>14, Elsewhere
<1>15. Own(t)'
  <2>1. CapOf(t)' = CapOf(t)
    BY <1>5, <1>7, <1>12 DEF CapOf
  <2>2. (guards[t] # None) <=> CapOf(t) # None
    BY <1>1 DEF Own
  <2>3. CapOf(t) # None => old.total + bill.cost <= CapOf(t) + MaxBill
    BY <1>2, <1>3, <1>10, <2>2
  <2>4. old.total + bill.cost # None
    BY <1>2, <1>3, ServerBounds
  <2>5. answers[t].kind = "none"
    BY <1>1 DEF Own
  <2> QED
    BY <1>1, <1>4, <1>5, <1>7, <1>10, <1>11, <1>12, <2>1, <2>2, <2>3, <2>4, <2>5 DEF Own
<1> QED
  BY <1>13, <1>14, <1>15 DEF ServerInv

(* Every answer is one of Reply's. *)
LEMMA AnswersStep ==
  \A t \in Requests :
    ServerInv /\ (\/ ToolRefused(t) \/ Complete(t) \/ ToolCostReport(t)
                  \/ \E kind \in {"error", "raised"} : Breaks(t, kind)) => ServerInv'
<1> SUFFICES ASSUME NEW t \in Requests, ServerInv,
                    \/ ToolRefused(t) \/ Complete(t) \/ ToolCostReport(t)
                    \/ \E kind \in {"error", "raised"} : Breaks(t, kind)
             PROVE  ServerInv'
  OBVIOUS
<1>1. turn = t /\ UNCHANGED <<default_max_cost_usd, llm_rows>>
  BY DEF ToolRefused, Complete, ToolCostReport, Breaks
<1>2. CASE ToolRefused(t) \/ \E kind \in {"error", "raised"} : Breaks(t, kind)
  <2>1. PICK kind \in {"error", "raised"} : Reply(t, kind, 0)
    BY <1>2 DEF ToolRefused, Breaks
  <2> QED
    BY <1>1, <2>1, ReplyStep
<1>3. CASE Complete(t)
  <2>1. Reply(t, "ok", task[t].total)
    BY <1>3 DEF Complete
  <2>2. task[t].pc \in {"running", "waiting", "extracting"}
    BY <1>3 DEF Complete, Running
  <2>3. task[t].total = llm_rows[t]
    BY <2>2 DEF ServerInv, Own
  <2> QED
    BY <1>1, <2>1, <2>3, ReplyStep
<1>4. CASE ToolCostReport(t)
  <2>1. task[t].tool = "cost_report"
    BY <1>4 DEF ToolCostReport
  <2>2. \E kind \in {"ok", "error", "raised"} : \E total : Reply(t, kind, total)
    BY <1>4 DEF ToolCostReport
  <2>3. PICK kind \in {"ok", "error", "raised"} : \E total : Reply(t, kind, total)
    BY <2>2
  <2>4. PICK total : Reply(t, kind, total)
    BY <2>3
  <2> QED
    BY <1>1, <2>1, <2>4, ReplyStep
<1> QED
  BY <1>2, <1>3, <1>4

(* It stays when nothing moves. *)
LEMMA ServerStutters == ServerInv /\ UNCHANGED server_vars => ServerInv'
<1> SUFFICES ASSUME ServerInv, UNCHANGED server_vars PROVE ServerInv'
  OBVIOUS
<1>1. UNCHANGED <<default_max_cost_usd, turn, task, current, guards, llm_rows, answers>>
  BY DEF server_vars
<1>2. ServerTyped'
  BY <1>1 DEF ServerInv, ServerTyped
<1>3. ASSUME NEW t \in Requests PROVE Own(t)'
  <2>1. CapOf(t)' = CapOf(t)
    BY <1>1 DEF CapOf
  <2> QED
    BY <1>1, <2>1 DEF ServerInv, Own
<1> QED
  BY <1>2, <1>3 DEF ServerInv

(* Every step keeps it. *)
LEMMA ServerSteps == ServerInv /\ [ServerNext]_server_vars => ServerInv'
BY ReceiveStep, StartsStep, OnStep, PayStep, AnswersStep, ServerStutters DEF ServerNext, Task

-----------------------------------------------------------------------------
(* It gives the types, *)
LEMMA ServerTypes == ServerInv => ServerTypeOK
<1> SUFFICES ASSUME ServerInv PROVE ServerTypeOK
  OBVIOUS
<1>1. ASSUME NEW t \in Requests
      PROVE  /\ task[t].pc \in Stages /\ task[t].calls \in 0 .. MaxCalls
             /\ (turn = t) <=> (task[t].pc \in {"starting", "running", "extracting"})
             /\ (current[t] = t) <=> (task[t].pc \in {"running", "waiting", "extracting"})
             /\ guards[t] # None => current[t] = t
             /\ (answers[t].kind = "none") <=> (task[t].pc # "done")
  <2>1. Own(t) /\ ServerTyped
    BY DEF ServerInv
  <2>2. task[t].pc \in Stages /\ task[t].calls \in 0 .. MaxCalls
    BY <2>1, TaskShape
  <2> QED
    BY <2>1, <2>2, ServerBounds DEF Own
<1>2. turn \in Requests \union {None}
  BY DEF ServerInv, ServerTyped
<1> QED
  BY <1>1, <1>2 DEF ServerTypeOK, Stages

(* the cap of a call, *)
LEMMA ServerCaps == ServerInv => CapHoldsPerCall
BY DEF ServerInv, Own, CapOf, CapHoldsPerCall

(* and that the totals are its own. *)
LEMMA ServerTotals == ServerInv => TotalsAreOwn
BY DEF ServerInv, Own, TotalsAreOwn

(* What a cost report is to find: only a request with a run has paid, and  *)
(* one that asks for a report has none.                                    *)
PaidInRuns ==
  \A t \in Requests :
    /\ llm_rows[t] = None => task[t].total = 0
    /\ task[t].tool = "cost_report" => task[t].pc \in {"idle", "starting", "done"}

(* No request has paid at the start. *)
LEMMA RunsStart == ServerInit => PaidInRuns
BY DEF ServerInit, PaidInRuns, NewTask

(* A step changes one task, and pays only in a run. *)
LEMMA RunsStep == ServerInv /\ PaidInRuns /\ [ServerNext]_server_vars => PaidInRuns'
<1> SUFFICES ASSUME ServerInv, PaidInRuns, [ServerNext]_server_vars PROVE PaidInRuns'
  OBVIOUS
<1>1. ServerTyped
  BY DEF ServerInv
<1>2. /\ task \in [Requests -> TaskType] /\ llm_rows \in [Requests -> Nat \union {None}]
      /\ DOMAIN task = Requests /\ DOMAIN llm_rows = Requests
  BY <1>1 DEF ServerTyped
<1>3. \A t \in Requests : /\ DOMAIN task[t] = {"pc", "tool", "cap", "calls", "total", "unread"}
                          /\ task[t].total \in Nat
  <2> TAKE t \in Requests
  <2>1. task[t] \in TaskType
    BY <1>2
  <2> QED
    BY <2>1 DEF TaskType
<1>4. CASE UNCHANGED server_vars
  BY <1>4 DEF server_vars, PaidInRuns
<1>5. ASSUME NEW t \in Requests, NEW tool \in Tools, NEW cap \in Caps, Receive(t, tool, cap)
      PROVE  PaidInRuns'
  <2>1. /\ task' = [task EXCEPT ![t].pc = "starting", ![t].tool = tool, ![t].cap = cap]
        /\ UNCHANGED llm_rows
    BY <1>5 DEF Receive
  <2>2. \A u \in Requests :
          /\ task'[u].total = task[u].total
          /\ \/ task'[u].pc = "starting"
             \/ task'[u].tool = task[u].tool /\ task'[u].pc = task[u].pc
    BY <1>2, <1>3, <2>1
  <2> QED
    BY <2>1, <2>2 DEF PaidInRuns
<1>6. ASSUME NEW t \in Requests, task[t].tool # "cost_report",
             \A u \in Requests :
               /\ task'[u].total = task[u].total /\ task'[u].tool = task[u].tool
               /\ u # t => task'[u].pc = task[u].pc /\ llm_rows'[u] = llm_rows[u],
             llm_rows'[t] = llm_rows[t] \/ task[t].total = 0
      PROVE  PaidInRuns'
  BY <1>6 DEF PaidInRuns
<1>7. ASSUME NEW t \in Requests,
             \/ ToolRefused(t) \/ Complete(t) \/ ToolCostReport(t)
             \/ \E kind \in {"error", "raised"} : Breaks(t, kind)
      PROVE  PaidInRuns'
  <2>1. task' = [task EXCEPT ![t].pc = "done"] /\ UNCHANGED llm_rows
    BY <1>7 DEF ToolRefused, Complete, ToolCostReport, Breaks, Reply, Leave
  <2>2. \A u \in Requests : /\ task'[u].total = task[u].total /\ task'[u].tool = task[u].tool
                            /\ task'[u].pc \in {task[u].pc, "done"}
    BY <1>2, <1>3, <2>1
  <2> QED
    BY <2>1, <2>2 DEF PaidInRuns
<1>8. ASSUME NEW t \in Requests, ToolStarts(t)
      PROVE  PaidInRuns'
  <2>1. task[t].pc = "starting" /\ task[t].tool # "cost_report"
    BY <1>8 DEF ToolStarts
  <2>2. task[t].total = 0
    BY <2>1 DEF ServerInv, Own
  <2>3. task' = [task EXCEPT ![t].pc = "running"] /\ llm_rows' = [llm_rows EXCEPT ![t] = 0]
    BY <1>8 DEF ToolStarts
  <2>4. \A u \in Requests :
          /\ task'[u].total = task[u].total /\ task'[u].tool = task[u].tool
          /\ u # t => task'[u].pc = task[u].pc /\ llm_rows'[u] = llm_rows[u]
    BY <1>2, <1>3, <2>3
  <2> QED
    BY <1>6, <2>1, <2>2, <2>4
<1>9. ASSUME NEW t \in Requests, FileUnreadable(t) \/ Await(t) \/ Resume(t)
      PROVE  PaidInRuns'
  <2>1. task[t].pc \in {"running", "waiting"}
    BY <1>9 DEF FileUnreadable, Await, Resume, Running
  <2>2. task[t].tool # "cost_report"
    BY <2>1 DEF PaidInRuns
  <2>3. /\ \/ task' = [task EXCEPT ![t].unread = TRUE] \/ task' = [task EXCEPT ![t].pc = "waiting"]
           \/ task' = [task EXCEPT ![t].pc = "extracting"]
        /\ UNCHANGED llm_rows
    BY <1>9 DEF FileUnreadable, Await, Resume
  <2>4. \A u \in Requests :
          /\ task'[u].total = task[u].total /\ task'[u].tool = task[u].tool
          /\ u # t => task'[u].pc = task[u].pc
    BY <1>2, <1>3, <2>3
  <2> QED
    BY <1>6, <2>2, <2>3, <2>4
<1>10. ASSUME NEW t \in Requests, NEW bill \in Bills, Pay(t, bill)
       PROVE  PaidInRuns'
  <2>1. task[t].pc = "running" /\ task[t].tool # "cost_report"
    BY <1>10 DEF Pay, Running, PaidInRuns
  <2>2. current[t] = t /\ llm_rows[t] # None
    BY <2>1 DEF ServerInv, Own
  <2>3. /\ task' = [task EXCEPT ![t].calls = @ + 1, ![t].total = @ + bill.cost]
        /\ llm_rows' = [llm_rows EXCEPT ![t] = @ + bill.cost]
    BY <1>10, <2>2 DEF Pay, ActiveRun
  <2>4. llm_rows'[t] \in Nat
    <3>1. llm_rows[t] \in Nat /\ bill.cost \in Nat
      BY <1>2, <2>2, ServerBounds
    <3>2. llm_rows[t] + bill.cost \in Nat
      BY <3>1
    <3> QED
      BY <1>2, <2>3, <3>2
  <2>5. \A u \in Requests : /\ task'[u].tool = task[u].tool /\ task'[u].pc = task[u].pc
                            /\ u # t => task'[u].total = task[u].total /\ llm_rows'[u] = llm_rows[u]
    BY <1>2, <1>3, <2>3
  <2> QED
    BY <2>4, <2>5, ServerBounds DEF PaidInRuns
<1> QED
  BY <1>4, <1>5, <1>7, <1>8, <1>9, <1>10 DEF ServerNext, Task

(* What a report adds up is what all requests paid. *)
LEMMA AllIsReported ==
  ASSUME ServerInv, PaidInRuns
  PROVE  /\ SumFunctionOnSet(llm_rows, Reportable) = SumFunction([r \in Requests |-> task[r].total])
         /\ Reportable = {} => SumFunction([r \in Requests |-> task[r].total]) = 0
<1> DEFINE all == [r \in Requests |-> task[r].total]
<1>1. SumFunction(all) = SumFunctionOnSet(all, Requests)
  BY DEF SumFunction
<1>2. IsFiniteSet(Requests)
  BY McpServerAssumption
<1>3. Reportable \in SUBSET Requests
  BY DEF Reportable
<1>4. \A t \in Requests : all[t] \in Nat
  BY TaskShape DEF ServerInv
<1>5. \A t \in Reportable : llm_rows[t] = all[t]
  BY DEF ServerInv, Own, Reportable
<1>6. \A t \in Requests \ Reportable : all[t] = 0
  BY DEF PaidInRuns, Reportable
<1> HIDE DEF all
<1>7. SumFunctionOnSet(llm_rows, Reportable) = SumFunctionOnSet(all, Requests)
  BY <1>2, <1>3, <1>4, <1>5, <1>6, ZerosLeftOut
<1>8. Reportable = {} => SumFunctionOnSet(llm_rows, Reportable) = 0
  <2> SUFFICES ASSUME Reportable = {} PROVE SumFunctionOnSet(llm_rows, {}) = 0
    OBVIOUS
  <2>1. PICK f : Sums(f, llm_rows, {}) /\ SumFunctionOnSet(llm_rows, {}) = f[{}]
    BY FS_EmptySet, FoldIsSum
  <2> QED
    BY <2>1 DEF Sums
<1> QED
  BY <1>1, <1>7, <1>8 DEF all

(* Only ToolCostReport answers a request for a report. *)
LEMMA ReportStep ==
  ASSUME ServerInv, PaidInRuns, [ServerNext]_server_vars, NEW t \in Requests,
         task[t].tool = "cost_report", answers'[t] # answers[t]
  PROVE  ToolCostReport(t)
<1>1. answers = [u \in Requests |-> answers[u]]
  BY DEF ServerInv, ServerTyped
<1>2. PICK u \in Requests : \/ \E tool \in Tools, cap \in Caps : Receive(u, tool, cap)
                            \/ Task(u)
  BY DEF ServerNext, server_vars
<1>3. /\ \A tool \in Tools, cap \in Caps : ~Receive(u, tool, cap)
      /\ ~ToolStarts(u) /\ ~FileUnreadable(u) /\ ~Await(u) /\ ~Resume(u)
      /\ \A bill \in Bills : ~Pay(u, bill)
  <2>1. answers' # answers
    OBVIOUS
  <2>2. \A tool \in Tools, cap \in Caps : ~Receive(u, tool, cap)
    BY <2>1 DEF Receive
  <2>3. ~ToolStarts(u)
    BY <2>1 DEF ToolStarts
  <2>4. ~FileUnreadable(u) /\ ~Await(u) /\ ~Resume(u)
    BY <2>1 DEF FileUnreadable, Await, Resume
  <2>5. \A bill \in Bills : ~Pay(u, bill)
    BY <2>1 DEF Pay
  <2> QED
    BY <2>2, <2>3, <2>4, <2>5
<1>4. \/ ToolRefused(u) \/ Complete(u) \/ ToolCostReport(u)
      \/ \E kind \in {"error", "raised"} : Breaks(u, kind)
  BY <1>2, <1>3 DEF Task
<1>5. PICK reply : answers' = [answers EXCEPT ![u] = reply]
  BY <1>4 DEF ToolRefused, Complete, ToolCostReport, Breaks, Reply
<1>6. u = t
  BY <1>1, <1>5
<1>7. task[t].pc \in {"idle", "starting", "done"}
  BY DEF PaidInRuns
<1> QED
  BY <1>4, <1>6, <1>7 DEF ToolRefused, Complete, Breaks, Running

(* So the answer has it. *)
LEMMA ServerReports ==
  ASSUME ServerInv, PaidInRuns, [ServerNext]_server_vars, NEW t \in Requests,
         task[t].tool = "cost_report", answers'[t] # answers[t]
  PROVE  LET spent == SumFunction([r \in Requests |-> task[r].total]) IN
         \/ answers'[t].kind = "ok" /\ answers'[t].total = spent
         \/ answers'[t].kind # "ok" /\ spent = 0
<1> DEFINE spent == SumFunction([r \in Requests |-> task[r].total])
           found == SumFunctionOnSet(llm_rows, Reportable)
<1> SUFFICES \/ answers'[t].kind = "ok" /\ answers'[t].total = spent
             \/ answers'[t].kind # "ok" /\ spent = 0
  OBVIOUS
<1>1. ToolCostReport(t)
  BY ReportStep
<1>2. found = spent /\ (Reportable = {} => spent = 0)
  BY AllIsReported
<1>3. /\ Reportable # {} => Reply(t, "ok", found)
      /\ Reportable = {} => \E kind \in {"error", "raised"} : Reply(t, kind, 0)
  BY <1>1 DEF ToolCostReport
<1> HIDE DEF spent, found
<1>4. \A kind, total : Reply(t, kind, total) => answers'[t].kind = kind /\ answers'[t].total = total
  BY DEF ServerInv, ServerTyped, Reply
<1>5. CASE Reportable # {}
  BY <1>2, <1>3, <1>4, <1>5
<1>6. CASE Reportable = {}
  BY <1>2, <1>3, <1>4, <1>6
<1> QED
  BY <1>5, <1>6

-----------------------------------------------------------------------------
(* Rows, and what they add up to. *)

(* What rows add up to. *)
AggType == [usd : Nat, tokens : [TokenKinds -> Nat], calls : Nat]

(* A sum, field by field. *)
LEMMA AggShape ==
  ASSUME NEW a \in AggType
  PROVE  /\ a.usd \in Nat /\ a.calls \in Nat /\ a.tokens \in [TokenKinds -> Nat]
         /\ \A k \in TokenKinds : a.tokens[k] \in Nat
  BY DEF AggType

(* Two sums are one when their fields are. *)
LEMMA AggEqual ==
  ASSUME NEW a \in AggType, NEW b \in AggType, a.usd = b.usd, a.calls = b.calls,
         \A k \in TokenKinds : a.tokens[k] = b.tokens[k]
  PROVE  a = b
<1>1. a.tokens = b.tokens
  BY AggShape
<1> QED
  BY <1>1 DEF AggType

(* No row adds up to nothing. *)
LEMMA NothingCounted == NewAgg \in AggType
BY DEF NewAgg, NoTokens, AggType

(* One row more, field by field. *)
LEMMA AccumulateIs ==
  ASSUME NEW a \in AggType, NEW row \in RowType
  PROVE  /\ Accumulate(a, row) \in AggType
         /\ Accumulate(a, row).usd = a.usd + row.cost
         /\ Accumulate(a, row).calls = a.calls + 1
         /\ \A k \in TokenKinds : Accumulate(a, row).tokens[k] = a.tokens[k] + row.usage[k]
         /\ row.cost \in Nat /\ \A k \in TokenKinds : row.usage[k] \in Nat
<1>1. row.cost \in Nat /\ row.usage \in [TokenKinds -> Nat]
  BY DEF RowType
<1>2. a.usd \in Nat /\ a.calls \in Nat /\ \A k \in TokenKinds : a.tokens[k] \in Nat
  BY AggShape
<1>3. a.usd + row.cost \in Nat /\ a.calls + 1 \in Nat
  BY <1>1, <1>2
<1> DEFINE sum == PlusTokens(a.tokens, row.usage)
<1>4. sum \in [TokenKinds -> Nat] /\ \A k \in TokenKinds : sum[k] = a.tokens[k] + row.usage[k]
  BY <1>1, <1>2 DEF PlusTokens
<1>5. Accumulate(a, row) = [usd |-> a.usd + row.cost, tokens |-> sum, calls |-> a.calls + 1]
  BY DEF Accumulate
<1> HIDE DEF sum
<1> QED
  BY <1>1, <1>3, <1>4, <1>5 DEF AggType

(* Two sums together, field by field. *)
LEMMA MergeIs ==
  ASSUME NEW a \in AggType, NEW b \in AggType
  PROVE  /\ MergeTotal(b, a) \in AggType
         /\ MergeTotal(b, a).usd = a.usd + b.usd
         /\ MergeTotal(b, a).calls = a.calls + b.calls
         /\ \A k \in TokenKinds : MergeTotal(b, a).tokens[k] = a.tokens[k] + b.tokens[k]
<1>1. /\ a.usd \in Nat /\ a.calls \in Nat /\ \A k \in TokenKinds : a.tokens[k] \in Nat
      /\ b.usd \in Nat /\ b.calls \in Nat /\ \A k \in TokenKinds : b.tokens[k] \in Nat
  BY AggShape
<1>2. a.usd + b.usd \in Nat /\ a.calls + b.calls \in Nat
  BY <1>1
<1> DEFINE sum == PlusTokens(a.tokens, b.tokens)
<1>3. sum \in [TokenKinds -> Nat] /\ \A k \in TokenKinds : sum[k] = a.tokens[k] + b.tokens[k]
  BY <1>1 DEF PlusTokens
<1>4. MergeTotal(b, a) = [usd |-> a.usd + b.usd, tokens |-> sum, calls |-> a.calls + b.calls]
  BY DEF MergeTotal
<1> HIDE DEF sum
<1> QED
  BY <1>2, <1>3, <1>4 DEF AggType

(* A row may be added to either part of a sum. *)
LEMMA MergeMoves ==
  ASSUME NEW a \in AggType, NEW b \in AggType, NEW row \in RowType
  PROVE  /\ Accumulate(MergeTotal(b, a), row) = MergeTotal(b, Accumulate(a, row))
         /\ Accumulate(MergeTotal(b, a), row) = MergeTotal(Accumulate(b, row), a)
<1> DEFINE l == Accumulate(MergeTotal(b, a), row)
           m == MergeTotal(b, Accumulate(a, row))
           r == MergeTotal(Accumulate(b, row), a)
<1>1. /\ a.usd \in Nat /\ a.calls \in Nat /\ \A k \in TokenKinds : a.tokens[k] \in Nat
      /\ b.usd \in Nat /\ b.calls \in Nat /\ \A k \in TokenKinds : b.tokens[k] \in Nat
      /\ row.cost \in Nat /\ \A k \in TokenKinds : row.usage[k] \in Nat
  BY AggShape, AccumulateIs
<1>2. /\ l \in AggType /\ l.usd = a.usd + b.usd + row.cost /\ l.calls = a.calls + b.calls + 1
      /\ \A k \in TokenKinds : l.tokens[k] = a.tokens[k] + b.tokens[k] + row.usage[k]
  BY AccumulateIs, MergeIs
<1>3. /\ m \in AggType /\ m.usd = a.usd + row.cost + b.usd /\ m.calls = a.calls + 1 + b.calls
      /\ \A k \in TokenKinds : m.tokens[k] = a.tokens[k] + row.usage[k] + b.tokens[k]
  BY AccumulateIs, MergeIs
<1>4. /\ r \in AggType /\ r.usd = a.usd + (b.usd + row.cost) /\ r.calls = a.calls + (b.calls + 1)
      /\ \A k \in TokenKinds : r.tokens[k] = a.tokens[k] + (b.tokens[k] + row.usage[k])
  BY AccumulateIs, MergeIs
<1> HIDE DEF l, m, r
<1>5. l.usd = m.usd /\ l.calls = m.calls /\ \A k \in TokenKinds : l.tokens[k] = m.tokens[k]
  BY <1>1, <1>2, <1>3
<1>6. l.usd = r.usd /\ l.calls = r.calls /\ \A k \in TokenKinds : l.tokens[k] = r.tokens[k]
  <2>1. \A x, y, z \in Nat : x + y + z = x + (y + z)
    OBVIOUS
  <2>2. l.usd = r.usd
    BY <1>1, <1>2, <1>4, <2>1
  <2>3. l.calls = r.calls
    BY <1>1, <1>2, <1>4, <2>1
  <2>4. ASSUME NEW k \in TokenKinds PROVE l.tokens[k] = r.tokens[k]
    <3>1. /\ l.tokens[k] = a.tokens[k] + b.tokens[k] + row.usage[k]
          /\ r.tokens[k] = a.tokens[k] + (b.tokens[k] + row.usage[k])
      BY <1>2, <1>4
    <3> QED
      BY <1>1, <2>1, <3>1
  <2> QED
    BY <2>2, <2>3, <2>4
<1>7. l = m /\ l = r
  BY <1>2, <1>3, <1>4, <1>5, <1>6, AggEqual
<1> QED
  BY <1>7 DEF l, m, r

(* Nothing adds nothing. *)
LEMMA MergeNothing ==
  ASSUME NEW a \in AggType
  PROVE  MergeTotal(NewAgg, a) = a
<1>1. /\ NewAgg.usd = 0 /\ NewAgg.calls = 0 /\ \A k \in TokenKinds : NewAgg.tokens[k] = 0
  BY DEF NewAgg, NoTokens
<1>2. /\ a.usd \in Nat /\ a.calls \in Nat /\ \A k \in TokenKinds : a.tokens[k] \in Nat
  BY AggShape
<1> DEFINE m == MergeTotal(NewAgg, a)
<1>3. /\ m \in AggType /\ m.usd = a.usd + NewAgg.usd /\ m.calls = a.calls + NewAgg.calls
      /\ \A k \in TokenKinds : m.tokens[k] = a.tokens[k] + NewAgg.tokens[k]
  BY NothingCounted, MergeIs
<1> HIDE DEF m
<1>4. m.usd = a.usd /\ m.calls = a.calls /\ \A k \in TokenKinds : m.tokens[k] = a.tokens[k]
  BY <1>1, <1>2, <1>3
<1>5. m = a
  BY <1>3, <1>4, AggEqual
<1> QED
  BY <1>5 DEF m

(* Sums keep their order. *)
LEMMA MergeAtMost ==
  ASSUME NEW a \in AggType, NEW b \in AggType, NEW c \in AggType, NEW d \in AggType,
         AtMost(a, c), AtMost(b, d)
  PROVE  AtMost(MergeTotal(b, a), MergeTotal(d, c))
<1>1. /\ a.usd \in Nat /\ a.calls \in Nat /\ \A k \in TokenKinds : a.tokens[k] \in Nat
      /\ b.usd \in Nat /\ b.calls \in Nat /\ \A k \in TokenKinds : b.tokens[k] \in Nat
      /\ c.usd \in Nat /\ c.calls \in Nat /\ \A k \in TokenKinds : c.tokens[k] \in Nat
      /\ d.usd \in Nat /\ d.calls \in Nat /\ \A k \in TokenKinds : d.tokens[k] \in Nat
  BY AggShape
<1> DEFINE l == MergeTotal(b, a)
           r == MergeTotal(d, c)
<1>2. /\ l.usd = a.usd + b.usd /\ l.calls = a.calls + b.calls
      /\ \A k \in TokenKinds : l.tokens[k] = a.tokens[k] + b.tokens[k]
      /\ r.usd = c.usd + d.usd /\ r.calls = c.calls + d.calls
      /\ \A k \in TokenKinds : r.tokens[k] = c.tokens[k] + d.tokens[k]
  BY MergeIs
<1> HIDE DEF l, r
<1>3. l.usd <= r.usd /\ l.calls <= r.calls
  BY <1>1, <1>2 DEF AtMost
<1>4. ASSUME NEW k \in TokenKinds PROVE l.tokens[k] <= r.tokens[k]
  <2>1. a.tokens[k] <= c.tokens[k] /\ b.tokens[k] <= d.tokens[k]
    BY DEF AtMost
  <2> QED
    BY <1>1, <1>2, <2>1
<1>5. AtMost(l, r)
  BY <1>3, <1>4 DEF AtMost
<1> QED
  BY <1>5 DEF l, r

(* More makes no less. *)
LEMMA MoreAtMost ==
  ASSUME NEW a \in AggType, NEW b \in AggType
  PROVE  AtMost(a, MergeTotal(b, a)) /\ AtMost(a, a)
<1>1. /\ a.usd \in Nat /\ a.calls \in Nat /\ \A k \in TokenKinds : a.tokens[k] \in Nat
      /\ b.usd \in Nat /\ b.calls \in Nat /\ \A k \in TokenKinds : b.tokens[k] \in Nat
  BY AggShape
<1> DEFINE l == MergeTotal(b, a)
<1>2. /\ l.usd = a.usd + b.usd /\ l.calls = a.calls + b.calls
      /\ \A k \in TokenKinds : l.tokens[k] = a.tokens[k] + b.tokens[k]
  BY MergeIs
<1> HIDE DEF l
<1>3. AtMost(a, l) /\ AtMost(a, a)
  BY <1>1, <1>2 DEF AtMost
<1> QED
  BY <1>3 DEF l

-----------------------------------------------------------------------------
(* f[n] is what the rows in which among the first n add up to. *)
Aggs(f, file, which) ==
  /\ f \in [0 .. Len(file) -> AggType]
  /\ f[0] = NewAgg
  /\ \A n \in 1 .. Len(file) :
       f[n] = IF n \in which THEN Accumulate(f[n - 1], file[n]) ELSE f[n - 1]

(* AggregateOf adds up its rows one by one. *)
LEMMA AggsExist ==
  ASSUME NEW file \in Seq(RowType), NEW which
  PROVE  \E f : Aggs(f, file, which) /\ AggregateOf(file, which) = f[Len(file)]
<1> DEFINE N == Len(file)
           step == [n \in 1 .. N |-> [a \in AggType |->
                     IF n \in which THEN Accumulate(a, file[n]) ELSE a]]
           Is(f) == f = [n \in 0 .. N |->
                     IF n = 0 THEN NewAgg
                     ELSE IF n \in which THEN Accumulate(f[n - 1], file[n]) ELSE f[n - 1]]
<1>1. N \in Nat
  OBVIOUS
<1>2. \A n \in 1 .. N : file[n] \in RowType
  OBVIOUS
<1>3. AggregateOf(file, which) = (CHOOSE f : Is(f))[N]
  BY DEF AggregateOf
<1> HIDE DEF N
<1>4. step \in [1 .. N -> [AggType -> AggType]]
  BY <1>2, AccumulateIs
<1>5. \A n \in 1 .. N : \A a \in AggType :
        step[n][a] = IF n \in which THEN Accumulate(a, file[n]) ELSE a
  OBVIOUS
<1> HIDE DEF step
<1>6. PICK f : Recurs(f, AggType, NewAgg, N, step)
  BY <1>1, <1>4, NothingCounted, Recursion
<1>7. \A n \in 1 .. N : n - 1 \in 0 .. N /\ n \in 0 .. N /\ n # 0
  BY <1>1
<1>8. /\ f \in [0 .. N -> AggType] /\ f[0] = NewAgg
      /\ \A n \in 1 .. N : f[n] = IF n \in which THEN Accumulate(f[n - 1], file[n]) ELSE f[n - 1]
  BY <1>5, <1>6, <1>7 DEF Recurs
<1>9. Is(f)
  BY <1>1, <1>8
<1> DEFINE g == CHOOSE f2 : Is(f2)
<1>10. Is(g)
  BY <1>9
<1> HIDE DEF g
<1>11. /\ DOMAIN g = 0 .. N /\ g[0] = NewAgg
       /\ \A n \in 1 .. N : g[n] = IF n \in which THEN Accumulate(g[n - 1], file[n]) ELSE g[n - 1]
  BY <1>1, <1>7, <1>10
<1> DEFINE S == {n \in 0 .. N : g[n] \in AggType}
<1>12. ASSUME NEW n \in 1 .. N, n - 1 \in S PROVE n \in S
  <2>1. g[n - 1] \in AggType
    BY <1>12
  <2>2. g[n] \in AggType
    BY <1>2, <1>11, <2>1, AccumulateIs
  <2> QED
    BY <1>7, <2>2
<1>13. 0 \in S
  BY <1>1, <1>11, NothingCounted
<1> HIDE DEF S
<1>14. 0 .. N \subseteq S
  BY <1>1, <1>12, <1>13, Climb
<1>15. g \in [0 .. N -> AggType]
  BY <1>10, <1>14 DEF S
<1> QED
  BY <1>3, <1>11, <1>15 DEF Aggs, g, N

(* Hence what it returns is a sum. *)
LEMMA AggregateTyped ==
  ASSUME NEW file \in Seq(RowType), NEW which
  PROVE  AggregateOf(file, which) \in AggType
<1>1. Len(file) \in 0 .. Len(file)
  OBVIOUS
<1> QED
  BY <1>1, AggsExist DEF Aggs

(* Rows in two sets that share none add up to the sum of the two. *)
LEMMA AggregateUnion ==
  ASSUME NEW file \in Seq(RowType), NEW A, NEW B, A \intersect B = {}
  PROVE  AggregateOf(file, A \union B) = MergeTotal(AggregateOf(file, B), AggregateOf(file, A))
<1> DEFINE N == Len(file)
<1>1. N \in Nat /\ \A n \in 1 .. N : file[n] \in RowType
  OBVIOUS
<1>2. PICK f : Aggs(f, file, A) /\ AggregateOf(file, A) = f[N]
  BY AggsExist
<1>3. PICK g : Aggs(g, file, B) /\ AggregateOf(file, B) = g[N]
  BY AggsExist
<1>4. PICK h : Aggs(h, file, A \union B) /\ AggregateOf(file, A \union B) = h[N]
  BY AggsExist
<1> DEFINE S == {n \in 0 .. N : h[n] = MergeTotal(g[n], f[n])}
<1>5. 0 \in S
  BY <1>1, <1>2, <1>3, <1>4, NothingCounted, MergeNothing DEF Aggs
<1>6. ASSUME NEW n \in 1 .. N, n - 1 \in S PROVE n \in S
  <2>1. n - 1 \in 0 .. N /\ n \in 0 .. N
    BY <1>1
  <2>2. f[n - 1] \in AggType /\ g[n - 1] \in AggType /\ file[n] \in RowType
    BY <1>1, <1>2, <1>3, <2>1 DEF Aggs
  <2>3. h[n - 1] = MergeTotal(g[n - 1], f[n - 1])
    BY <1>6
  <2>4. f[n] = IF n \in A THEN Accumulate(f[n - 1], file[n]) ELSE f[n - 1]
    BY <1>2 DEF Aggs
  <2>5. g[n] = IF n \in B THEN Accumulate(g[n - 1], file[n]) ELSE g[n - 1]
    BY <1>3 DEF Aggs
  <2>6. h[n] = IF n \in A \union B THEN Accumulate(h[n - 1], file[n]) ELSE h[n - 1]
    BY <1>4 DEF Aggs
  <2>7. CASE n \in A
    <3>1. n \notin B
      BY <2>7
    <3> QED
      BY <2>1, <2>2, <2>3, <2>4, <2>5, <2>6, <2>7, <3>1, MergeMoves
  <2>8. CASE n \in B
    <3>1. n \notin A
      BY <2>8
    <3> QED
      BY <2>1, <2>2, <2>3, <2>4, <2>5, <2>6, <2>8, <3>1, MergeMoves
  <2>9. CASE n \notin A \union B
    BY <2>1, <2>3, <2>4, <2>5, <2>6, <2>9
  <2> QED
    BY <2>7, <2>8, <2>9
<1>7. N \in 0 .. N
  BY <1>1
<1> HIDE DEF S, N
<1>8. N \in S
  BY <1>1, <1>5, <1>6, <1>7, Climb
<1> QED
  BY <1>2, <1>3, <1>4, <1>8 DEF S

(* The order is transitive. *)
LEMMA AtMostCarries ==
  ASSUME NEW a \in AggType, NEW b \in AggType, NEW c \in AggType, AtMost(a, b), AtMost(b, c)
  PROVE  AtMost(a, c)
<1>1. /\ a.usd \in Nat /\ a.calls \in Nat /\ \A k \in TokenKinds : a.tokens[k] \in Nat
      /\ b.usd \in Nat /\ b.calls \in Nat /\ \A k \in TokenKinds : b.tokens[k] \in Nat
      /\ c.usd \in Nat /\ c.calls \in Nat /\ \A k \in TokenKinds : c.tokens[k] \in Nat
  BY AggShape
<1>2. a.usd <= c.usd /\ a.calls <= c.calls
  BY <1>1 DEF AtMost
<1>3. ASSUME NEW k \in TokenKinds PROVE a.tokens[k] <= c.tokens[k]
  <2>1. a.tokens[k] <= b.tokens[k] /\ b.tokens[k] <= c.tokens[k]
    BY DEF AtMost
  <2> QED
    BY <1>1, <2>1
<1> QED
  BY <1>2, <1>3 DEF AtMost

(* A row makes no less. *)
LEMMA RowAtMost ==
  ASSUME NEW a \in AggType, NEW row \in RowType
  PROVE  AtMost(a, Accumulate(a, row))
<1> DEFINE l == Accumulate(a, row)
<1>1. /\ l.usd = a.usd + row.cost /\ l.calls = a.calls + 1
      /\ \A k \in TokenKinds : l.tokens[k] = a.tokens[k] + row.usage[k]
      /\ row.cost \in Nat /\ \A k \in TokenKinds : row.usage[k] \in Nat
  BY AccumulateIs
<1>2. a.usd \in Nat /\ a.calls \in Nat /\ \A k \in TokenKinds : a.tokens[k] \in Nat
  BY AggShape
<1> HIDE DEF l
<1>3. a.usd <= l.usd /\ a.calls <= l.calls
  BY <1>1, <1>2
<1>4. ASSUME NEW k \in TokenKinds PROVE a.tokens[k] <= l.tokens[k]
  <2>1. l.tokens[k] = a.tokens[k] + row.usage[k] /\ row.usage[k] \in Nat /\ a.tokens[k] \in Nat
    BY <1>1, <1>2
  <2> QED
    BY <2>1
<1>5. AtMost(a, l)
  BY <1>3, <1>4 DEF AtMost
<1> QED
  BY <1>5 DEF l

(* f[n] is what the first n rows add up to. *)
Totals(f, file) ==
  /\ f \in [0 .. Len(file) -> AggType]
  /\ f[0] = NewAgg
  /\ \A n \in 1 .. Len(file) : f[n] = Accumulate(f[n - 1], file[n])

(* AggregateRows is AggregateOf of all rows. *)
LEMMA TotalsExist ==
  ASSUME NEW file \in Seq(RowType)
  PROVE  \E f : Totals(f, file) /\ AggregateRows(file) = f[Len(file)]
<1>1. PICK f : Aggs(f, file, DOMAIN file) /\ AggregateOf(file, DOMAIN file) = f[Len(file)]
  BY AggsExist
<1>2. \A n \in 1 .. Len(file) : n \in DOMAIN file
  OBVIOUS
<1>3. Totals(f, file)
  BY <1>1, <1>2 DEF Aggs, Totals
<1> QED
  BY <1>1, <1>3 DEF AggregateRows

(* A file that goes on where another ends adds up to no less. *)
LEMMA LongerAtMost ==
  ASSUME NEW s \in Seq(RowType), NEW t \in Seq(RowType), Len(s) <= Len(t),
         \A n \in 1 .. Len(s) : s[n] = t[n]
  PROVE  AtMost(AggregateRows(s), AggregateRows(t))
<1> DEFINE M == Len(s)
           N == Len(t)
<1>1. /\ M \in Nat /\ N \in Nat /\ M <= N /\ \A n \in 1 .. N : t[n] \in RowType
      /\ \A n \in 1 .. M : s[n] = t[n]
  OBVIOUS
<1>2. PICK f : Totals(f, s) /\ AggregateRows(s) = f[M]
  BY TotalsExist
<1>3. PICK g : Totals(g, t) /\ AggregateRows(t) = g[N]
  BY TotalsExist
<1>4. f[0] = NewAgg /\ \A n \in 1 .. M : f[n] = Accumulate(f[n - 1], s[n])
  BY <1>2 DEF Totals
<1>5. /\ g \in [0 .. N -> AggType] /\ g[0] = NewAgg
      /\ \A n \in 1 .. N : g[n] = Accumulate(g[n - 1], t[n])
  BY <1>3 DEF Totals
<1> HIDE DEF M, N
<1> DEFINE S == {n \in 0 .. M : f[n] = g[n]}
           T == {n \in 0 .. N : n >= M => AtMost(g[M], g[n])}
<1>6. ASSUME NEW n \in 1 .. M, n - 1 \in S PROVE n \in S
  <2>1. n \in 0 .. M /\ n \in 1 .. N
    BY <1>1
  <2>2. f[n - 1] = g[n - 1]
    BY <1>6
  <2> QED
    BY <1>1, <1>4, <1>5, <2>1, <2>2
<1>7. 0 \in S
  BY <1>1, <1>4, <1>5
<1>8. ASSUME NEW n \in 1 .. N, n - 1 \in T PROVE n \in T
  <2>1. n \in 0 .. N /\ n - 1 \in 0 .. N /\ M \in 0 .. N
    BY <1>1
  <2>2. g[n] \in AggType /\ g[n - 1] \in AggType /\ g[M] \in AggType
    BY <1>5, <2>1
  <2>3. CASE n <= M
    <3>1. n >= M => n = M
      BY <1>1, <2>3
    <3>2. AtMost(g[M], g[M])
      BY <2>2, MoreAtMost
    <3> QED
      BY <2>1, <3>1, <3>2
  <2>4. CASE n > M
    <3>1. n - 1 >= M
      BY <1>1, <2>4
    <3>2. AtMost(g[M], g[n - 1])
      BY <1>8, <3>1
    <3>3. g[n] = Accumulate(g[n - 1], t[n]) /\ t[n] \in RowType
      BY <1>1, <1>5
    <3>4. AtMost(g[n - 1], g[n])
      BY <2>2, <3>3, RowAtMost
    <3>5. AtMost(g[M], g[n])
      BY <2>2, <3>2, <3>4, AtMostCarries
    <3> QED
      BY <2>1, <3>5
  <2> QED
    BY <1>1, <2>3, <2>4
<1>9. 0 \in T
  <2>1. 0 >= M => M = 0
    BY <1>1
  <2>2. g[0] \in AggType
    BY <1>1, <1>5
  <2>3. AtMost(g[0], g[0])
    BY <2>2, MoreAtMost
  <2> QED
    BY <1>1, <2>1, <2>3
<1>10. M \in 0 .. M /\ N \in 0 .. N /\ N >= M
  BY <1>1
<1> HIDE DEF S, T
<1>11. M \in S
  BY <1>1, <1>6, <1>7, <1>10, Climb
<1>12. N \in T
  BY <1>1, <1>8, <1>9, <1>10, Climb
<1>13. f[M] = g[M] /\ AtMost(g[M], g[N])
  BY <1>10, <1>11, <1>12 DEF S, T
<1> QED
  BY <1>2, <1>3, <1>13

(* Two files, one after the other, add up to the sum of the two. *)
LEMMA AggregateBoth ==
  ASSUME NEW s \in Seq(RowType), NEW t \in Seq(RowType)
  PROVE  AggregateRows(s \o t) = MergeTotal(AggregateRows(t), AggregateRows(s))
<1> DEFINE M == Len(s)
           N == Len(t)
           both == s \o t
<1>1. /\ M \in Nat /\ N \in Nat /\ both \in Seq(RowType) /\ Len(both) = M + N
      /\ \A n \in 1 .. N : t[n] \in RowType /\ both[M + n] = t[n]
      /\ \A n \in 1 .. M : both[n] = s[n]
  OBVIOUS
<1>2. PICK f : Totals(f, s) /\ AggregateRows(s) = f[M]
  BY TotalsExist
<1>3. PICK g : Totals(g, t) /\ AggregateRows(t) = g[N]
  BY TotalsExist
<1> HIDE DEF both
<1>4. PICK h : Totals(h, both) /\ AggregateRows(both) = h[M + N]
  BY <1>1, TotalsExist
<1>5. /\ f \in [0 .. M -> AggType] /\ f[0] = NewAgg
      /\ \A n \in 1 .. M : f[n] = Accumulate(f[n - 1], s[n])
  BY <1>2 DEF Totals
<1>6. /\ g \in [0 .. N -> AggType] /\ g[0] = NewAgg
      /\ \A n \in 1 .. N : g[n] = Accumulate(g[n - 1], t[n])
  BY <1>3 DEF Totals
<1>7. h[0] = NewAgg /\ \A n \in 1 .. M + N : h[n] = Accumulate(h[n - 1], both[n])
  BY <1>1, <1>4 DEF Totals
<1> HIDE DEF M, N
<1> DEFINE S == {n \in 0 .. M : h[n] = f[n]}
           T == {n \in 0 .. N : h[M + n] = MergeTotal(g[n], f[M])}
<1>8. ASSUME NEW n \in 1 .. M, n - 1 \in S PROVE n \in S
  <2>1. n \in 0 .. M /\ n \in 1 .. M + N
    BY <1>1
  <2>2. f[n - 1] = h[n - 1]
    BY <1>8
  <2> QED
    BY <1>1, <1>5, <1>7, <2>1, <2>2
<1>9. 0 \in S
  BY <1>1, <1>5, <1>7
<1>10. M \in 0 .. M /\ N \in 0 .. N
  BY <1>1
<1> HIDE DEF S
<1>11. M \in S
  BY <1>1, <1>8, <1>9, <1>10, Climb
<1>12. h[M] = f[M] /\ f[M] \in AggType
  BY <1>5, <1>10, <1>11 DEF S
<1>13. ASSUME NEW n \in 1 .. N, n - 1 \in T PROVE n \in T
  <2>1. n \in 0 .. N /\ n - 1 \in 0 .. N /\ M + n \in 1 .. M + N /\ (M + n) - 1 = M + (n - 1)
    BY <1>1
  <2>2. h[M + (n - 1)] = MergeTotal(g[n - 1], f[M])
    BY <1>13
  <2>3. h[M + n] = Accumulate(h[M + (n - 1)], both[M + n])
    BY <1>7, <2>1
  <2>4. both[M + n] = t[n] /\ t[n] \in RowType /\ g[n - 1] \in AggType
    BY <1>1, <1>6, <2>1
  <2>5. g[n] = Accumulate(g[n - 1], t[n])
    BY <1>6
  <2>6. h[M + n] = MergeTotal(g[n], f[M])
    BY <1>12, <2>2, <2>3, <2>4, <2>5, MergeMoves
  <2> QED
    BY <2>1, <2>6
<1>14. 0 \in T
  <2>1. M + 0 = M
    BY <1>1
  <2> QED
    BY <1>1, <1>6, <1>12, <2>1, MergeNothing
<1> HIDE DEF T
<1>15. N \in T
  BY <1>1, <1>10, <1>13, <1>14, Climb
<1>16. h[M + N] = MergeTotal(g[N], f[M])
  BY <1>15 DEF T
<1> QED
  BY <1>2, <1>3, <1>4, <1>16 DEF both

-----------------------------------------------------------------------------
(* f[r] has the rows of the first r directories. *)
Readings(f, read) ==
  /\ f \in [0 .. RunCount -> Seq(RowType)]
  /\ f[0] = <<>>
  /\ \A r \in Runs : f[r] = f[r - 1] \o read[r]

(* RowsOf puts the directories one after the other. *)
LEMMA ReadingsExist ==
  ASSUME NEW read \in [Runs -> Seq(RowType)]
  PROVE  \E f : Readings(f, read) /\ RowsOf(read) = f[RunCount]
<1> DEFINE N == RunCount
           V == Seq(RowType)
           Then(s, r) == s \o read[r]
           step == [r \in 1 .. N |-> [s \in V |-> Then(s, r)]]
           Is(f) == f = [r \in 0 .. N |-> IF r = 0 THEN <<>> ELSE Then(f[r - 1], r)]
<1>1. N \in Nat /\ \A r \in 1 .. N : read[r] \in V
  BY CostReportAssumption DEF Runs
<1>2. \A s \in V : \A r \in 1 .. N : Then(s, r) \in V
  BY <1>1
<1>3. RowsOf(read) = (CHOOSE f : Is(f))[N]
  BY DEF RowsOf
<1>4. <<>> \in V
  OBVIOUS
<1> HIDE DEF N, V, Then
<1>5. step \in [1 .. N -> [V -> V]]
  BY <1>1, <1>2
<1>6. \A n \in 1 .. N : \A s \in V : step[n][s] = Then(s, n)
  OBVIOUS
<1> HIDE DEF step
<1>7. PICK f : Recurs(f, V, <<>>, N, step)
  BY <1>1, <1>4, <1>5, Recursion
<1>8. \A n \in 1 .. N : n - 1 \in 0 .. N /\ n \in 0 .. N /\ n # 0
  BY <1>1
<1>9. f \in [0 .. N -> V] /\ f[0] = <<>> /\ \A n \in 1 .. N : f[n] = Then(f[n - 1], n)
  BY <1>6, <1>7, <1>8 DEF Recurs
<1>10. Is(f)
  BY <1>1, <1>9
<1> DEFINE g == CHOOSE f2 : Is(f2)
<1>11. Is(g)
  BY <1>10
<1> HIDE DEF g
<1>12. DOMAIN g = 0 .. N /\ g[0] = <<>> /\ \A n \in 1 .. N : g[n] = Then(g[n - 1], n)
  BY <1>1, <1>8, <1>11
<1> DEFINE S == {n \in 0 .. N : g[n] \in V}
<1>13. ASSUME NEW n \in 1 .. N, n - 1 \in S PROVE n \in S
  <2>1. g[n - 1] \in V
    BY <1>13
  <2>2. g[n] \in V
    BY <1>1, <1>2, <1>12, <2>1
  <2> QED
    BY <1>8, <2>2
<1>14. 0 \in S
  BY <1>1, <1>4, <1>12
<1> HIDE DEF S
<1>15. 0 .. N \subseteq S
  BY <1>1, <1>13, <1>14, Climb
<1>16. g \in [0 .. N -> V]
  BY <1>11, <1>15 DEF S
<1> QED
  BY <1>3, <1>12, <1>16 DEF Readings, g, N, V, Then, Runs

(* Hence it returns rows. *)
LEMMA RowsOfTyped ==
  ASSUME NEW read \in [Runs -> Seq(RowType)]
  PROVE  RowsOf(read) \in Seq(RowType)
<1>1. RunCount \in 0 .. RunCount
  BY CostReportAssumption
<1> QED
  BY <1>1, ReadingsExist DEF Readings

(* Directories that went on where others end add up to no less. *)
LEMMA MoreReadAtMost ==
  ASSUME NEW less \in [Runs -> Seq(RowType)], NEW more \in [Runs -> Seq(RowType)],
         \A r \in Runs : /\ Len(less[r]) <= Len(more[r])
                         /\ \A n \in 1 .. Len(less[r]) : less[r][n] = more[r][n]
  PROVE  AtMost(AggregateRows(RowsOf(less)), AggregateRows(RowsOf(more)))
<1> DEFINE N == RunCount
<1>1. PICK f : Readings(f, less) /\ RowsOf(less) = f[N]
  BY ReadingsExist
<1>2. PICK g : Readings(g, more) /\ RowsOf(more) = g[N]
  BY ReadingsExist
<1>3. N \in Nat /\ N \in 0 .. N
  BY CostReportAssumption
<1> HIDE DEF N
<1> DEFINE S == {n \in 0 .. N : AtMost(AggregateRows(f[n]), AggregateRows(g[n]))}
<1>4. /\ f \in [0 .. N -> Seq(RowType)] /\ f[0] = <<>>
      /\ g \in [0 .. N -> Seq(RowType)] /\ g[0] = <<>>
  BY <1>1, <1>2 DEF Readings, N
<1>5. \A r \in 1 .. N : f[r] = f[r - 1] \o less[r] /\ g[r] = g[r - 1] \o more[r]
  BY <1>1, <1>2 DEF Readings, N, Runs
<1>6. \A s \in Seq(RowType) : AggregateRows(s) \in AggType
  BY AggregateTyped DEF AggregateRows
<1>7. ASSUME NEW n \in 1 .. N, n - 1 \in S PROVE n \in S
  <2>1. n \in 0 .. N /\ n - 1 \in 0 .. N /\ n \in Runs
    BY <1>3 DEF N, Runs
  <2>2. /\ f[n - 1] \in Seq(RowType) /\ g[n - 1] \in Seq(RowType)
        /\ less[n] \in Seq(RowType) /\ more[n] \in Seq(RowType)
    BY <1>4, <2>1
  <2>3. AtMost(AggregateRows(f[n - 1]), AggregateRows(g[n - 1]))
    BY <1>7
  <2>4. AtMost(AggregateRows(less[n]), AggregateRows(more[n]))
    BY <2>1, <2>2, LongerAtMost
  <2>5. AtMost(MergeTotal(AggregateRows(less[n]), AggregateRows(f[n - 1])),
               MergeTotal(AggregateRows(more[n]), AggregateRows(g[n - 1])))
    BY <1>6, <2>2, <2>3, <2>4, MergeAtMost
  <2>6. AtMost(AggregateRows(f[n]), AggregateRows(g[n]))
    BY <1>5, <2>2, <2>5, AggregateBoth
  <2> QED
    BY <2>1, <2>6
<1>8. 0 \in S
  <2>1. <<>> \in Seq(RowType)
    OBVIOUS
  <2>2. AtMost(AggregateRows(<<>>), AggregateRows(<<>>))
    BY <1>6, <2>1, MoreAtMost
  <2> QED
    BY <1>3, <1>4, <2>2
<1> HIDE DEF S
<1>9. N \in S
  BY <1>3, <1>7, <1>8, Climb
<1> QED
  BY <1>1, <1>2, <1>9 DEF S

-----------------------------------------------------------------------------
(* Adding up the groups, in the order in which they open. *)
Merged(f, file, group_by, groups) ==
  /\ DOMAIN f = 0 .. Len(file)
  /\ f[0] = NewAgg
  /\ \A n \in 1 .. Len(file) :
       f[n] = IF OpensGroup(file, group_by, n)
              THEN MergeTotal(groups[GroupKey(file[n], group_by)], f[n - 1])
              ELSE f[n - 1]

(* MergeGroups adds up the groups one by one. *)
LEMMA MergedExist ==
  ASSUME NEW file \in Seq(RowType), NEW group_by, NEW groups,
         \A n \in DOMAIN file : groups[GroupKey(file[n], group_by)] \in AggType
  PROVE  \E f : /\ Merged(f, file, group_by, groups)
                /\ MergeGroups(file, group_by, groups) = f[Len(file)]
<1> DEFINE N == Len(file)
           Opens(n) == OpensGroup(file, group_by, n)
           Part(n) == groups[GroupKey(file[n], group_by)]
           step == [n \in 1 .. N |-> [a \in AggType |->
                     IF Opens(n) THEN MergeTotal(Part(n), a) ELSE a]]
           Is(f) == f = [n \in 0 .. N |->
                     IF n = 0 THEN NewAgg
                     ELSE IF OpensGroup(file, group_by, n)
                          THEN MergeTotal(groups[GroupKey(file[n], group_by)], f[n - 1])
                          ELSE f[n - 1]]
<1>1. N \in Nat /\ \A n \in 1 .. N : n \in DOMAIN file
  OBVIOUS
<1>2. \A n \in 1 .. N : Part(n) \in AggType
  BY <1>1
<1>3. MergeGroups(file, group_by, groups) = (CHOOSE f : Is(f))[N]
  BY DEF MergeGroups
<1>4. \A n \in 1 .. N : n - 1 \in 0 .. N /\ n \in 0 .. N /\ n # 0
  BY <1>1
<1>5. ASSUME NEW f, DOMAIN f = 0 .. N, f[0] = NewAgg,
             \A n \in 1 .. N : f[n] = IF Opens(n) THEN MergeTotal(Part(n), f[n - 1]) ELSE f[n - 1],
             f = [n \in 0 .. N |-> f[n]]
      PROVE  Is(f)
  BY <1>1, <1>4, <1>5
<1>6. ASSUME NEW f, Is(f)
      PROVE  /\ DOMAIN f = 0 .. N /\ f[0] = NewAgg
             /\ \A n \in 1 .. N : f[n] = IF Opens(n) THEN MergeTotal(Part(n), f[n - 1]) ELSE f[n - 1]
  BY <1>1, <1>4, <1>6
<1> HIDE DEF N, Opens, Part, Is
<1>7. step \in [1 .. N -> [AggType -> AggType]]
  BY <1>2, MergeIs
<1>8. \A n \in 1 .. N : \A a \in AggType :
        step[n][a] = IF Opens(n) THEN MergeTotal(Part(n), a) ELSE a
  OBVIOUS
<1> HIDE DEF step
<1>9. PICK f : Recurs(f, AggType, NewAgg, N, step)
  BY <1>1, <1>7, NothingCounted, Recursion
<1>10. /\ f \in [0 .. N -> AggType] /\ f[0] = NewAgg
       /\ \A n \in 1 .. N : f[n] = IF Opens(n) THEN MergeTotal(Part(n), f[n - 1]) ELSE f[n - 1]
  BY <1>4, <1>8, <1>9 DEF Recurs
<1>11. Is(f)
  BY <1>5, <1>10
<1> DEFINE g == CHOOSE f2 : Is(f2)
<1>12. Is(g)
  BY <1>11
<1> HIDE DEF g
<1>13. /\ DOMAIN g = 0 .. N /\ g[0] = NewAgg
       /\ \A n \in 1 .. N : g[n] = IF Opens(n) THEN MergeTotal(Part(n), g[n - 1]) ELSE g[n - 1]
  BY <1>6, <1>12
<1> QED
  BY <1>3, <1>13 DEF Merged, g, N, Opens, Part

(* llm/run_report.py, aggregate_run_directories: however the rows are      *)
(* grouped, the groups add up to the rows.                                 *)
THEOREM GroupsAddUp ==
  ASSUME NEW file \in Seq(RowType), NEW group_by
  PROVE  Aggregate(file, group_by).totals = AggregateRows(file)
<1>1. CASE group_by = "none"
  BY <1>1 DEF Aggregate
<1>2. CASE group_by # "none"
  <2> DEFINE N == Len(file)
             Key(n) == GroupKey(file[n], group_by)
             keys == {Key(n) : n \in DOMAIN file}
             groups == [key \in keys |-> AggregateOf(file, Group(file, group_by, key))]
             U(n) == {m \in DOMAIN file : \E i \in 1 .. n : Key(i) = Key(m)}
  <2>1. Aggregate(file, group_by).totals = MergeGroups(file, group_by, groups)
    BY <1>2 DEF Aggregate
  <2>2. N \in Nat /\ DOMAIN file = 1 .. N
    OBVIOUS
  <2>3. \A n \in DOMAIN file : groups[Key(n)] = AggregateOf(file, Group(file, group_by, Key(n)))
    OBVIOUS
  <2>4. \A n \in DOMAIN file : Group(file, group_by, Key(n)) = {m \in DOMAIN file : Key(m) = Key(n)}
    BY DEF Group
  <2> HIDE DEF groups, keys
  <2>5. \A n \in DOMAIN file : groups[Key(n)] \in AggType
    BY <2>3, AggregateTyped
  <2>6. PICK f : /\ Merged(f, file, group_by, groups)
                 /\ MergeGroups(file, group_by, groups) = f[N]
    BY <2>5, MergedExist
  <2>7. /\ f[0] = NewAgg
        /\ \A n \in 1 .. N : f[n] = IF OpensGroup(file, group_by, n)
                                    THEN MergeTotal(groups[Key(n)], f[n - 1]) ELSE f[n - 1]
    BY <2>6 DEF Merged
  <2>8. \A n \in 1 .. N : OpensGroup(file, group_by, n) <=> \A m \in 1 .. n - 1 : Key(m) # Key(n)
    BY DEF OpensGroup
  <2> HIDE DEF N, Key
  <2> DEFINE S == {n \in 0 .. N : f[n] = AggregateOf(file, U(n))}
  <2>9. ASSUME NEW n \in 1 .. N, n - 1 \in S PROVE n \in S
    <3>1. n \in 0 .. N /\ n - 1 \in 0 .. N /\ n \in DOMAIN file
      BY <2>2
    <3>2. f[n - 1] = AggregateOf(file, U(n - 1))
      BY <2>9
    <3>3. \A i \in 1 .. n : i \in 1 .. n - 1 \/ i = n
      BY <2>2
    <3>4. \A i \in 1 .. n - 1 : i \in 1 .. n
      BY <2>2
    <3>5. n \in 1 .. n
      BY <2>2
    <3> DEFINE G == {m \in DOMAIN file : Key(m) = Key(n)}
    <3>6. U(n) = U(n - 1) \union G
      BY <3>3, <3>4, <3>5
    <3>7. groups[Key(n)] = AggregateOf(file, G)
      BY <2>3, <2>4, <3>1
    <3>8. CASE OpensGroup(file, group_by, n)
      <4>1. U(n - 1) \intersect G = {}
        BY <2>8, <3>8
      <4>2. AggregateOf(file, U(n - 1) \union G)
              = MergeTotal(AggregateOf(file, G), AggregateOf(file, U(n - 1)))
        <5> HIDE DEF U, G
        <5> QED
          BY <4>1, AggregateUnion
      <4>3. f[n] = MergeTotal(groups[Key(n)], f[n - 1])
        BY <2>7, <3>8
      <4> HIDE DEF U, G
      <4> QED
        BY <3>1, <3>2, <3>6, <3>7, <4>2, <4>3
    <3>9. CASE ~OpensGroup(file, group_by, n)
      <4>1. G \subseteq U(n - 1)
        BY <2>8, <3>9
      <4>2. U(n) = U(n - 1)
        BY <3>6, <4>1
      <4>3. f[n] = f[n - 1]
        BY <2>7, <3>9
      <4> HIDE DEF U, G
      <4> QED
        BY <3>1, <3>2, <4>2, <4>3
    <3> QED
      BY <3>8, <3>9
  <2>10. 0 \in S
    <3>1. U(0) = {}
      BY <2>2
    <3>2. PICK h : Aggs(h, file, {}) /\ AggregateOf(file, {}) = h[Len(file)]
      BY AggsExist
    <3>3. /\ h[0] = NewAgg /\ \A n \in 1 .. N : h[n] = h[n - 1]
      BY <3>2 DEF Aggs, N
    <3> DEFINE T == {n \in 0 .. N : h[n] = NewAgg}
    <3>4. ASSUME NEW n \in 1 .. N, n - 1 \in T PROVE n \in T
      <4>1. n \in 0 .. N
        BY <2>2
      <4> QED
        BY <3>3, <3>4, <4>1
    <3>5. 0 \in T /\ N \in 0 .. N
      BY <2>2, <3>3
    <3> HIDE DEF T
    <3>6. N \in T
      BY <2>2, <3>4, <3>5, Climb
    <3>7. AggregateOf(file, {}) = NewAgg
      BY <3>2, <3>6 DEF T, N
    <3> HIDE DEF U
    <3>8. f[0] = AggregateOf(file, {})
      BY <2>7, <3>7
    <3>9. f[0] = AggregateOf(file, U(0))
      BY <3>1, <3>8
    <3>10. 0 \in 0 .. N
      BY <2>2
    <3> QED
      BY <3>9, <3>10
  <2>11. U(N) = DOMAIN file
    BY <2>2
  <2>12. N \in 0 .. N
    BY <2>2
  <2> HIDE DEF S, U
  <2>13. N \in S
    BY <2>2, <2>9, <2>10, <2>12, Climb
  <2>14. f[N] = AggregateOf(file, U(N))
    BY <2>13 DEF S
  <2> QED
    BY <2>1, <2>6, <2>11, <2>14 DEF AggregateRows
<1> QED
  BY <1>1, <1>2

(* The token column is the one of the books. *)
LEMMA TokensOfRows ==
  ASSUME NEW file \in Seq(RowType)
  PROVE  TokenUsageFromRows(file) = AggregateRows(file).tokens
<1> DEFINE N == Len(file)
           Is(f) == f = [n \in 0 .. N |-> IF n = 0 THEN NoTokens ELSE PlusTokens(f[n - 1], file[n].usage)]
<1>1. N \in Nat /\ \A n \in 1 .. N : file[n] \in RowType
  OBVIOUS
<1>2. TokenUsageFromRows(file) = (CHOOSE f : Is(f))[N]
  BY DEF TokenUsageFromRows
<1>3. \A n \in 1 .. N : n - 1 \in 0 .. N /\ n \in 0 .. N /\ n # 0
  BY <1>1
<1>4. PICK t : Totals(t, file) /\ AggregateRows(file) = t[N]
  BY TotalsExist
<1>5. t[0] = NewAgg /\ \A n \in 1 .. N : t[n] = Accumulate(t[n - 1], file[n])
  BY <1>4 DEF Totals
<1> HIDE DEF N
<1> DEFINE f == [n \in 0 .. N |-> t[n].tokens]
<1>6. t[0].tokens = NoTokens
  BY <1>5 DEF NewAgg
<1>7. \A n \in 1 .. N : t[n].tokens = PlusTokens(t[n - 1].tokens, file[n].usage)
  <2> TAKE n \in 1 .. N
  <2>1. t[n] = Accumulate(t[n - 1], file[n])
    BY <1>5
  <2> QED
    BY <2>1 DEF Accumulate
<1>8. Is(f)
  BY <1>1, <1>3, <1>6, <1>7
<1> HIDE DEF f
<1> DEFINE g == CHOOSE f2 : Is(f2)
<1>9. Is(g)
  BY <1>8
<1> HIDE DEF g
<1>10. g[0] = NoTokens /\ \A n \in 1 .. N : g[n] = PlusTokens(g[n - 1], file[n].usage)
  BY <1>1, <1>3, <1>9
<1> DEFINE S == {n \in 0 .. N : g[n] = t[n].tokens}
<1>11. ASSUME NEW n \in 1 .. N, n - 1 \in S PROVE n \in S
  <2>1. g[n - 1] = t[n - 1].tokens
    BY <1>11
  <2> QED
    BY <1>3, <1>7, <1>10, <2>1
<1>12. 0 \in S /\ N \in 0 .. N
  BY <1>1, <1>6, <1>10
<1> HIDE DEF S
<1>13. N \in S
  BY <1>1, <1>11, <1>12, Climb
<1> QED
  BY <1>2, <1>4, <1>13 DEF S, g

-----------------------------------------------------------------------------
(* The reports, and the commands that write meanwhile. *)

(* What the steps of a command keep of its run: no manifest before it is   *)
(* opened, and in a manifest that was written what the rows add up to.     *)
RunTold(r) ==
  /\ stage[r] = "none" => rows[r] = <<>>
  /\ stage[r] \in {"none", "running"} => manifests[r] = None
  /\ stage[r] = "closing" => manifests[r] = Empty
  /\ manifests[r] \notin {None, Empty} =>
       stage[r] = "ended" /\ manifests[r] = AggregateRows(rows[r]).usd

(* What was read of a run is the beginning of its file, and, once it was   *)
(* read, no less than the file had when the report was asked for.          *)
RunRead(r) ==
  /\ Len(got[r]) <= Len(rows[r]) /\ \A n \in 1 .. Len(got[r]) : got[r][n] = rows[r][n]
  /\ since[r] <= Len(rows[r])
  /\ r \notin Chosen => got[r] = <<>>
  /\ r \in Chosen /\ r \notin pending /\ report \in {"reading", "answered"} =>
       since[r] <= Len(got[r])

(* What the reader says of what it read. *)
Told ==
  /\ pending \subseteq run_dirs /\ pending \subseteq Chosen
  /\ report = "answered" => pending = {}
  /\ report = "answered" /\ payload # None => payload.totals = AggregateRows(RowsOf(got))
  /\ RaisesOnlyForTorn

(* The ranges of the variables. *)
ReportTyped ==
  /\ stage \in [Runs -> {"none", "running", "closing", "ended"}]
  /\ rows \in [Runs -> Seq(Rows)]
  /\ torn \in [Runs -> BOOLEAN]
  /\ manifests \in [Runs -> Nat \union {None, Empty}]
  /\ report \in {"idle", "reading", "answered", "raised"}
  /\ asked_run \in Runs \union {None}
  /\ got \in [Runs -> Seq(Rows)]
  /\ since \in [Runs -> Nat]

(* The invariant of the reports. *)
ReportInv ==
  /\ ReportTyped /\ Told
  /\ \A r \in Runs : RunTold(r)
  /\ \A r \in Runs : RunRead(r)

(* The rows of a run are rows. *)
LEMMA RowsTyped == \A r \in Seq(Rows) : r \in Seq(RowType)
<1>1. Rows \subseteq RowType
  BY CostReportAssumption
<1> QED
  BY <1>1

(* They cost a number. *)
LEMMA CostOfRows ==
  ASSUME NEW file \in Seq(Rows)
  PROVE  AggregateRows(file).usd \in Nat
<1>1. file \in Seq(RowType)
  BY RowsTyped
<1>2. AggregateRows(file) \in AggType
  BY <1>1, AggregateTyped DEF AggregateRows
<1> QED
  BY <1>2, AggShape

(* It holds before the first run. *)
LEMMA ReportStarts == ReportInit => ReportInv
<1> SUFFICES ASSUME ReportInit PROVE ReportInv
  OBVIOUS
<1>1. <<>> \in Seq(Rows) /\ 0 \in Nat
  OBVIOUS
<1>2. ReportTyped
  BY <1>1 DEF ReportInit, ReportTyped
<1>3. Told
  BY DEF ReportInit, Told, RaisesOnlyForTorn
<1>4. \A r \in Runs : RunTold(r)
  BY DEF ReportInit, RunTold
<1>5. \A r \in Runs : RunRead(r)
  BY DEF ReportInit, RunRead
<1> QED
  BY <1>2, <1>3, <1>4, <1>5 DEF ReportInv

(* A step of the command that owns r, which writes to no other run.        *)
LEMMA CommandStep ==
  ASSUME ReportInv, ReportTyped', UNCHANGED report_reader, NEW r \in Runs,
         \A q \in Runs : q # r => /\ stage'[q] = stage[q] /\ rows'[q] = rows[q]
                                  /\ torn'[q] = torn[q] /\ manifests'[q] = manifests[q],
         stage'[r] # "none", torn[r] => torn'[r], RunTold(r)',
         rows'[r] = rows[r] \/ \E row \in Rows : rows'[r] = Append(rows[r], row)
  PROVE  ReportInv'
<1>1. /\ report' = report /\ asked_run' = asked_run /\ pending' = pending
      /\ got' = got /\ since' = since /\ payload' = payload
  BY DEF report_reader
<1>2. Chosen' = Chosen
  BY <1>1 DEF Chosen
<1>3. run_dirs \subseteq run_dirs'
  BY DEF run_dirs
<1>4. \A q \in Runs : torn[q] => torn'[q]
  OBVIOUS
<1>5. Chosen \subseteq Runs
  BY DEF Chosen, ReportInv, ReportTyped
<1>6. RaisesOnlyForTorn'
  BY <1>1, <1>2, <1>4, <1>5 DEF RaisesOnlyForTorn, ReportInv, Told
<1>7. Told'
  BY <1>1, <1>2, <1>3, <1>6 DEF ReportInv, Told
<1>8. ASSUME NEW q \in Runs PROVE RunTold(q)'
  <2>1. CASE q = r
    BY <2>1
  <2>2. CASE q # r
    BY <2>2 DEF ReportInv, RunTold
  <2> QED
    BY <2>1, <2>2
<1>9. ASSUME NEW q \in Runs PROVE RunRead(q)'
  <2>1. rows[q] \in Seq(Rows) /\ got[q] \in Seq(Rows) /\ since[q] \in Nat
    BY DEF ReportInv, ReportTyped
  <2>2. rows'[q] = rows[q] \/ \E row \in Rows : rows'[q] = Append(rows[q], row)
    OBVIOUS
  <2>3. Len(rows[q]) <= Len(rows'[q]) /\ \A n \in 1 .. Len(rows[q]) : rows'[q][n] = rows[q][n]
    <3>1. CASE rows'[q] = rows[q]
      BY <2>1, <3>1
    <3>2. ASSUME NEW row \in Rows, rows'[q] = Append(rows[q], row)
          PROVE  Len(rows[q]) <= Len(rows'[q]) /\ \A n \in 1 .. Len(rows[q]) : rows'[q][n] = rows[q][n]
      BY <2>1, <3>2
    <3> QED
      BY <2>2, <3>1, <3>2
  <2>4. Len(rows'[q]) \in Nat /\ Len(rows[q]) \in Nat /\ Len(got[q]) \in Nat
    <3>1. rows'[q] \in Seq(Rows)
      BY DEF ReportTyped
    <3> QED
      BY <2>1, <3>1
  <2>5. RunRead(q)
    BY DEF ReportInv
  <2>6. Len(got[q]) <= Len(rows'[q]) /\ since[q] <= Len(rows'[q])
    BY <2>1, <2>3, <2>4, <2>5 DEF RunRead
  <2>7. \A n \in 1 .. Len(got[q]) : got[q][n] = rows'[q][n]
    BY <2>3, <2>4, <2>5 DEF RunRead
  <2> QED
    BY <1>1, <1>2, <2>5, <2>6, <2>7 DEF RunRead
<1> QED
  BY <1>7, <1>8, <1>9 DEF ReportInv

(* Every step of a command keeps it. *)
LEMMA CommandKeeps ==
  ASSUME ReportInv, NEW r \in Runs, Command(r)
  PROVE  ReportInv'
<1>1. /\ ReportTyped /\ RunTold(r) /\ UNCHANGED report_reader
      /\ rows[r] \in Seq(Rows)
  BY DEF ReportInv, ReportTyped, Command, BeginRun, LogFails, OpenManifest, CloseManifest,
         CommandDies, LogCall
<1>2. CASE BeginRun(r)
  <2>1. ReportTyped'
    BY <1>1, <1>2 DEF BeginRun, ReportTyped, report_reader
  <2>2. stage'[r] = "running" /\ manifests' = manifests /\ stage[r] = "none" /\ rows' = rows /\ torn' = torn
    BY <1>1, <1>2 DEF BeginRun, ReportTyped
  <2>3. RunTold(r)'
    BY <1>1, <2>2 DEF RunTold
  <2>4. \A q \in Runs : q # r => stage'[q] = stage[q]
    BY <1>1, <1>2 DEF BeginRun, ReportTyped
  <2> QED
    BY <1>1, <2>1, <2>2, <2>3, <2>4, CommandStep
<1>3. ASSUME NEW row \in Rows, LogCall(r, row) PROVE ReportInv'
  <2>1. ReportTyped'
    <3>1. rows' \in [Runs -> Seq(Rows)]
      BY <1>1, <1>3 DEF LogCall, ReportTyped
    <3> QED
      BY <1>1, <1>3, <3>1 DEF LogCall, ReportTyped, report_reader
  <2>2. /\ stage[r] = "running" /\ stage' = stage /\ manifests' = manifests /\ torn' = torn
        /\ rows'[r] = Append(rows[r], row)
    BY <1>1, <1>3 DEF LogCall, ReportTyped
  <2>3. RunTold(r)'
    BY <1>1, <2>2 DEF RunTold
  <2>4. \A q \in Runs : q # r => rows'[q] = rows[q]
    BY <1>1, <1>3 DEF LogCall, ReportTyped
  <2> QED
    BY <1>1, <2>1, <2>2, <2>3, <2>4, CommandStep
<1>4. CASE LogFails(r)
  <2>1. ReportTyped'
    BY <1>1, <1>4 DEF LogFails, ReportTyped, report_reader
  <2>2. stage'[r] = "ended" /\ manifests' = manifests /\ stage[r] = "running" /\ rows' = rows /\ torn'[r]
    BY <1>1, <1>4 DEF LogFails, ReportTyped
  <2>3. RunTold(r)'
    BY <1>1, <2>2 DEF RunTold
  <2>4. \A q \in Runs : q # r => stage'[q] = stage[q] /\ torn'[q] = torn[q]
    BY <1>1, <1>4 DEF LogFails, ReportTyped
  <2> QED
    BY <1>1, <2>1, <2>2, <2>3, <2>4, CommandStep
<1>5. CASE OpenManifest(r)
  <2>1. ReportTyped'
    BY <1>1, <1>5 DEF OpenManifest, ReportTyped, report_reader
  <2>2. stage'[r] = "closing" /\ manifests'[r] = Empty /\ rows' = rows /\ torn' = torn
    BY <1>1, <1>5 DEF OpenManifest, ReportTyped
  <2>3. RunTold(r)'
    BY <1>1, <2>2 DEF RunTold
  <2>4. \A q \in Runs : q # r => stage'[q] = stage[q] /\ manifests'[q] = manifests[q]
    BY <1>1, <1>5 DEF OpenManifest, ReportTyped
  <2> QED
    BY <1>1, <2>1, <2>2, <2>3, <2>4, CommandStep
<1>6. CASE CloseManifest(r)
  <2>1. AggregateRows(rows[r]).usd \in Nat
    BY <1>1, CostOfRows
  <2>2. ReportTyped'
    BY <1>1, <1>6, <2>1 DEF CloseManifest, ReportTyped, report_reader
  <2>3. /\ stage'[r] = "ended" /\ manifests'[r] = AggregateRows(rows[r]).usd
        /\ rows' = rows /\ torn' = torn
    BY <1>1, <1>6 DEF CloseManifest, ReportTyped
  <2>4. RunTold(r)'
    BY <1>1, <2>3 DEF RunTold
  <2>5. \A q \in Runs : q # r => stage'[q] = stage[q] /\ manifests'[q] = manifests[q]
    BY <1>1, <1>6 DEF CloseManifest, ReportTyped
  <2> QED
    BY <1>1, <2>2, <2>3, <2>4, <2>5, CommandStep
<1>7. CASE CommandDies(r)
  <2>1. ReportTyped'
    BY <1>1, <1>7 DEF CommandDies, ReportTyped, report_reader
  <2>2. /\ stage'[r] = "ended" /\ stage[r] \in {"running", "closing"}
        /\ manifests' = manifests /\ rows' = rows /\ torn' = torn
    BY <1>1, <1>7 DEF CommandDies, ReportTyped
  <2>3. RunTold(r)'
    BY <1>1, <2>2 DEF RunTold
  <2>4. \A q \in Runs : q # r => stage'[q] = stage[q]
    BY <1>1, <1>7 DEF CommandDies, ReportTyped
  <2> QED
    BY <1>1, <2>1, <2>2, <2>3, <2>4, CommandStep
<1> QED
  BY <1>2, <1>3, <1>4, <1>5, <1>6, <1>7 DEF Command

(* A report is asked for: since is what every file has by now. *)
LEMMA AskReportStep ==
  ASSUME ReportInv, NEW run_id \in Runs \union {None}, AskReport(run_id)
  PROVE  ReportInv'
<1>1. /\ asked_run' = run_id /\ pending' = DiscoverRunDirs(run_id) /\ payload' = None
      /\ report' = IF pending' # {} THEN "reading"
                   ELSE IF run_id = None THEN "raised" ELSE "answered"
      /\ got' = [r \in Runs |-> <<>>] /\ since' = [r \in Runs |-> Len(rows[r])]
      /\ stage' = stage /\ rows' = rows /\ torn' = torn /\ manifests' = manifests
  BY DEF AskReport, run_files
<1>2. \A r \in Runs : Len(rows[r]) \in Nat /\ rows[r] \in Seq(Rows)
  BY DEF ReportInv, ReportTyped
<1>3. ReportTyped'
  <2>1. <<>> \in Seq(Rows)
    OBVIOUS
  <2>2. got' \in [Runs -> Seq(Rows)] /\ since' \in [Runs -> Nat]
    BY <1>1, <1>2, <2>1
  <2> QED
    BY <1>1, <2>2 DEF ReportInv, ReportTyped
<1>4. \A r \in Runs : RunTold(r)'
  BY <1>1 DEF ReportInv, RunTold
<1>5. run_dirs' = run_dirs
  BY <1>1 DEF run_dirs
<1>6. Chosen' = IF run_id = None THEN Runs ELSE {run_id}
  BY <1>1 DEF Chosen
<1>7. \A r \in Runs : r \notin run_dirs => Len(rows[r]) = 0
  BY DEF run_dirs, ReportInv, RunTold
<1>8. pending' = run_dirs \intersect Chosen' /\ run_dirs \subseteq Runs
  BY <1>1, <1>6 DEF DiscoverRunDirs, run_dirs
<1>9. Told'
  <2>1. report' = "answered" => pending' = {}
    BY <1>1
  <2>2. ASSUME report' = "raised" PROVE since' = [r \in Runs |-> 0] /\ asked_run' = None
    <3>1. pending' = {} /\ run_id = None
      BY <1>1, <2>2
    <3>2. run_dirs = {}
      BY <1>6, <1>8, <3>1
    <3>3. \A r \in Runs : Len(rows[r]) = 0
      BY <1>7, <3>2
    <3> QED
      BY <1>1, <3>1, <3>3
  <2>3. RaisesOnlyForTorn'
    BY <2>2 DEF RaisesOnlyForTorn
  <2> QED
    BY <1>1, <1>5, <1>8, <2>1, <2>3 DEF Told
<1>10. ASSUME NEW r \in Runs PROVE RunRead(r)'
  <2>1. got'[r] = <<>> /\ since'[r] = Len(rows[r]) /\ rows'[r] = rows[r]
    BY <1>1
  <2>2. Len(got'[r]) = 0
    BY <2>1
  <2>3. r \in Chosen' /\ r \notin pending' => since'[r] = 0
    BY <1>7, <1>8, <2>1
  <2> QED
    BY <1>2, <2>1, <2>2, <2>3 DEF RunRead
<1> QED
  BY <1>3, <1>4, <1>9, <1>10 DEF ReportInv

(* A directory is read as it is now. *)
LEMMA ReadRunStep ==
  ASSUME ReportInv, NEW r \in Runs, ReadRun(r)
  PROVE  ReportInv'
<1>1. /\ report = "reading" /\ r \in pending /\ got' = [got EXCEPT ![r] = rows[r]]
      /\ pending' = pending \ {r} /\ report' = report /\ asked_run' = asked_run
      /\ since' = since /\ payload' = payload
      /\ stage' = stage /\ rows' = rows /\ torn' = torn /\ manifests' = manifests
  BY DEF ReadRun, run_files
<1>2. ReportTyped'
  <2>1. rows[r] \in Seq(Rows)
    BY DEF ReportInv, ReportTyped
  <2>2. got' \in [Runs -> Seq(Rows)]
    BY <1>1, <2>1 DEF ReportInv, ReportTyped
  <2> QED
    BY <1>1, <2>2 DEF ReportInv, ReportTyped
<1>3. \A q \in Runs : RunTold(q)'
  BY <1>1 DEF ReportInv, RunTold
<1>4. Chosen' = Chosen /\ run_dirs' = run_dirs
  BY <1>1 DEF Chosen, run_dirs
<1>5. r \in Chosen
  BY <1>1 DEF ReportInv, Told
<1>6. Told'
  BY <1>1, <1>4 DEF ReportInv, Told, RaisesOnlyForTorn
<1>7. ASSUME NEW q \in Runs PROVE RunRead(q)'
  <2>1. rows[q] \in Seq(Rows) /\ got[q] \in Seq(Rows) /\ since[q] \in Nat /\ got \in [Runs -> Seq(Rows)]
    BY DEF ReportInv, ReportTyped
  <2>2. RunRead(q)
    BY DEF ReportInv
  <2>3. CASE q = r
    <3>1. got'[q] = rows[q] /\ Len(rows[q]) \in Nat
      BY <1>1, <2>1, <2>3
    <3>2. Len(got'[q]) <= Len(rows[q]) /\ since[q] <= Len(rows[q])
      BY <2>2, <3>1 DEF RunRead
    <3> QED
      BY <1>1, <1>4, <1>5, <2>3, <3>1, <3>2 DEF RunRead
  <2>4. CASE q # r
    <3>1. got'[q] = got[q]
      BY <1>1, <2>1, <2>4
    <3>2. q \notin pending' => q \notin pending
      BY <1>1, <2>4
    <3> QED
      BY <1>1, <1>4, <2>2, <3>1, <3>2 DEF RunRead
  <2> QED
    BY <2>3, <2>4
<1> QED
  BY <1>2, <1>3, <1>6, <1>7 DEF ReportInv

(* Half a line takes the report down. *)
LEMMA ReadTornStep ==
  ASSUME ReportInv, NEW r \in Runs, ReadTorn(r)
  PROVE  ReportInv'
<1>1. /\ report = "reading" /\ r \in pending /\ torn[r] /\ report' = "raised"
      /\ pending' = pending /\ got' = got /\ asked_run' = asked_run
      /\ since' = since /\ payload' = payload
      /\ stage' = stage /\ rows' = rows /\ torn' = torn /\ manifests' = manifests
  BY DEF ReadTorn, run_files
<1>2. ReportTyped'
  BY <1>1 DEF ReportInv, ReportTyped
<1>3. \A q \in Runs : RunTold(q)'
  BY <1>1 DEF ReportInv, RunTold
<1>4. Chosen' = Chosen /\ run_dirs' = run_dirs
  BY <1>1 DEF Chosen, run_dirs
<1>5. r \in Chosen
  BY <1>1 DEF ReportInv, Told
<1>6. RaisesOnlyForTorn'
  BY <1>1, <1>4, <1>5 DEF RaisesOnlyForTorn
<1>7. Told'
  BY <1>1, <1>4, <1>6 DEF ReportInv, Told
<1>8. \A q \in Runs : RunRead(q)'
  BY <1>1, <1>4 DEF ReportInv, RunRead
<1> QED
  BY <1>2, <1>3, <1>7, <1>8 DEF ReportInv

(* The report adds up what was read, however it groups it. *)
LEMMA AnswerReportStep ==
  ASSUME ReportInv, NEW group_by, AnswerReport(group_by)
  PROVE  ReportInv'
<1>1. /\ report = "reading" /\ pending = {} /\ report' = "answered"
      /\ payload' = Aggregate(RowsOf(got), group_by)
      /\ pending' = pending /\ got' = got /\ asked_run' = asked_run /\ since' = since
      /\ stage' = stage /\ rows' = rows /\ torn' = torn /\ manifests' = manifests
  BY DEF AnswerReport, run_files
<1>2. ReportTyped'
  BY <1>1 DEF ReportInv, ReportTyped
<1>3. \A q \in Runs : RunTold(q)'
  BY <1>1 DEF ReportInv, RunTold
<1>4. Chosen' = Chosen /\ run_dirs' = run_dirs
  BY <1>1 DEF Chosen, run_dirs
<1>5. payload'.totals = AggregateRows(RowsOf(got))
  <2>1. \A r \in Runs : got[r] \in Seq(Rows)
    BY DEF ReportInv, ReportTyped
  <2>2. \A r \in Runs : got[r] \in Seq(RowType)
    BY <2>1, RowsTyped
  <2>3. got \in [Runs -> Seq(RowType)]
    BY <2>2 DEF ReportInv, ReportTyped
  <2>4. RowsOf(got) \in Seq(RowType)
    BY <2>3, RowsOfTyped
  <2> QED
    BY <1>1, <2>4, GroupsAddUp
<1>6. Told'
  BY <1>1, <1>4, <1>5 DEF ReportInv, Told, RaisesOnlyForTorn
<1>7. \A q \in Runs : RunRead(q)'
  BY <1>1, <1>4 DEF ReportInv, RunRead
<1> QED
  BY <1>2, <1>3, <1>6, <1>7 DEF ReportInv

(* It stays when nothing moves. *)
LEMMA ReportStutters ==
  ASSUME ReportInv, UNCHANGED report_vars
  PROVE  ReportInv'
<1>1. /\ stage' = stage /\ rows' = rows /\ torn' = torn /\ manifests' = manifests
      /\ report' = report /\ asked_run' = asked_run /\ pending' = pending
      /\ got' = got /\ since' = since /\ payload' = payload
  BY DEF report_vars, run_files, report_reader
<1>2. ReportTyped'
  BY <1>1 DEF ReportInv, ReportTyped
<1>3. \A q \in Runs : RunTold(q)'
  BY <1>1 DEF ReportInv, RunTold
<1>4. Chosen' = Chosen /\ run_dirs' = run_dirs
  BY <1>1 DEF Chosen, run_dirs
<1>5. Told'
  BY <1>1, <1>4 DEF ReportInv, Told, RaisesOnlyForTorn
<1>6. \A q \in Runs : RunRead(q)'
  BY <1>1, <1>4 DEF ReportInv, RunRead
<1> QED
  BY <1>2, <1>3, <1>5, <1>6 DEF ReportInv

(* Every step keeps it. *)
LEMMA ReportSteps == ReportInv /\ [ReportNext]_report_vars => ReportInv'
<1> SUFFICES ASSUME ReportInv, [ReportNext]_report_vars PROVE ReportInv'
  OBVIOUS
<1>1. CASE UNCHANGED report_vars
  BY <1>1, ReportStutters
<1>2. CASE ReportNext
  BY <1>2, CommandKeeps, AskReportStep, ReadRunStep, ReadTornStep, AnswerReportStep
     DEF ReportNext, Report
<1> QED
  BY <1>1, <1>2

(* It gives the types, *)
LEMMA ReportTypes == ReportInv => ReportTypeOK
<1> SUFFICES ASSUME ReportInv PROVE ReportTypeOK
  OBVIOUS
<1>1. ASSUME NEW r \in Runs, stage[r] = "none" PROVE rows[r] = <<>> /\ manifests[r] = None
  BY <1>1 DEF ReportInv, RunTold
<1> QED
  BY <1>1 DEF ReportTypeOK, ReportInv, ReportTyped, Told

(* that a report lies between two books, *)
LEMMA ReportIsBounded == ReportInv => ReportBounded
<1> SUFFICES ASSUME ReportInv, report = "answered", payload # None
             PROVE  /\ AtMost(Books(since), payload.totals)
                    /\ AtMost(payload.totals, Books([r \in Runs |-> Len(rows[r])]))
  BY DEF ReportBounded
<1>1. payload.totals = AggregateRows(RowsOf(got)) /\ pending = {}
  BY DEF ReportInv, Told
<1>2. \A r \in Runs : /\ rows[r] \in Seq(RowType) /\ got[r] \in Seq(RowType) /\ since[r] \in Nat
                      /\ Len(rows[r]) \in Nat /\ Len(got[r]) \in Nat
  BY RowsTyped DEF ReportInv, ReportTyped
<1>3. \A r \in Runs : /\ Len(got[r]) <= Len(rows[r]) /\ since[r] <= Len(rows[r])
                      /\ \A n \in 1 .. Len(got[r]) : got[r][n] = rows[r][n]
                      /\ r \notin Chosen => got[r] = <<>>
                      /\ r \in Chosen => since[r] <= Len(got[r])
  BY <1>1 DEF ReportInv, RunRead
<1>4. got \in [Runs -> Seq(RowType)]
  BY <1>2 DEF ReportInv, ReportTyped
<1> DEFINE less == [r \in Runs |-> IF r \in Chosen THEN SubSeq(rows[r], 1, since[r]) ELSE <<>>]
           more == [r \in Runs |->
                     IF r \in Chosen THEN SubSeq(rows[r], 1, [q \in Runs |-> Len(rows[q])][r]) ELSE <<>>]
<1>5. ASSUME NEW r \in Runs
      PROVE  /\ less[r] \in Seq(RowType) /\ more[r] \in Seq(RowType)
             /\ Len(less[r]) <= Len(got[r]) /\ \A n \in 1 .. Len(less[r]) : less[r][n] = got[r][n]
             /\ Len(got[r]) <= Len(more[r]) /\ \A n \in 1 .. Len(got[r]) : got[r][n] = more[r][n]
  <2>1. CASE r \in Chosen
    <3>1. less[r] = SubSeq(rows[r], 1, since[r]) /\ more[r] = SubSeq(rows[r], 1, Len(rows[r]))
      BY <2>1
    <3>2. /\ less[r] \in Seq(RowType) /\ Len(less[r]) = since[r]
          /\ \A n \in 1 .. since[r] : less[r][n] = rows[r][n]
      BY <1>2, <1>3, <3>1
    <3>3. /\ more[r] \in Seq(RowType) /\ Len(more[r]) = Len(rows[r])
          /\ \A n \in 1 .. Len(rows[r]) : more[r][n] = rows[r][n]
      BY <1>2, <1>3, <3>1
    <3> HIDE DEF less, more
    <3>4. Len(less[r]) <= Len(got[r]) /\ \A n \in 1 .. Len(less[r]) : less[r][n] = got[r][n]
      BY <1>2, <1>3, <2>1, <3>2
    <3>5. Len(got[r]) <= Len(more[r]) /\ \A n \in 1 .. Len(got[r]) : got[r][n] = more[r][n]
      BY <1>2, <1>3, <3>3
    <3> QED
      BY <3>2, <3>3, <3>4, <3>5
  <2>2. CASE r \notin Chosen
    <3>1. less[r] = <<>> /\ more[r] = <<>> /\ got[r] = <<>>
      BY <1>3, <2>2
    <3> HIDE DEF less, more
    <3> QED
      BY <3>1
  <2> QED
    BY <2>1, <2>2
<1>6. less \in [Runs -> Seq(RowType)] /\ more \in [Runs -> Seq(RowType)]
  BY <1>5
<1>7. Books(since) = AggregateRows(RowsOf(less))
  BY DEF Books
<1>8. Books([r \in Runs |-> Len(rows[r])]) = AggregateRows(RowsOf(more))
  BY DEF Books
<1> HIDE DEF less, more
<1>9. AtMost(AggregateRows(RowsOf(less)), AggregateRows(RowsOf(got)))
  BY <1>4, <1>5, <1>6, MoreReadAtMost
<1>10. AtMost(AggregateRows(RowsOf(got)), AggregateRows(RowsOf(more)))
  BY <1>4, <1>5, <1>6, MoreReadAtMost
<1> QED
  BY <1>1, <1>7, <1>8, <1>9, <1>10

(* that the books agree with the manifests, *)
LEMMA ReportAgrees == ReportInv => BooksAgree
<1> SUFFICES ASSUME ReportInv, NEW r \in Runs
             PROVE  LET books == Aggregate(rows[r], "none").totals IN
                    /\ ListedCost(r) # None => ListedCost(r) = books.usd
                    /\ TokenUsageFromRows(rows[r]) = books.tokens
  BY DEF BooksAgree
<1>1. rows[r] \in Seq(RowType)
  BY RowsTyped DEF ReportInv, ReportTyped
<1>2. Aggregate(rows[r], "none").totals = AggregateRows(rows[r])
  BY <1>1, GroupsAddUp
<1>3. TokenUsageFromRows(rows[r]) = AggregateRows(rows[r]).tokens
  BY <1>1, TokensOfRows
<1>4. ListedCost(r) # None => ListedCost(r) = AggregateRows(rows[r]).usd
  BY DEF ListedCost, ReportInv, RunTold
<1> QED
  BY <1>2, <1>3, <1>4

(* and what makes a report fail. *)
LEMMA ReportRaises == ReportInv => RaisesOnlyForTorn
BY DEF ReportInv, Told

-----------------------------------------------------------------------------
(* Mining. *)

(* Where a call may be. *)
MiningStages == {"idle", "ready", "waiting", "extracting", "writing", "counting", "done"}

(* What it keeps, *)
CallType ==
  [pc : MiningStages, limit : Limits \union {0}, rest : Seq(ItemType), claims : Seq(ClaimType),
   answer : AnswerType \union {None}]

(* and what it logs. *)
RecordType == [by : Calls, candidate_count : Nat, emitted_path : Seq(STRING) \union {None}]

(* A call that has a run. *)
InRun(c) == call[c].pc \in {"ready", "waiting", "extracting", "writing"}

(* The ranges of the variables; who has a run, and who has answered. *)
MiningTyped ==
  /\ call \in [Calls -> CallType]
  /\ active = [c \in Calls |-> IF InRun(c) THEN c ELSE None]
  /\ log \in [Calls -> Seq(RecordType)]
  /\ \A c \in Calls : (call[c].answer = None) <=> (call[c].pc # "done")

(* The log of c has the rows of its items, which add up to its claims, and *)
(* the row of the file only when that is written.                          *)
CallRows(c) ==
  /\ \A i \in DOMAIN log[c] : log[c][i].by = c
  /\ Counted(log[c]) = Len(call[c].claims)
  /\ \A i \in DOMAIN log[c] : log[c][i].emitted_path # None =>
       /\ call[c].pc \in {"counting", "done"}
       /\ i = Len(log[c]) /\ log[c][i].candidate_count = Counted(log[c])

(* Another call that took these sentences as far as its file.              *)
Rewriting(c) ==
  \E d \in Calls \ {c} :
    call[d].pc \in {"writing", "counting", "done"} /\ TextsOf(call[d].claims) = TextsOf(call[c].claims)

(* The number a call may be told. *)
MayBeTold(c, told) ==
  \/ told = Len(call[c].claims)
  \/ Rewriting(c) /\ (told = 0 \/ told > Len(call[c].claims))

(* The file of a call that has one, and what it was told. *)
CallFile(c) ==
  /\ call[c].pc = "writing" \/ WroteFile(c) => TextsOf(call[c].claims) \in DOMAIN feature_files
  /\ call[c].pc \in {"writing", "counting"} => call[c].claims # <<>>
  /\ call[c].pc = "done" /\ call[c].answer.kind = "ok" => MayBeTold(c, call[c].answer.candidates)

(* The calls that may have written the file of this name, *)
Writers(name) ==
  {d \in Calls : call[d].pc \in {"counting", "done"} /\ TextsOf(call[d].claims) = name}

(* and what is in it: nothing, while or since a call did not write it; or  *)
(* the claims of one of them, with the end of another's behind them if     *)
(* there are two.                                                          *)
FileKept(name) ==
  /\ feature_files[name] = Unwritten =>
       \E d \in Calls : LeftUnwritten(d) /\ TextsOf(call[d].claims) = name
  /\ feature_files[name] # Unwritten =>
       /\ feature_files[name] \in Seq(ClaimType)
       /\ \E d \in Writers(name) :
            /\ IsPrefix(call[d].claims, feature_files[name])
            /\ feature_files[name] = call[d].claims \/ \E e \in Writers(name) : e # d
       /\ \A i \in DOMAIN feature_files[name] :
            \E d \in Writers(name) : feature_files[name][i] \in Range(call[d].claims)

(* The invariant of the mining calls. *)
MiningInv ==
  /\ MiningTyped
  /\ \A name \in DOMAIN feature_files : FileKept(name)
  /\ \A c \in Calls : CallRows(c) /\ CallFile(c)

(* What the extractor and the source yield. *)
LEMMA FlatTyped ==
  ASSUME NEW X, NEW n \in Nat, NEW ss, DOMAIN ss = 1 .. n, \A i \in 1 .. n : ss[i] \in Seq(X),
         ss = [i \in 1 .. n |-> ss[i]]
  PROVE  FlattenSeq(ss) \in Seq(X)
<1>1. ss \in Seq(Seq(X))
  OBVIOUS
<1> QED
  BY <1>1, Flattened DEF FlatUpTo

(* An entry of the feed makes an item, *)
LEMMA SourceItemTyped ==
  ASSUME NEW entry \in PaperType
  PROVE  SourceItem(entry) \in ItemType
BY DEF SourceItem, ItemType, PaperType

(* a feed a sequence of items, *)
LEMMA ItemsTyped ==
  ASSUME NEW feed \in Feeds, NEW limit \in Nat
  PROVE  ItemsOf(feed, limit) \in Seq(ItemType)
<1> DEFINE n == IF limit < Len(feed) THEN limit ELSE Len(feed)
           ss == [i \in 1 .. n |-> IF feed[i] = None THEN <<>> ELSE <<SourceItem(feed[i])>>]
<1>1. feed \in Seq(PaperType \union {None})
  BY MiningAssumption
<1>2. n \in Nat /\ \A i \in 1 .. n : feed[i] \in PaperType \union {None}
  BY <1>1
<1>3. ItemsOf(feed, limit) = FlattenSeq(ss)
  BY DEF ItemsOf
<1>4. \A i \in 1 .. n : ss[i] = IF feed[i] = None THEN <<>> ELSE <<SourceItem(feed[i])>>
  OBVIOUS
<1>5. DOMAIN ss = 1 .. n /\ ss = [i \in 1 .. n |-> ss[i]]
  OBVIOUS
<1> HIDE DEF n, ss
<1>6. ASSUME NEW i \in 1 .. n PROVE ss[i] \in Seq(ItemType)
  <2>1. CASE feed[i] = None
    <3>1. ss[i] = <<>>
      BY <1>4, <2>1
    <3> QED
      BY <3>1
  <2>2. CASE feed[i] # None
    <3>1. SourceItem(feed[i]) \in ItemType
      BY <1>2, <2>2, SourceItemTyped
    <3>2. ss[i] = <<SourceItem(feed[i])>>
      BY <1>4, <2>2
    <3> QED
      BY <3>1, <3>2
  <2> QED
    BY <2>1, <2>2
<1>7. FlattenSeq(ss) \in Seq(ItemType)
  BY <1>2, <1>5, <1>6, FlatTyped
<1> QED
  BY <1>3, <1>7

(* and an item a sequence of claims. *)
LEMMA ExtractTyped ==
  ASSUME NEW item \in ItemType
  PROVE  Extract(item) \in Seq(ClaimType)
<1> DEFINE n == Len(item.text)
           ss == [i \in DOMAIN item.text |->
                   IF item.text[i] \in Recognised THEN <<[text |-> item.text[i], source_item |-> item]>>
                   ELSE <<>>]
<1>1. item.text \in Seq(STRING)
  BY DEF ItemType
<1>2. n \in Nat /\ DOMAIN item.text = 1 .. n /\ \A i \in 1 .. n : item.text[i] \in STRING
  BY <1>1
<1>3. Extract(item) = FlattenSeq(ss)
  BY DEF Extract
<1>4. \A i \in 1 .. n : ss[i] = IF item.text[i] \in Recognised
                                THEN <<[text |-> item.text[i], source_item |-> item]>> ELSE <<>>
  BY <1>2
<1>5. DOMAIN ss = 1 .. n /\ ss = [i \in 1 .. n |-> ss[i]]
  BY <1>2
<1> HIDE DEF n, ss
<1>6. ASSUME NEW i \in 1 .. n PROVE ss[i] \in Seq(ClaimType)
  <2>1. [text |-> item.text[i], source_item |-> item] \in ClaimType
    BY <1>2 DEF ClaimType
  <2>2. CASE item.text[i] \in Recognised
    <3>1. ss[i] = <<[text |-> item.text[i], source_item |-> item]>>
      BY <1>4, <2>2
    <3> QED
      BY <2>1, <3>1
  <2>3. CASE item.text[i] \notin Recognised
    <3>1. ss[i] = <<>>
      BY <1>4, <2>3
    <3> QED
      BY <3>1
  <2> QED
    BY <2>2, <2>3
<1>7. FlattenSeq(ss) \in Seq(ClaimType)
  BY <1>2, <1>5, <1>6, FlatTyped
<1> QED
  BY <1>3, <1>7

(* The texts of claims are as many as the claims. *)
LEMMA TextsTyped ==
  ASSUME NEW claims \in Seq(ClaimType)
  PROVE  TextsOf(claims) \in Seq(STRING) /\ Len(TextsOf(claims)) = Len(claims)
<1>1. \A i \in DOMAIN claims : claims[i].text \in STRING
  <2>1. \A i \in DOMAIN claims : claims[i] \in ClaimType
    OBVIOUS
  <2> QED
    BY <2>1 DEF ClaimType
<1> QED
  BY <1>1 DEF TextsOf

-----------------------------------------------------------------------------
(* f[n] is what the first n rows say of items. *)
Tally(f, records) ==
  /\ f \in [0 .. Len(records) -> Nat]
  /\ f[0] = 0
  /\ \A n \in 1 .. Len(records) :
       f[n] = IF records[n].emitted_path = None THEN f[n - 1] + records[n].candidate_count ELSE f[n - 1]

(* Counted adds up the rows one by one. *)
LEMMA CountsExist ==
  ASSUME NEW records \in Seq(RecordType)
  PROVE  \E f : Tally(f, records) /\ Counted(records) = f[Len(records)]
<1> DEFINE N == Len(records)
           Then(v, n) == IF records[n].emitted_path = None THEN v + records[n].candidate_count ELSE v
           step == [n \in 1 .. N |-> [v \in Nat |-> Then(v, n)]]
           Is(f) == f = [n \in 0 .. N |-> IF n = 0 THEN 0 ELSE Then(f[n - 1], n)]
<1>1. N \in Nat
  OBVIOUS
<1>2. \A n \in 1 .. N : records[n].candidate_count \in Nat
  <2>1. \A n \in 1 .. N : records[n] \in RecordType
    OBVIOUS
  <2> QED
    BY <2>1 DEF RecordType
<1>3. Counted(records) = (CHOOSE f : Is(f))[N]
  BY DEF Counted
<1> HIDE DEF N
<1>4. \A n \in 1 .. N : \A v \in Nat : Then(v, n) \in Nat
  BY <1>2
<1> HIDE DEF Then
<1>5. step \in [1 .. N -> [Nat -> Nat]]
  BY <1>4
<1>6. \A n \in 1 .. N : \A v \in Nat : step[n][v] = Then(v, n)
  OBVIOUS
<1> HIDE DEF step
<1>7. PICK f \in [0 .. N -> Nat] : f[0] = 0 /\ \A n \in 1 .. N : f[n] = step[n][f[n - 1]]
  <2>1. 0 \in Nat
    OBVIOUS
  <2>2. \E f : Recurs(f, Nat, 0, N, step)
    BY <1>1, <1>5, <2>1, Recursion
  <2> QED
    BY <2>2 DEF Recurs
<1>8. \A n \in 1 .. N : n - 1 \in 0 .. N /\ n \in 0 .. N /\ n # 0
  BY <1>1
<1>9. \A n \in 1 .. N : f[n] = Then(f[n - 1], n)
  BY <1>6, <1>7, <1>8
<1>10. Is(f)
  BY <1>1, <1>7, <1>9
<1> DEFINE g == CHOOSE f2 : Is(f2)
<1>11. Is(g)
  BY <1>10
<1> HIDE DEF g
<1>12. DOMAIN g = 0 .. N /\ g[0] = 0
       /\ \A n \in 1 .. N : g[n] = Then(g[n - 1], n)
  BY <1>1, <1>8, <1>11
<1> DEFINE S == {n \in 0 .. N : g[n] \in Nat}
<1>13. ASSUME NEW n \in 1 .. N, n - 1 \in S PROVE n \in S
  <2>1. g[n - 1] \in Nat
    BY <1>13
  <2>2. g[n] \in Nat
    BY <1>12, <1>4, <2>1
  <2> QED
    BY <1>8, <2>2
<1>14. 0 \in S
  BY <1>1, <1>12
<1> HIDE DEF S
<1>15. 0 .. N \subseteq S
  BY <1>1, <1>13, <1>14, Climb
<1>16. g \in [0 .. N -> Nat]
  BY <1>11, <1>15 DEF S
<1> QED
  BY <1>3, <1>12, <1>16 DEF Tally, g, N, Then

(* One more row. *)
LEMMA CountAdded ==
  ASSUME NEW records \in Seq(RecordType), NEW row \in RecordType
  PROVE  /\ Counted(records) \in Nat
         /\ Counted(Append(records, row)) =
              IF row.emitted_path = None THEN Counted(records) + row.candidate_count ELSE Counted(records)
<1> DEFINE N == Len(records)
           more == Append(records, row)
<1>1. N \in Nat /\ more \in Seq(RecordType) /\ Len(more) = N + 1 /\ more[N + 1] = row
      /\ \A n \in 1 .. N : more[n] = records[n]
  OBVIOUS
<1>2. PICK f : Tally(f, records) /\ Counted(records) = f[N]
  BY CountsExist
<1> HIDE DEF more
<1>3. PICK g : Tally(g, more) /\ Counted(more) = g[Len(more)]
  BY <1>1, CountsExist
<1> HIDE DEF N
<1> DEFINE S == {n \in 0 .. N : f[n] = g[n]}
<1>4. 0 \in S
  BY <1>1, <1>2, <1>3 DEF Tally
<1>5. ASSUME NEW n \in 1 .. N, n - 1 \in S PROVE n \in S
  <2>1. n \in 1 .. N + 1 /\ n \in 0 .. N
    BY <1>1
  <2>2. f[n] = IF records[n].emitted_path = None THEN f[n - 1] + records[n].candidate_count ELSE f[n - 1]
    BY <1>2 DEF Tally, N
  <2>3. g[n] = IF more[n].emitted_path = None THEN g[n - 1] + more[n].candidate_count ELSE g[n - 1]
    BY <1>1, <1>3, <2>1 DEF Tally
  <2> QED
    BY <1>1, <1>5, <2>1, <2>2, <2>3
<1> HIDE DEF S
<1>6. 0 .. N \subseteq S
  BY <1>1, <1>4, <1>5, Climb
<1>7. N \in 0 .. N /\ N + 1 \in 1 .. N + 1 /\ (N + 1) - 1 = N
  BY <1>1
<1>8. f[N] = g[N]
  BY <1>6, <1>7 DEF S
<1>9. g[N + 1] = IF row.emitted_path = None THEN g[N] + row.candidate_count ELSE g[N]
  BY <1>1, <1>3, <1>7 DEF Tally
<1>10. f[N] \in Nat
  BY <1>2, <1>7 DEF Tally, N
<1> QED
  BY <1>1, <1>2, <1>3, <1>8, <1>9, <1>10 DEF more

(* No row, nothing found. *)
LEMMA NothingFound == Counted(<<>>) = 0
<1>1. <<>> \in Seq(RecordType) /\ Len(<<>>) = 0
  OBVIOUS
<1> QED
  BY <1>1, CountsExist DEF Tally

-----------------------------------------------------------------------------
(* A call, field by field. *)
LEMMA MiningShape ==
  ASSUME MiningInv, NEW c \in Calls
  PROVE  /\ call[c] \in CallType /\ log[c] \in Seq(RecordType)
         /\ call[c].pc \in MiningStages /\ call[c].limit \in Nat
         /\ call[c].rest \in Seq(ItemType) /\ call[c].claims \in Seq(ClaimType)
         /\ TextsOf(call[c].claims) \in Seq(STRING)
         /\ active[c] = IF InRun(c) THEN c ELSE None
         /\ CallRows(c) /\ CallFile(c)
<1>1. call[c] \in CallType /\ log[c] \in Seq(RecordType)
  BY DEF MiningInv, MiningTyped
<1>2. /\ call[c].pc \in MiningStages /\ call[c].limit \in Limits \union {0}
      /\ call[c].rest \in Seq(ItemType) /\ call[c].claims \in Seq(ClaimType)
  BY <1>1 DEF CallType
<1>3. call[c].limit \in Nat
  <2>1. Limits \subseteq Nat
    BY MiningAssumption
  <2>2. \A l \in Limits \union {0} : l \in Nat
    BY <2>1
  <2> QED
    BY <1>2, <2>2, Zenon
<1>4. TextsOf(call[c].claims) \in Seq(STRING)
  BY <1>2, TextsTyped
<1>5. active[c] = IF InRun(c) THEN c ELSE None
  BY DEF MiningInv, MiningTyped
<1> QED
  BY <1>1, <1>2, <1>3, <1>4, <1>5 DEF MiningInv

(* It holds before the first call. *)
LEMMA MiningStarts == MiningInit => MiningInv
<1> SUFFICES ASSUME MiningInit PROVE MiningInv
  OBVIOUS
<1>1. <<>> \in Seq(ItemType) /\ <<>> \in Seq(ClaimType) /\ <<>> \in Seq(RecordType)
  OBVIOUS
<1>2. NewCall \in CallType /\ NewCall.pc = "idle" /\ NewCall.claims = <<>> /\ NewCall.answer = None
  BY <1>1 DEF NewCall, CallType, MiningStages
<1>3. \A c \in Calls : call[c] = NewCall /\ log[c] = <<>>
  BY DEF MiningInit
<1>4. MiningTyped
  BY <1>1, <1>2, <1>3 DEF MiningInit, MiningTyped, InRun
<1>5. DOMAIN feature_files = {}
  BY DEF MiningInit
<1>6. ASSUME NEW c \in Calls PROVE CallRows(c) /\ CallFile(c)
  <2>1. log[c] = <<>> /\ call[c].pc = "idle" /\ call[c].claims = <<>>
    BY <1>2, <1>3
  <2>2. Len(call[c].claims) = 0 /\ Counted(log[c]) = 0 /\ DOMAIN log[c] = {}
    BY <2>1, NothingFound
  <2> QED
    BY <2>1, <2>2 DEF CallRows, CallFile, WroteFile, At
<1> QED
  BY <1>4, <1>5, <1>6 DEF MiningInv

(* A step of one call, which writes to its own log and drops no file.      *)
LEMMA CallStep ==
  ASSUME MiningInv, NEW c \in Calls, NEW new \in CallType,
         call' = [call EXCEPT ![c] = new],
         active' = [active EXCEPT ![c] =
           IF new.pc \in {"ready", "waiting", "extracting", "writing"} THEN c ELSE None],
         (new.answer = None) <=> (new.pc # "done"),
         log' \in [Calls -> Seq(RecordType)], \A d \in Calls : d # c => log'[d] = log[d],
         call[c].pc \in {"writing", "counting", "done"} =>
           new.pc \in {"writing", "counting", "done"} /\ new.claims = call[c].claims,
         DOMAIN feature_files \subseteq DOMAIN feature_files',
         \A name \in DOMAIN feature_files' : FileKept(name)', CallRows(c)', CallFile(c)'
  PROVE  MiningInv'
<1>1. call \in [Calls -> CallType] /\ call'[c] = new /\ \A d \in Calls : d # c => call'[d] = call[d]
  BY DEF MiningInv, MiningTyped
<1>2. \A d \in Calls : d # c => InRun(d)' = InRun(d)
  BY <1>1 DEF InRun
<1>3. InRun(c)' = (new.pc \in {"ready", "waiting", "extracting", "writing"})
  BY <1>1 DEF InRun
<1>4. active' = [d \in Calls |-> IF InRun(d)' THEN d ELSE None]
  <2>1. active = [d \in Calls |-> IF InRun(d) THEN d ELSE None]
    BY DEF MiningInv, MiningTyped
  <2>2. active' = [d \in Calls |-> IF d = c
           THEN (IF new.pc \in {"ready", "waiting", "extracting", "writing"} THEN c ELSE None)
           ELSE active[d]]
    BY <2>1
  <2>3. ASSUME NEW d \in Calls PROVE active'[d] = IF InRun(d)' THEN d ELSE None
    BY <1>2, <1>3, <2>1, <2>2
  <2> QED
    BY <2>2, <2>3
<1>5. \A d \in Calls : (call'[d].answer = None) <=> (call'[d].pc # "done")
  BY <1>1 DEF MiningInv, MiningTyped
<1>6. call' \in [Calls -> CallType]
  BY <1>1
<1>7. MiningTyped'
  BY <1>4, <1>5, <1>6 DEF MiningTyped
<1>8. ASSUME NEW d \in Calls, d # c PROVE CallRows(d)' /\ CallFile(d)'
  <2>1. call'[d] = call[d] /\ log'[d] = log[d]
    BY <1>1, <1>8
  <2>2. CallRows(d) /\ CallFile(d)
    BY DEF MiningInv
  <2>3. CallRows(d)'
    BY <2>1, <2>2 DEF CallRows
  <2>4. ASSUME Rewriting(d) PROVE Rewriting(d)'
    <3>1. PICK e \in Calls \ {d} :
            /\ call[e].pc \in {"writing", "counting", "done"}
            /\ TextsOf(call[e].claims) = TextsOf(call[d].claims)
      BY <2>4 DEF Rewriting
    <3>2. /\ call'[e].pc \in {"writing", "counting", "done"}
          /\ call'[e].claims = call[e].claims
      BY <1>1, <3>1
    <3> QED
      BY <2>1, <3>1, <3>2 DEF Rewriting
  <2>5. WroteFile(d)' = WroteFile(d) /\ \A told : MayBeTold(d, told) => MayBeTold(d, told)'
    BY <2>1, <2>4 DEF WroteFile, At, MayBeTold
  <2>6. call'[d].pc = "writing" \/ WroteFile(d)' => TextsOf(call'[d].claims) \in DOMAIN feature_files'
    BY <2>1, <2>2, <2>5 DEF CallFile
  <2>7. CallFile(d)'
    BY <2>1, <2>2, <2>5, <2>6 DEF CallFile
  <2> QED
    BY <2>3, <2>7
<1> QED
  BY <1>7, <1>8 DEF MiningInv

(* What another call took to its file stays so. *)
LEMMA RewritingStays ==
  ASSUME MiningInv, NEW c \in Calls, NEW new, call' = [call EXCEPT ![c] = new],
         new.claims = call[c].claims, Rewriting(c)
  PROVE  Rewriting(c)'
<1>1. call \in [Calls -> CallType]
  BY DEF MiningInv, MiningTyped
<1>2. call'[c] = new /\ \A d \in Calls : d # c => call'[d] = call[d]
  BY <1>1
<1> QED
  BY <1>2 DEF Rewriting

(* A file that a step leaves alone is as good after it, if the call stays  *)
(* what it was to that file.                                               *)
LEMMA FileStays ==
  ASSUME MiningInv, NEW c \in Calls, NEW new, call' = [call EXCEPT ![c] = new],
         NEW name \in DOMAIN feature_files, feature_files'[name] = feature_files[name],
         TextsOf(call[c].claims) = name =>
           /\ LeftUnwritten(c) =>
                /\ new.claims = call[c].claims
                /\ new.pc = "writing" \/ (new.pc = "done" /\ new.answer.kind \in {"killed", "raised"})
           /\ call[c].pc \in {"counting", "done"} =>
                new.pc \in {"counting", "done"} /\ new.claims = call[c].claims
  PROVE  FileKept(name)'
<1>1. call'[c] = new /\ \A d \in Calls : d # c => call'[d] = call[d]
  BY DEF MiningInv, MiningTyped
<1>2. FileKept(name)
  BY DEF MiningInv
<1>3. ASSUME NEW d \in Calls, LeftUnwritten(d), TextsOf(call[d].claims) = name
      PROVE  LeftUnwritten(d)' /\ TextsOf(call'[d].claims) = name
  BY <1>1, <1>3 DEF LeftUnwritten, At
<1>4. ASSUME NEW d \in Writers(name)
      PROVE  d \in Writers(name)' /\ call'[d].claims = call[d].claims
  BY <1>1 DEF Writers
<1>5. ASSUME feature_files[name] = Unwritten
      PROVE  \E d \in Calls : LeftUnwritten(d)' /\ TextsOf(call'[d].claims) = name
  BY <1>2, <1>3, <1>5 DEF FileKept
<1>6. ASSUME feature_files[name] # Unwritten
      PROVE  /\ \E d \in Writers(name)' :
                  /\ IsPrefix(call'[d].claims, feature_files[name])
                  /\ feature_files[name] = call'[d].claims \/ \E e \in Writers(name)' : e # d
             /\ \A i \in DOMAIN feature_files[name] :
                  \E d \in Writers(name)' : feature_files[name][i] \in Range(call'[d].claims)
  <2>1. PICK d \in Writers(name) :
          /\ IsPrefix(call[d].claims, feature_files[name])
          /\ feature_files[name] = call[d].claims \/ \E e \in Writers(name) : e # d
    BY <1>2, <1>6 DEF FileKept
  <2>2. /\ IsPrefix(call'[d].claims, feature_files[name])
        /\ feature_files[name] = call'[d].claims \/ \E e \in Writers(name)' : e # d
    BY <1>4, <2>1
  <2>3. ASSUME NEW i \in DOMAIN feature_files[name]
        PROVE  \E e \in Writers(name)' : feature_files[name][i] \in Range(call'[e].claims)
    <3>1. PICK e \in Writers(name) : feature_files[name][i] \in Range(call[e].claims)
      BY <1>2, <1>6 DEF FileKept
    <3> QED
      BY <1>4, <3>1
  <2> QED
    BY <1>4, <2>2, <2>3
<1> QED
  BY <1>2, <1>5, <1>6 DEF FileKept

(* A call ends, and the files are left alone.                              *)
LEMMA EndStep ==
  ASSUME MiningInv, NEW c \in Calls, NEW reply \in AnswerType, EndCall(c, reply),
         UNCHANGED <<log, feature_files>>, call[c].pc # "done",
         reply.kind = "ok" =>
           /\ call[c].pc = "counting" \/ (call[c].pc = "extracting" /\ call[c].claims = <<>>)
           /\ MayBeTold(c, reply.candidates),
         call[c].pc = "writing" => reply.kind \in {"killed", "raised"}
  PROVE  MiningInv'
<1> DEFINE new == [call[c] EXCEPT !.pc = "done", !.answer = reply]
<1>1. call' = [call EXCEPT ![c] = new] /\ active' = [active EXCEPT ![c] = None]
  BY DEF EndCall, Step
<1>2. call[c] \in CallType
  BY MiningShape
<1>3. /\ new \in CallType /\ new.pc = "done" /\ new.answer = reply
      /\ new.claims = call[c].claims
  BY <1>2 DEF CallType, MiningStages
<1> HIDE DEF new
<1>4. reply # None
  BY MiningAssumption
<1>5. log' = log /\ feature_files' = feature_files
  OBVIOUS
<1>6. log' \in [Calls -> Seq(RecordType)]
  BY <1>5 DEF MiningInv, MiningTyped
<1>7. ASSUME NEW name \in DOMAIN feature_files' PROVE FileKept(name)'
  <2>1. LeftUnwritten(c) => call[c].pc = "writing"
    BY DEF LeftUnwritten, At
  <2> QED
    BY <1>1, <1>3, <1>5, <2>1, FileStays
<1>8. call'[c] = new
  BY <1>1 DEF MiningInv, MiningTyped
<1>9. CallRows(c)'
  BY <1>3, <1>5, <1>8, MiningShape DEF CallRows
<1>10. \A told : MayBeTold(c, told) => MayBeTold(c, told)'
  <2>1. Rewriting(c) => Rewriting(c)'
    BY <1>1, <1>3, RewritingStays
  <2> QED
    BY <1>3, <1>8, <2>1 DEF MayBeTold
<1>11. CallFile(c)'
  <2>1. CallFile(c)
    BY DEF MiningInv
  <2>2. WroteFile(c)' => WroteFile(c) /\ call[c].pc = "counting"
    BY <1>3, <1>8, <2>1 DEF WroteFile, At, CallFile
  <2> QED
    BY <1>3, <1>5, <1>8, <1>10, <2>1, <2>2 DEF CallFile
<1>12. active' = [active EXCEPT ![c] =
         IF new.pc \in {"ready", "waiting", "extracting", "writing"} THEN c ELSE None]
  BY <1>1, <1>3
<1> QED
  BY <1>1, <1>3, <1>4, <1>5, <1>6, <1>7, <1>9, <1>11, <1>12, CallStep

(* A call goes on before it has claims, and writes nothing.                *)
LEMMA GoOnStep ==
  ASSUME MiningInv, NEW c \in Calls, NEW new \in CallType, call' = [call EXCEPT ![c] = new],
         active' = [active EXCEPT ![c] = c], UNCHANGED <<log, feature_files>>,
         call[c].pc \in {"idle", "ready", "waiting"},
         new.pc \in {"ready", "waiting", "extracting"},
         new.claims = call[c].claims, new.answer = None
  PROVE  MiningInv'
<1>1. log' = log /\ feature_files' = feature_files
  OBVIOUS
<1>2. log' \in [Calls -> Seq(RecordType)]
  BY <1>1 DEF MiningInv, MiningTyped
<1>3. ASSUME NEW name \in DOMAIN feature_files' PROVE FileKept(name)'
  <2>1. ~LeftUnwritten(c)
    BY DEF LeftUnwritten, At
  <2> QED
    BY <1>1, <2>1, FileStays
<1>4. call'[c] = new
  BY DEF MiningInv, MiningTyped
<1>5. CallRows(c)'
  BY <1>1, <1>4, MiningShape DEF CallRows
<1>6. CallFile(c)'
  BY <1>4 DEF CallFile, WroteFile, At
<1>7. active' = [active EXCEPT ![c] =
        IF new.pc \in {"ready", "waiting", "extracting", "writing"} THEN c ELSE None]
  OBVIOUS
<1> QED
  BY <1>1, <1>2, <1>3, <1>5, <1>6, <1>7, CallStep

(* While a call runs nobody but itself has put a run on its task.          *)
LEMMA OwnLog ==
  ASSUME MiningInv, NEW c \in Calls, InRun(c), NEW record, MiningLog(c, record)
  PROVE  log' = [log EXCEPT ![c] = Append(@, record)] /\ active[c] = c
<1>1. active[c] = c /\ c # None
  BY MiningShape, MiningAssumption
<1> QED
  BY <1>1 DEF MiningLog, MiningRun

(* To set a run that is set changes nothing. *)
LEMMA ActiveStays ==
  ASSUME MiningInv, NEW c \in Calls
  PROVE  (active[c] = c => active = [active EXCEPT ![c] = c])
BY DEF MiningInv, MiningTyped

(* One item more: its row and its claims. *)
LEMMA ExtractStep ==
  ASSUME MiningInv, NEW c \in Calls, ExtractNext(c)
  PROVE  MiningInv'
<1> DEFINE item == Head(call[c].rest)
           found == Extract(item)
           new == [call[c] EXCEPT !.rest = Tail(@), !.claims = @ \o found]
           row == [by |-> c, candidate_count |-> Len(found), emitted_path |-> None]
<1>1. /\ call[c].pc = "extracting" /\ call[c].rest # <<>>
      /\ call' = [call EXCEPT ![c] = new] /\ MiningLog(c, row)
      /\ active' = active /\ feature_files' = feature_files
  BY DEF ExtractNext, At, Step
<1>2. /\ call[c] \in CallType /\ call[c].rest \in Seq(ItemType) /\ call[c].claims \in Seq(ClaimType)
      /\ log[c] \in Seq(RecordType) /\ CallRows(c)
  BY MiningShape
<1>3. item \in ItemType /\ Tail(call[c].rest) \in Seq(ItemType)
  BY <1>1, <1>2
<1>4. found \in Seq(ClaimType)
  BY <1>3, ExtractTyped
<1> HIDE DEF item, found
<1>5. call[c].claims \o found \in Seq(ClaimType)
      /\ Len(call[c].claims \o found) = Len(call[c].claims) + Len(found) /\ Len(found) \in Nat
  BY <1>2, <1>4
<1>6. /\ new \in CallType /\ new.pc = call[c].pc /\ new.answer = call[c].answer
      /\ new.claims = call[c].claims \o found
  BY <1>2, <1>3, <1>5 DEF CallType
<1>7. row \in RecordType /\ row.by = c /\ row.candidate_count = Len(found) /\ row.emitted_path = None
  BY <1>5 DEF RecordType
<1> HIDE DEF new, row
<1>8. InRun(c)
  BY <1>1 DEF InRun
<1>9. log' = [log EXCEPT ![c] = Append(@, row)] /\ active[c] = c
  BY <1>1, <1>8, OwnLog
<1>10. log \in [Calls -> Seq(RecordType)]
  BY DEF MiningInv, MiningTyped
<1>11. log'[c] = Append(log[c], row) /\ Append(log[c], row) \in Seq(RecordType)
  BY <1>2, <1>7, <1>9, <1>10
<1>12. log' \in [Calls -> Seq(RecordType)] /\ \A d \in Calls : d # c => log'[d] = log[d]
  BY <1>9, <1>10, <1>11
<1>13. call'[c] = new
  BY <1>1 DEF MiningInv, MiningTyped
<1>14. CallRows(c)'
  <2>1. Counted(log'[c]) = Len(new.claims)
    <3>1. Counted(log'[c]) = Counted(log[c]) + Len(found)
      BY <1>2, <1>7, <1>11, CountAdded
    <3>2. Counted(log[c]) = Len(call[c].claims)
      BY <1>2 DEF CallRows
    <3> QED
      BY <1>5, <1>6, <3>1, <3>2
  <2>2. \A i \in DOMAIN log[c] : log[c][i].by = c /\ log[c][i].emitted_path = None
    BY <1>1, <1>2 DEF CallRows
  <2>3. \A i \in DOMAIN log'[c] : \/ i = Len(log'[c]) /\ log'[c][i] = row
                                  \/ i \in DOMAIN log[c] /\ log'[c][i] = log[c][i]
    BY <1>2, <1>7, <1>11
  <2>4. \A i \in DOMAIN log'[c] : log'[c][i].by = c /\ log'[c][i].emitted_path = None
    BY <1>7, <2>2, <2>3
  <2> QED
    BY <1>13, <2>1, <2>4 DEF CallRows
<1>15. CallFile(c)'
  BY <1>1, <1>6, <1>13 DEF CallFile, WroteFile, At
<1>16. ASSUME NEW name \in DOMAIN feature_files' PROVE FileKept(name)'
  <2>1. ~LeftUnwritten(c)
    BY <1>1 DEF LeftUnwritten, At
  <2> QED
    BY <1>1, <2>1, FileStays
<1>17. active' = [active EXCEPT ![c] =
         IF new.pc \in {"ready", "waiting", "extracting", "writing"} THEN c ELSE None]
  <2>1. active = [active EXCEPT ![c] = c]
    BY <1>9, ActiveStays
  <2> QED
    BY <1>1, <1>6, <2>1
<1>18. (new.answer = None) <=> (new.pc # "done")
  BY <1>6 DEF MiningInv, MiningTyped
<1> QED
  BY <1>1, <1>6, <1>12, <1>14, <1>15, <1>16, <1>17, <1>18, CallStep

(* The file is opened, and is empty for whoever counts in it. *)
LEMMA OpenStep ==
  ASSUME MiningInv, NEW c \in Calls, OpenFeature(c)
  PROVE  MiningInv'
<1> DEFINE new == [call[c] EXCEPT !.pc = "writing"]
           name == TextsOf(call[c].claims)
<1>1. /\ call[c].pc = "extracting" /\ call[c].claims # <<>> /\ call' = [call EXCEPT ![c] = new]
      /\ active' = active /\ log' = log
      /\ feature_files' = [n \in DOMAIN feature_files \union {name} |->
           IF n = name THEN Unwritten ELSE feature_files[n]]
  BY DEF OpenFeature, At, Step, Put, FileName
<1>2. call[c] \in CallType /\ CallRows(c) /\ active[c] = IF InRun(c) THEN c ELSE None
  BY MiningShape
<1>3. /\ new \in CallType /\ new.pc = "writing" /\ new.answer = call[c].answer
      /\ new.claims = call[c].claims
  BY <1>2 DEF CallType, MiningStages
<1> HIDE DEF new, name
<1>4. call'[c] = new
  BY <1>1 DEF MiningInv, MiningTyped
<1>5. log' \in [Calls -> Seq(RecordType)]
  BY <1>1 DEF MiningInv, MiningTyped
<1>6. /\ DOMAIN feature_files' = DOMAIN feature_files \union {name}
      /\ feature_files'[name] = Unwritten
      /\ \A n \in DOMAIN feature_files : n # name => feature_files'[n] = feature_files[n]
  BY <1>1
<1>7. ASSUME NEW n \in DOMAIN feature_files' PROVE FileKept(n)'
  <2>1. CASE n = name
    <3>1. LeftUnwritten(c)' /\ TextsOf(call'[c].claims) = name
      BY <1>3, <1>4 DEF LeftUnwritten, At, name
    <3> QED
      BY <1>6, <2>1, <3>1 DEF FileKept
  <2>2. CASE n # name
    <3>1. n \in DOMAIN feature_files /\ feature_files'[n] = feature_files[n]
      BY <1>6, <2>2
    <3>2. ~LeftUnwritten(c)
      BY <1>1 DEF LeftUnwritten, At
    <3> QED
      BY <1>1, <3>1, <3>2, FileStays
  <2> QED
    BY <2>1, <2>2
<1>8. CallRows(c)'
  BY <1>1, <1>2, <1>3, <1>4 DEF CallRows
<1>9. CallFile(c)'
  BY <1>1, <1>3, <1>4, <1>6 DEF CallFile, WroteFile, At, name
<1>10. active' = [active EXCEPT ![c] =
         IF new.pc \in {"ready", "waiting", "extracting", "writing"} THEN c ELSE None]
  <2>1. active[c] = c
    BY <1>1, <1>2 DEF InRun
  <2>2. active = [active EXCEPT ![c] = c]
    BY <2>1, ActiveStays
  <2> QED
    BY <1>1, <1>3, <2>2
<1>11. (new.answer = None) <=> (new.pc # "done")
  BY <1>1, <1>3 DEF MiningInv, MiningTyped
<1> QED
  BY <1>1, <1>3, <1>5, <1>6, <1>7, <1>8, <1>9, <1>10, <1>11, CallStep

(* Claims with others' behind them. *)
LEMMA Behind ==
  ASSUME NEW S, NEW front \in Seq(S), NEW back \in Seq(S)
  PROVE  /\ front \o back \in Seq(S)
         /\ IsPrefix(front, front \o back)
         /\ \A i \in DOMAIN (front \o back) :
              (front \o back)[i] \in Range(front) \union Range(back)
<1> DEFINE all == front \o back
<1>1. /\ all \in Seq(S) /\ Len(all) = Len(front) + Len(back)
      /\ \A i \in 1 .. Len(front) : all[i] = front[i]
      /\ \A i \in 1 .. Len(back) : all[Len(front) + i] = back[i]
  OBVIOUS
<1>2. SubSeq(all, 1, Len(front)) = SubSeq(front, 1, Len(front))
  BY <1>1
<1>3. ASSUME NEW i \in DOMAIN all PROVE all[i] \in Range(front) \union Range(back)
  <2>1. i \in 1 .. Len(front) \/ (i - Len(front) \in 1 .. Len(back) /\ i = Len(front) + (i - Len(front)))
    BY <1>1
  <2>2. all[i] = front[i] \/ all[i] = back[i - Len(front)]
    BY <1>1, <2>1
  <2> QED
    BY <1>1, <2>1 DEF Range
<1> QED
  BY <1>1, <1>2, <1>3 DEF IsPrefix

(* The end of a sequence has its elements. *)
LEMMA EndOf ==
  ASSUME NEW S, NEW s \in Seq(S), NEW k \in 2 .. Len(s)
  PROVE  SubSeq(s, k, Len(s)) \in Seq(S) /\ Range(SubSeq(s, k, Len(s))) \subseteq Range(s)
<1>1. /\ SubSeq(s, k, Len(s)) \in Seq(S) /\ Len(SubSeq(s, k, Len(s))) = Len(s) - k + 1
      /\ \A i \in 1 .. Len(s) - k + 1 : SubSeq(s, k, Len(s))[i] = s[k + i - 1]
  OBVIOUS
<1>2. \A i \in 1 .. Len(s) - k + 1 : k + i - 1 \in DOMAIN s
  OBVIOUS
<1> QED
  BY <1>1, <1>2 DEF Range

(* What is written is the call's claims, alone or before the end of what   *)
(* another has written.                                                    *)
LEMMA WrittenIs ==
  ASSUME MiningInv, NEW c \in Calls, call[c].pc = "writing",
         TextsOf(call[c].claims) \in DOMAIN feature_files,
         NEW content \in WrittenOver(feature_files[TextsOf(call[c].claims)], call[c].claims)
  PROVE  /\ content \in Seq(ClaimType) /\ IsPrefix(call[c].claims, content)
         /\ content = call[c].claims \/ Writers(TextsOf(call[c].claims)) # {}
         /\ \A i \in DOMAIN content :
              \E d \in Writers(TextsOf(call[c].claims)) \union {c} : content[i] \in Range(call[d].claims)
<1> DEFINE claims == call[c].claims
           name == TextsOf(claims)
           old == feature_files[name]
<1>1. claims \in Seq(ClaimType) /\ name \in DOMAIN feature_files
  BY MiningShape
<1>2. FileKept(name)
  BY <1>1 DEF MiningInv
<1>3. CASE content = claims
  <2>1. IsPrefix(claims, claims)
    BY <1>1 DEF IsPrefix
  <2>2. \A i \in DOMAIN claims : claims[i] \in Range(claims)
    BY DEF Range
  <2> QED
    BY <1>1, <1>3, <2>1, <2>2
<1>4. ASSUME old # Unwritten, NEW k \in 2 .. Len(old), content = claims \o SubSeq(old, k, Len(old))
      PROVE  /\ content \in Seq(ClaimType) /\ IsPrefix(claims, content)
             /\ Writers(name) # {}
             /\ \A i \in DOMAIN content :
                  \E d \in Writers(name) \union {c} : content[i] \in Range(call[d].claims)
  <2>1. /\ old \in Seq(ClaimType) /\ Writers(name) # {}
        /\ \A i \in DOMAIN old : \E d \in Writers(name) : old[i] \in Range(call[d].claims)
    BY <1>2, <1>4 DEF FileKept
  <2> DEFINE end == SubSeq(old, k, Len(old))
  <2>2. end \in Seq(ClaimType) /\ Range(end) \subseteq Range(old)
    BY <1>4, <2>1, EndOf
  <2> HIDE DEF end, old, name, claims
  <2>3. /\ content \in Seq(ClaimType) /\ IsPrefix(claims, content)
        /\ \A i \in DOMAIN content : content[i] \in Range(claims) \union Range(end)
    BY <1>1, <1>4, <2>2, Behind DEF end
  <2>4. \A x \in Range(old) : \E d \in Writers(name) : x \in Range(call[d].claims)
    BY <2>1 DEF Range
  <2>5. ASSUME NEW i \in DOMAIN content
        PROVE  \E d \in Writers(name) \union {c} : content[i] \in Range(call[d].claims)
    <3>1. content[i] \in Range(claims) \/ content[i] \in Range(old)
      BY <2>2, <2>3
    <3> QED
      BY <2>4, <3>1 DEF claims
  <2> QED
    BY <2>1, <2>3, <2>5
<1>5. content = claims \/ (old # Unwritten /\ \E k \in 2 .. Len(old) : content = claims \o SubSeq(old, k, Len(old)))
  BY DEF WrittenOver
<1> QED
  BY <1>3, <1>4, <1>5

(* The file is written, and the last row. *)
LEMMA WriteStep ==
  ASSUME MiningInv, NEW c \in Calls, WriteFeature(c)
  PROVE  MiningInv'
<1> DEFINE new == [call[c] EXCEPT !.pc = "counting"]
           claims == call[c].claims
           name == TextsOf(claims)
           row == [by |-> c, candidate_count |-> Len(claims), emitted_path |-> name]
<1>1. /\ call[c].pc = "writing" /\ call' = [call EXCEPT ![c] = new]
      /\ active' = [active EXCEPT ![c] = None] /\ MiningLog(c, row)
      /\ \E content \in WrittenOver(feature_files[name], claims) :
           feature_files' = [n \in DOMAIN feature_files \union {name} |->
             IF n = name THEN content ELSE feature_files[n]]
  BY DEF WriteFeature, At, Step, Put, FileName
<1>2. /\ call[c] \in CallType /\ CallRows(c) /\ CallFile(c)
      /\ log[c] \in Seq(RecordType) /\ claims \in Seq(ClaimType) /\ name \in Seq(STRING)
  BY MiningShape
<1>3. /\ new \in CallType /\ new.pc = "counting" /\ new.answer = call[c].answer
      /\ new.claims = claims
  BY <1>2 DEF CallType, MiningStages
<1>4. row \in RecordType /\ row.by = c /\ row.candidate_count = Len(claims) /\ row.emitted_path = name
  BY <1>2 DEF RecordType
<1>5. name # None
  BY <1>2, MiningAssumption
<1>6. name \in DOMAIN feature_files /\ claims # <<>>
  BY <1>1, <1>2 DEF CallFile
<1>7. name = TextsOf(claims)
  OBVIOUS
<1>8. claims = call[c].claims
  OBVIOUS
<1> HIDE DEF new, name, row, claims
<1>9. call'[c] = new
  BY <1>1 DEF MiningInv, MiningTyped
<1>10. InRun(c)
  BY <1>1 DEF InRun
<1>11. log' = [log EXCEPT ![c] = Append(@, row)]
  BY <1>1, <1>10, OwnLog
<1>12. log \in [Calls -> Seq(RecordType)]
  BY DEF MiningInv, MiningTyped
<1>13. log'[c] = Append(log[c], row) /\ Append(log[c], row) \in Seq(RecordType)
  BY <1>2, <1>4, <1>11, <1>12
<1>14. log' \in [Calls -> Seq(RecordType)] /\ \A d \in Calls : d # c => log'[d] = log[d]
  BY <1>11, <1>12, <1>13
<1>15. CallRows(c)'
  <2>1. Counted(log[c]) = Len(claims)
    BY <1>2, <1>8 DEF CallRows
  <2>2. Counted(log'[c]) = Counted(log[c])
    BY <1>2, <1>4, <1>5, <1>13, CountAdded
  <2>3. \A i \in DOMAIN log[c] : log[c][i].by = c /\ log[c][i].emitted_path = None
    BY <1>1, <1>2 DEF CallRows
  <2>4. \A i \in DOMAIN log'[c] : \/ i = Len(log'[c]) /\ log'[c][i] = row
                                  \/ i \in DOMAIN log[c] /\ log'[c][i] = log[c][i]
    BY <1>2, <1>4, <1>13
  <2>5. \A i \in DOMAIN log'[c] :
          /\ log'[c][i].by = c
          /\ log'[c][i].emitted_path # None =>
               i = Len(log'[c]) /\ log'[c][i].candidate_count = Len(claims)
    BY <1>4, <2>3, <2>4
  <2> QED
    BY <1>3, <1>9, <2>1, <2>2, <2>5 DEF CallRows
<1>16. PICK content \in WrittenOver(feature_files[name], claims) :
         /\ DOMAIN feature_files' = DOMAIN feature_files
         /\ feature_files'[name] = content
         /\ \A n \in DOMAIN feature_files : n # name => feature_files'[n] = feature_files[n]
  BY <1>1, <1>6
<1>17. ASSUME NEW n \in DOMAIN feature_files' PROVE FileKept(n)'
  <2>1. CASE n = name
    <3>1. /\ content \in Seq(ClaimType) /\ IsPrefix(claims, content)
          /\ content = claims \/ Writers(n) # {}
          /\ \A i \in DOMAIN content :
               \E d \in Writers(n) \union {c} : content[i] \in Range(call[d].claims)
      BY <1>1, <1>6, <1>7, <1>8, <1>16, <2>1, WrittenIs
    <3>2. content # Unwritten
      BY <3>1, MiningAssumption
    <3>3. c \in Writers(n)' /\ call'[c].claims = claims
      BY <1>3, <1>7, <1>9, <2>1 DEF Writers
    <3>4. ASSUME NEW d \in Writers(n)
          PROVE  d \in Writers(n)' /\ call'[d].claims = call[d].claims /\ d # c
      <4>1. d # c
        BY <1>1 DEF Writers
      <4>2. d \in Calls /\ call'[d] = call[d]
        BY <1>1, <4>1 DEF MiningInv, MiningTyped, Writers
      <4> QED
        BY <4>1, <4>2 DEF Writers
    <3>5. content = claims \/ \E e \in Writers(n)' : e # c
      BY <3>1, <3>4
    <3>6. \A i \in DOMAIN content : \E d \in Writers(n)' : content[i] \in Range(call'[d].claims)
      <4> SUFFICES ASSUME NEW i \in DOMAIN content
                   PROVE  \E d \in Writers(n)' : content[i] \in Range(call'[d].claims)
        OBVIOUS
      <4>1. PICK d \in Writers(n) \union {c} : content[i] \in Range(call[d].claims)
        BY <3>1
      <4> QED
        BY <1>8, <3>3, <3>4, <4>1
    <3> QED
      BY <1>16, <2>1, <3>1, <3>2, <3>3, <3>5, <3>6 DEF FileKept
  <2>2. CASE n # name
    <3>1. n \in DOMAIN feature_files /\ feature_files'[n] = feature_files[n]
      BY <1>16, <2>2
    <3> QED
      BY <1>1, <1>7, <1>8, <2>2, <3>1, FileStays
  <2> QED
    BY <2>1, <2>2
<1>18. CallFile(c)'
  BY <1>3, <1>6, <1>7, <1>9, <1>16 DEF CallFile
<1>19. active' = [active EXCEPT ![c] =
         IF new.pc \in {"ready", "waiting", "extracting", "writing"} THEN c ELSE None]
  BY <1>1, <1>3
<1>20. (new.answer = None) <=> (new.pc # "done")
  BY <1>1, <1>3 DEF MiningInv, MiningTyped
<1> QED
  BY <1>1, <1>3, <1>6, <1>8, <1>14, <1>15, <1>16, <1>17, <1>18, <1>19, <1>20, CallStep

(* The candidates are counted in the file. *)
LEMMA CountStep ==
  ASSUME MiningInv, NEW c \in Calls, CountCandidates(c)
  PROVE  MiningInv'
<1> DEFINE claims == call[c].claims
           name == TextsOf(claims)
           emitted == feature_files[name]
           told == IF emitted = Unwritten THEN 0 ELSE Len(emitted)
           reply == [kind |-> "ok", candidates |-> told]
<1>1. call[c].pc = "counting" /\ EndCall(c, reply) /\ UNCHANGED <<log, feature_files>>
  BY DEF CountCandidates, At, FileName
<1>2. claims \in Seq(ClaimType) /\ CallFile(c)
  BY MiningShape
<1>3. name \in DOMAIN feature_files
  BY <1>1, <1>2 DEF CallFile, WroteFile, At
<1>4. FileKept(name)
  BY <1>3 DEF MiningInv
<1>5. ASSUME NEW d \in Calls, d # c, LeftUnwritten(d) \/ d \in Writers(name), TextsOf(call[d].claims) = name
      PROVE  Rewriting(c)
  BY <1>5 DEF Rewriting, LeftUnwritten, At, Writers
<1>6. told \in Nat /\ MayBeTold(c, told)
  <2>1. CASE emitted = Unwritten
    <3>1. PICK d \in Calls : LeftUnwritten(d) /\ TextsOf(call[d].claims) = name
      BY <1>4, <2>1 DEF FileKept
    <3>2. d # c
      BY <1>1, <3>1 DEF LeftUnwritten, At
    <3> QED
      BY <1>5, <2>1, <3>1, <3>2 DEF MayBeTold
  <2>2. CASE emitted # Unwritten
    <3>1. PICK d \in Writers(name) :
            /\ IsPrefix(call[d].claims, emitted)
            /\ emitted = call[d].claims \/ \E e \in Writers(name) : e # d
      BY <1>4, <2>2 DEF FileKept
    <3>2. emitted \in Seq(ClaimType)
      BY <1>4, <2>2 DEF FileKept
    <3>3. \A e \in Writers(name) : e \in Calls /\ TextsOf(call[e].claims) = name
      BY DEF Writers
    <3>4. Len(call[d].claims) = Len(claims) /\ Len(claims) \in Nat
      <4>1. call[d].claims \in Seq(ClaimType)
        BY <3>3, MiningShape
      <4> QED
        BY <1>2, <3>3, <4>1, TextsTyped
    <3> HIDE DEF emitted, name, claims
    <3>5. told = Len(emitted) /\ Len(emitted) \in Nat /\ Len(emitted) >= Len(claims)
      BY <2>2, <3>1, <3>2, <3>4 DEF IsPrefix
    <3>6. CASE Len(emitted) = Len(claims)
      BY <3>5, <3>6 DEF MayBeTold, claims
    <3>7. CASE Len(emitted) # Len(claims)
      <4>1. PICK e \in Writers(name) : e # c
        BY <3>1, <3>4, <3>7
      <4>2. Rewriting(c)
        BY <1>5, <3>3, <4>1
      <4>3. told > Len(claims)
        BY <3>4, <3>5, <3>7
      <4> QED
        BY <3>5, <4>2, <4>3 DEF MayBeTold, claims
    <3> QED
      BY <3>6, <3>7
  <2> QED
    BY <2>1, <2>2
<1> HIDE DEF told, emitted, name, claims
<1>7. reply \in AnswerType /\ reply.candidates = told
  BY <1>6 DEF AnswerType
<1> HIDE DEF reply
<1> QED
  BY <1>1, <1>6, <1>7, EndStep

(* The other ends of a call.                                               *)
LEMMA FailureTyped ==
  ASSUME NEW kind \in {"gated", "refused", "http", "raised", "killed"}
  PROVE  Failure(kind) \in AnswerType /\ Failure(kind).kind # "ok"
BY DEF Failure, AnswerType

(* A call that fails, *)
LEMMA FailedStep ==
  ASSUME MiningInv, NEW c \in Calls, NEW kind \in {"gated", "refused", "http", "raised", "killed"},
         EndCall(c, Failure(kind)), UNCHANGED <<log, feature_files>>, call[c].pc # "done",
         call[c].pc = "writing" => kind \in {"killed", "raised"}
  PROVE  MiningInv'
<1>1. Failure(kind) \in AnswerType /\ Failure(kind).kind = kind
  BY FailureTyped DEF Failure
<1> QED
  BY <1>1, EndStep

(* one that found nothing, *)
LEMMA NoClaimsStep ==
  ASSUME MiningInv, NEW c \in Calls, NoClaims(c)
  PROVE  MiningInv'
<1> DEFINE reply == [kind |-> "ok", candidates |-> 0]
<1>1. /\ call[c].pc = "extracting" /\ call[c].claims = <<>> /\ EndCall(c, reply)
      /\ UNCHANGED <<log, feature_files>>
  BY DEF NoClaims, At
<1>2. reply \in AnswerType /\ reply.candidates = 0
  BY DEF AnswerType
<1> HIDE DEF reply
<1>3. MayBeTold(c, reply.candidates)
  BY <1>1, <1>2 DEF MayBeTold
<1> QED
  BY <1>1, <1>2, <1>3, EndStep

(* and the steps before there is a claim. *)
LEMMA EarlyStep ==
  ASSUME MiningInv, NEW c \in Calls,
         \/ \E limit \in Limits : StartMining(c, limit)
         \/ NothingAsked(c) \/ Request(c)
         \/ \E feed \in Feeds : Respond(c, feed)
  PROVE  MiningInv'
<1>1. /\ call[c] \in CallType /\ call[c].limit \in Nat
      /\ active[c] = IF InRun(c) THEN c ELSE None
  BY MiningShape
<1>2. (call[c].answer = None) <=> (call[c].pc # "done")
  BY DEF MiningInv, MiningTyped
<1>3. ASSUME NEW limit \in Limits, StartMining(c, limit) PROVE MiningInv'
  <2> DEFINE new == [call[c] EXCEPT !.pc = "ready", !.limit = limit]
  <2>1. /\ call[c].pc = "idle" /\ call' = [call EXCEPT ![c] = new]
        /\ active' = [active EXCEPT ![c] = c] /\ UNCHANGED <<log, feature_files>>
    BY <1>3 DEF StartMining, At, Step
  <2>2. /\ new \in CallType /\ new.pc = "ready" /\ new.claims = call[c].claims
        /\ new.answer = call[c].answer
    BY <1>1 DEF CallType, MiningStages
  <2> HIDE DEF new
  <2> QED
    BY <1>2, <2>1, <2>2, GoOnStep
<1>4. CASE NothingAsked(c)
  <2> DEFINE new == [call[c] EXCEPT !.pc = "extracting"]
  <2>1. /\ call[c].pc = "ready" /\ call' = [call EXCEPT ![c] = new]
        /\ active' = active /\ UNCHANGED <<log, feature_files>>
    BY <1>4 DEF NothingAsked, At, Step
  <2>2. /\ new \in CallType /\ new.pc = "extracting" /\ new.claims = call[c].claims
        /\ new.answer = call[c].answer
    BY <1>1 DEF CallType, MiningStages
  <2>3. active = [active EXCEPT ![c] = c]
    BY <1>1, <2>1, ActiveStays DEF InRun
  <2> HIDE DEF new
  <2> QED
    BY <1>2, <2>1, <2>2, <2>3, GoOnStep
<1>5. CASE Request(c)
  <2> DEFINE new == [call[c] EXCEPT !.pc = "waiting"]
  <2>1. /\ call[c].pc = "ready" /\ call' = [call EXCEPT ![c] = new]
        /\ active' = active /\ UNCHANGED <<log, feature_files>>
    BY <1>5 DEF Request, At, Step
  <2>2. /\ new \in CallType /\ new.pc = "waiting" /\ new.claims = call[c].claims
        /\ new.answer = call[c].answer
    BY <1>1 DEF CallType, MiningStages
  <2>3. active = [active EXCEPT ![c] = c]
    BY <1>1, <2>1, ActiveStays DEF InRun
  <2> HIDE DEF new
  <2> QED
    BY <1>2, <2>1, <2>2, <2>3, GoOnStep
<1>6. ASSUME NEW feed \in Feeds, Respond(c, feed) PROVE MiningInv'
  <2> DEFINE items == ItemsOf(feed, call[c].limit)
             new == [call[c] EXCEPT !.pc = "extracting", !.rest = items]
  <2>1. /\ call[c].pc = "waiting" /\ call' = [call EXCEPT ![c] = new]
        /\ active' = active /\ UNCHANGED <<log, feature_files>>
    BY <1>6 DEF Respond, At, Step
  <2>2. items \in Seq(ItemType)
    BY <1>1, ItemsTyped
  <2> HIDE DEF items
  <2>3. /\ new \in CallType /\ new.pc = "extracting" /\ new.claims = call[c].claims
        /\ new.answer = call[c].answer
    BY <1>1, <2>2 DEF CallType, MiningStages
  <2>4. active = [active EXCEPT ![c] = c]
    BY <1>1, <2>1, ActiveStays DEF InRun
  <2> HIDE DEF new
  <2> QED
    BY <1>2, <2>1, <2>3, <2>4, GoOnStep
<1> QED
  BY <1>3, <1>4, <1>5, <1>6

(* It stays when nothing moves. *)
LEMMA MiningStutters ==
  ASSUME MiningInv, UNCHANGED mining_vars
  PROVE  MiningInv'
<1>1. call' = call /\ active' = active /\ log' = log /\ feature_files' = feature_files
  BY DEF mining_vars
<1>2. \A c \in Calls : /\ InRun(c)' = InRun(c) /\ Rewriting(c)' = Rewriting(c)
                          /\ WroteFile(c)' = WroteFile(c) /\ LeftUnwritten(c)' = LeftUnwritten(c)
  BY <1>1 DEF InRun, Rewriting, WroteFile, LeftUnwritten, At
<1>3. MiningTyped'
  BY <1>1, <1>2 DEF MiningInv, MiningTyped
<1>4. ASSUME NEW name \in DOMAIN feature_files PROVE FileKept(name)'
  <2>1. FileKept(name) /\ Writers(name)' = Writers(name)
    BY <1>1 DEF MiningInv, Writers
  <2> QED
    BY <1>1, <1>2, <2>1 DEF FileKept
<1>5. \A c \in Calls : CallRows(c)' /\ CallFile(c)'
  BY <1>1, <1>2 DEF MiningInv, CallRows, CallFile, MayBeTold
<1> QED
  BY <1>1, <1>3, <1>4, <1>5 DEF MiningInv

(* Every step keeps it. *)
LEMMA MiningSteps == MiningInv /\ [MiningNext]_mining_vars => MiningInv'
<1> SUFFICES ASSUME MiningInv, [MiningNext]_mining_vars PROVE MiningInv'
  OBVIOUS
<1>1. CASE UNCHANGED mining_vars
  BY <1>1, MiningStutters
<1>2. ASSUME NEW c \in Calls,
             Gate(c) \/ UnknownSource(c) \/ EmitRaises(c) \/ WriteFails(c) \/ Die(c)
      PROVE  MiningInv'
  <2>1. PICK kind \in {"gated", "refused", "raised", "killed"} :
          /\ EndCall(c, Failure(kind)) /\ UNCHANGED <<log, feature_files>> /\ call[c].pc # "done"
          /\ call[c].pc = "writing" => kind \in {"killed", "raised"}
    <3>1. CASE Gate(c)
      BY <3>1 DEF Gate, At
    <3>2. CASE UnknownSource(c)
      BY <3>2 DEF UnknownSource, At
    <3>3. CASE EmitRaises(c)
      <4>1. CASE Attributed(call[c].claims)
        <5>1. EndCall(c, Failure("raised")) /\ UNCHANGED <<log, feature_files>> /\ call[c].pc = "extracting"
          BY <3>3, <4>1 DEF EmitRaises, At
        <5> QED
          BY <5>1
      <4>2. CASE ~Attributed(call[c].claims)
        <5>1. EndCall(c, Failure("refused")) /\ UNCHANGED <<log, feature_files>> /\ call[c].pc = "extracting"
          BY <3>3, <4>2 DEF EmitRaises, At
        <5> QED
          BY <5>1
      <4> QED
        BY <4>1, <4>2
    <3>4. CASE WriteFails(c)
      BY <3>4 DEF WriteFails, At
    <3>5. CASE Die(c)
      BY <3>5 DEF Die, At
    <3> QED
      BY <1>2, <3>1, <3>2, <3>3, <3>4, <3>5
  <2> QED
    BY <2>1, FailedStep
<1>3. ASSUME NEW c \in Calls, NEW kind \in {"http", "raised"}, RequestFails(c, kind)
      PROVE  MiningInv'
  <2>1. EndCall(c, Failure(kind)) /\ UNCHANGED <<log, feature_files>> /\ call[c].pc = "waiting"
    BY <1>3 DEF RequestFails, At
  <2> QED
    BY <2>1, FailedStep
<1> QED
  BY <1>1, <1>2, <1>3, EarlyStep, ExtractStep, NoClaimsStep, OpenStep, WriteStep, CountStep
     DEF MiningNext

(* It gives the types, *)
LEMMA MiningTypes == MiningInv => MiningTypeOK
<1> SUFFICES ASSUME MiningInv, NEW c \in Calls
             PROVE  /\ call[c].pc \in MiningStages
                    /\ call[c].limit \in Limits \union {0}
                    /\ active[c] \in {None, c}
                    /\ active[c] = c <=> call[c].pc \in {"ready", "waiting", "extracting", "writing"}
                    /\ call[c].pc \in {"writing", "counting"} =>
                         FileName(call[c].claims) \in DOMAIN feature_files
                    /\ (call[c].answer = None) <=> (call[c].pc # "done")
  BY DEF MiningTypeOK, MiningStages
<1>1. /\ call[c] \in CallType /\ call[c].pc \in MiningStages /\ CallFile(c)
      /\ active[c] = IF InRun(c) THEN c ELSE None
  BY MiningShape
<1>2. call[c].limit \in Limits \union {0}
  BY <1>1 DEF CallType
<1>3. c # None
  BY MiningAssumption
<1>4. (call[c].answer = None) <=> (call[c].pc # "done")
  BY DEF MiningInv, MiningTyped
<1> QED
  BY <1>1, <1>2, <1>3, <1>4 DEF InRun, CallFile, WroteFile, At, FileName

(* that a log has the rows of its own call, *)
LEMMA MiningRows == MiningInv => RowsInOwnRun
BY DEF MiningInv, CallRows, RowsInOwnRun

(* and that a file holds the claims of the calls that report it. *)
LEMMA MiningFiles == MiningInv => FileHoldsClaims
<1> SUFFICES ASSUME MiningInv, NEW c \in Calls, WroteFile(c)
             PROVE  LET claims == call[c].claims
                        file == feature_files[FileName(claims)]
                    IN /\ FileName(claims) \in DOMAIN feature_files
                       /\ Others(c) = {} => file = claims
                       /\ file = Unwritten => \E d \in Others(c) : LeftUnwritten(d)
                       /\ file # Unwritten =>
                            /\ \E d \in Others(c) \union {c} : IsPrefix(call[d].claims, file)
                            /\ \A i \in DOMAIN file :
                                 \E d \in Others(c) \union {c} : file[i] \in Range(call[d].claims)
                       /\ At(c, "done") =>
                            LET told == call[c].answer.candidates IN
                            \/ told = Len(claims)
                            \/ Others(c) # {} /\ (told = 0 \/ told > Len(claims))
  BY DEF FileHoldsClaims
<1> DEFINE claims == call[c].claims
           name == FileName(claims)
           file == feature_files[name]
<1>1. CallFile(c) /\ name \in DOMAIN feature_files
  BY DEF MiningInv, CallFile, FileName
<1>2. FileKept(name)
  BY <1>1 DEF MiningInv
<1>3. \A d \in Calls : TextsOf(call[d].claims) = name => d \in Others(c) \union {c}
  BY DEF Others, FileName
<1>4. \A d \in Writers(name) : d \in Others(c) \union {c}
  BY <1>3 DEF Writers
<1>5. ASSUME file = Unwritten PROVE \E d \in Others(c) : LeftUnwritten(d)
  <2>1. PICK d \in Calls : LeftUnwritten(d) /\ TextsOf(call[d].claims) = name
    BY <1>2, <1>5 DEF FileKept
  <2>2. d # c
    BY <2>1 DEF LeftUnwritten, WroteFile, At
  <2> QED
    BY <1>3, <2>1, <2>2
<1>6. ASSUME file # Unwritten
      PROVE  /\ \E d \in Others(c) \union {c} : IsPrefix(call[d].claims, file)
             /\ \A i \in DOMAIN file :
                  \E d \in Others(c) \union {c} : file[i] \in Range(call[d].claims)
             /\ Others(c) = {} => file = claims
  <2>1. PICK d \in Writers(name) :
          /\ IsPrefix(call[d].claims, file)
          /\ file = call[d].claims \/ \E e \in Writers(name) : e # d
    BY <1>2, <1>6 DEF FileKept
  <2>2. \A i \in DOMAIN file : \E e \in Writers(name) : file[i] \in Range(call[e].claims)
    BY <1>2, <1>6 DEF FileKept
  <2> HIDE DEF file, name
  <2>3. Others(c) = {} => d = c /\ \A e \in Writers(name) : e = c
    BY <1>4
  <2> QED
    BY <1>4, <2>1, <2>2, <2>3
<1>7. Rewriting(c) => Others(c) # {}
  BY DEF Rewriting, Others
<1>8. At(c, "done") =>
        \/ call[c].answer.candidates = Len(claims)
        \/ Others(c) # {} /\ (call[c].answer.candidates = 0 \/ call[c].answer.candidates > Len(claims))
  BY <1>1, <1>7 DEF CallFile, MayBeTold, WroteFile, At
<1> QED
  BY <1>1, <1>5, <1>6, <1>8

-----------------------------------------------------------------------------
(* The four parts together. *)

(* The invariants of the parts: a step of one leaves the others alone.     *)
PartsInv == SolveInv /\ ServerInv /\ ReportInv /\ MiningInv

(* It holds at the start, *)
LEMMA PartsStart == PartsInit => PartsInv
  BY SolveStarts, ServerStarts, ReportStarts, MiningStarts DEF PartsInit, PartsInv

(* and every step keeps it. *)
LEMMA PartsSteps == PartsInv /\ [PartsNext]_all_vars => PartsInv'
<1> SUFFICES ASSUME PartsInv, [PartsNext]_all_vars PROVE PartsInv'
  OBVIOUS
<1>1. SolveInv /\ ServerInv /\ ReportInv /\ MiningInv
  BY DEF PartsInv
<1>2. \/ [Next]_vars /\ UNCHANGED <<server_vars, report_vars, mining_vars>>
      \/ [ServerNext]_server_vars /\ UNCHANGED <<vars, report_vars, mining_vars>>
      \/ [ReportNext]_report_vars /\ UNCHANGED <<vars, server_vars, mining_vars>>
      \/ [MiningNext]_mining_vars /\ UNCHANGED <<vars, server_vars, report_vars>>
  BY DEF PartsNext, all_vars
<1>3. /\ UNCHANGED vars => SolveInv'
      /\ UNCHANGED server_vars => ServerInv'
      /\ UNCHANGED report_vars => ReportInv'
      /\ UNCHANGED mining_vars => MiningInv'
  BY <1>1, SolveStutters, ServerStutters, ReportStutters, MiningStutters
<1>4. CASE [Next]_vars /\ UNCHANGED <<server_vars, report_vars, mining_vars>>
  <2>1. SolveInv'
    BY <1>1, <1>4, SolveSteps
  <2> QED
    BY <1>3, <1>4, <2>1 DEF PartsInv
<1>5. CASE [ServerNext]_server_vars /\ UNCHANGED <<vars, report_vars, mining_vars>>
  <2>1. ServerInv'
    BY <1>1, <1>5, ServerSteps
  <2> QED
    BY <1>3, <1>5, <2>1 DEF PartsInv
<1>6. CASE [ReportNext]_report_vars /\ UNCHANGED <<vars, server_vars, mining_vars>>
  <2>1. ReportInv'
    BY <1>1, <1>6, ReportSteps
  <2> QED
    BY <1>3, <1>6, <2>1 DEF PartsInv
<1>7. CASE [MiningNext]_mining_vars /\ UNCHANGED <<vars, server_vars, report_vars>>
  <2>1. MiningInv'
    BY <1>1, <1>7, MiningSteps
  <2> QED
    BY <1>3, <1>7, <2>1 DEF PartsInv
<1> QED
  BY <1>2, <1>4, <1>5, <1>6, <1>7

(* The invariants of the parts are invariants of the four together. *)
THEOREM PartsInvariance == PartsSpec => []PartsInv
<1> QED
  BY PartsStart, PartsSteps, PTL DEF PartsSpec

(* Every part keeps its types. *)
THEOREM PartsTyped == PartsSpec => []PartsTypeOK
<1>1. PartsInv => PartsTypeOK
  BY SolveTypes, ServerTypes, ReportTypes, MiningTypes DEF PartsInv, PartsTypeOK
<1> QED
  BY <1>1, PartsInvariance, PTL

(* cli_core.py, solve_exit_code and the budget_exceeded, llm_error and     *)
(* prover_error branches: the exit code of a solve command tells the worst *)
(* that befell any obligation of any file.                                 *)
THEOREM ExitCodeTells == PartsSpec => []ExitCodeTellsAll
<1>1. PartsInv => ExitCodeTellsAll
  BY SolveExit DEF PartsInv
<1> QED
  BY <1>1, PartsInvariance, PTL

(* cli_core.py and mcp/tools.py: the budget made for a command or a call   *)
(* is the one its own client counts against, however requests overlap.     *)
THEOREM CapsAreHeld == PartsSpec => []CapsHold
<1>1. PartsInv => CapsHold
  BY SolveCaps, ServerCaps DEF PartsInv, CapsHold
<1> QED
  BY <1>1, PartsInvariance, PTL

(* cli_core.py, mcp/tools.py and llm/run_report.py: what a manifest, an    *)
(* answer and a cost report tell of a run is what was paid in it; a report *)
(* made while commands write is bounded by the books of two moments.       *)
THEOREM SpendingIsTold == PartsSpec => []SpendingTold
<1>1. PartsInv => SpendingTold
  BY SolveSpending, ServerTotals, ReportIsBounded, ReportAgrees, ReportRaises
     DEF PartsInv, SpendingTold, ReportTells
<1> QED
  BY <1>1, PartsInvariance, PTL

(* mining/pipeline.py, mine, mining/emit.py and telemetry.active_run: the  *)
(* log of a mining call holds what that call found, whatever calls overlap *)
(* it; its file does from when it is written and ever after, unless        *)
(* another call finds the same sentences, and then nothing gets into it    *)
(* but the claims of such calls.                                           *)
THEOREM MinedIsKept == PartsSpec => []MinedIsOwn
<1>1. PartsInv => MinedIsOwn
  BY MiningRows, MiningFiles DEF PartsInv, MinedIsOwn
<1> QED
  BY <1>1, PartsInvariance, PTL

(* The money is in runs only, *)
LEMMA PaidInRunsInvariance == PartsSpec => [](PartsInv /\ PaidInRuns)
<1>1. PartsInit => PaidInRuns
  BY RunsStart DEF PartsInit
<1>2. PartsInv /\ PaidInRuns /\ [PartsNext]_all_vars => PaidInRuns'
  <2>1. [PartsNext]_all_vars => [ServerNext]_server_vars
    BY DEF PartsNext, all_vars
  <2> QED
    BY <2>1, RunsStep DEF PartsInv
<1> QED
  BY <1>1, <1>2, PartsInvariance, PTL DEF PartsSpec

(* mcp/tools.py, tool_cost_report: the report finds all the money the      *)
(* server has spent, also on calls that answered an error or are still     *)
(* under way.                                                              *)
THEOREM ReportsAreComplete == PartsSpec => ReportFindsAll
<1> DEFINE Found ==
      \A t \in Requests :
        LET spent == SumFunction([r \in Requests |-> task[r].total]) IN
        task[t].tool = "cost_report" /\ answers'[t] # answers[t]
          => \/ answers'[t].kind = "ok" /\ answers'[t].total = spent
             \/ answers'[t].kind # "ok" /\ spent = 0
<1>1. PartsInv /\ PaidInRuns /\ [PartsNext]_all_vars => Found
  <2>1. [PartsNext]_all_vars => [ServerNext]_server_vars
    BY DEF PartsNext, all_vars
  <2> QED
    BY <2>1, ServerReports DEF PartsInv
<1>2. PartsInv /\ PaidInRuns /\ [PartsNext]_all_vars => [Found]_server_vars
  BY <1>1
<1>3. ReportFindsAll <=> [][Found]_server_vars
  BY DEF ReportFindsAll
<1> HIDE DEF Found
<1> QED
  BY <1>2, <1>3, PaidInRunsInvariance, PTL DEF PartsSpec
=============================================================================
