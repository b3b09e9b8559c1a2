---------------------- MODULE CompletionPipelineProofs ----------------------
(***************************************************************************)
(* Theorems about CompletionPipeline: any number of processes over one     *)
(* cache directory, any requests, budgets, answers and price table, any    *)
(* crash. The invariant follows the money of a command from the provider's *)
(* charge through the row to the guard, and says whose answer a file holds.*)
(***************************************************************************)
EXTENDS CompletionPipeline, CommonProofs, Sequences

(* A command, field by field. *)
CommandType ==
  [pc : Labels, mode : CacheModes, budget : Budgets, guard : GuardType,
   left : 0 .. MaxRequests, req : Requests \cup {None}, try : 0 .. MaxAttempts,
   bill : BillType \cup {None}, raced : BOOLEAN,
   result : {"none", "hit", "ok", "over", "refused", "error"},
   answer : Requests \cup {None}, rows : 0 .. 1,
   logged : Nat, billed : Nat, used : Nat]

(* Inside complete() there is a request, and no result yet; only a         *)
(* read_write cache is written.                                            *)
Requesting(c) ==
  /\ c.pc \notin {"idle", "aborted"} => c.req \in Requests /\ c.result = "none"
  /\ c.pc \in {"caching", "writing"} => c.mode = "read_write"

(* The way of the money: charged when the provider answers, then in the    *)
(* row, and last in the guard. In between the bill in hand is the          *)
(* difference, for the tokens too unless the guard has latched.            *)
Books(c) ==
  IF c.pc = "answered"
  THEN /\ c.bill \in BillType
       /\ c.logged = c.guard.spent
       /\ c.billed = c.logged + c.bill.cost
       /\ c.guard.tripped \/ c.used = c.guard.tokens + c.bill.tokens
  ELSE IF c.pc \in {"caching", "writing", "recording"}
  THEN /\ c.bill \in BillType
       /\ c.logged = c.billed
       /\ c.billed = c.guard.spent + c.bill.cost
       /\ c.guard.tripped \/ c.used = c.guard.tokens + c.bill.tokens
  ELSE /\ c.logged = c.billed
       /\ c.guard.spent = c.billed
       /\ c.guard.tripped \/ c.guard.tokens = c.used

(* One row per complete(): written once there is a result, or an answer. *)
Rows(c) ==
  IF c.pc \in {"caching", "writing", "recording"} THEN c.rows = 1
  ELSE IF c.result \in {"none", "refused"} THEN c.rows = 0
  ELSE c.rows = 1

OwnAnswer(c) == c.result \in {"hit", "ok"} => c.answer = c.req

CommandInv(c) ==
  c \in CommandType /\ Requesting(c) /\ Books(c) /\ Rows(c) /\ OwnAnswer(c)

(* A file is absent, torn, or whole under the key of what it answers. *)
Entries == {Absent, Torn} \cup {Whole(r) : r \in Requests}

DiskInv ==
  /\ disk \in [Keys -> Entries]
  /\ \A k \in Keys : disk[k].kind = "whole" => KeyFor(disk[k].answer) = k

(* A command that has opened its file, or closed it, finds it there. *)
Deposited(c) ==
  c.mode = "read_write" /\ c.pc \in {"writing", "recording"} => disk[KeyFor(c.req)] # Absent

(* What was paid for has a file. *)
PaidThere == \A k \in paid : disk[k] # Absent

IInv ==
  /\ proc \in [Procs -> CommandType]
  /\ \A p \in Procs : CommandInv(proc[p]) /\ Deposited(proc[p])
  /\ DiskInv
  /\ PaidThere
  /\ commands \in 0 .. MaxCommands
  /\ paid \subseteq Keys

-----------------------------------------------------------------------------
(* A key tells everything of its request: two servers behind one provider  *)
(* key do not share one, nor does a server share the vendor's own.         *)
LEMMA KeyTellsRequest ==
  ASSUME NEW r \in Requests, NEW s \in Requests, KeyFor(r) = KeyFor(s)
  PROVE  r = s
<1>1. /\ r = Request(r.provider, r.base_url, r.model, r.prompt)
      /\ s = Request(s.provider, s.base_url, s.model, s.prompt)
  BY PipelineAssumption DEF Requests
<1>2. Namespace(r) = Namespace(s) /\ r.model = s.model /\ r.prompt = s.prompt
  BY DEF KeyFor
<1>3. r.provider = s.provider /\ r.base_url = s.base_url
  <2>1. CASE r.base_url # None /\ s.base_url # None
    BY <1>2, <2>1 DEF Namespace
  <2>2. CASE r.base_url = None /\ s.base_url = None
    BY <1>2, <2>2 DEF Namespace
  <2>3. CASE (r.base_url = None) # (s.base_url = None)
    <3>1. Len(Namespace(r)) # Len(Namespace(s))
      BY <2>3 DEF Namespace
    <3> QED
      BY <1>2, <3>1
  <2> QED
    BY <2>1, <2>2, <2>3
<1> QED
  BY <1>1, <1>2, <1>3

(* A request is one of some process, to a vendor there is. *)
LEMMA RequestShape ==
  ASSUME NEW r \in Requests
  PROVE  r.provider \in Vendors /\ KeyFor(r) \in Keys
  BY PipelineAssumption DEF Requests, Keys

-----------------------------------------------------------------------------
(* A command that has been started, or has died, owes nothing. *)
LEMMA FreshInv ==
  ASSUME NEW m \in CacheModes, NEW b \in Budgets
  PROVE  /\ CommandInv(Fresh(m, b)) /\ Deposited(Fresh(m, b))
         /\ CommandInv([Fresh(m, b) EXCEPT !.pc = "aborted"])
         /\ Deposited([Fresh(m, b) EXCEPT !.pc = "aborted"])
<1>1. /\ NewGuard \in GuardType /\ NewGuard.spent = 0 /\ NewGuard.tokens = 0
      /\ 0 \in 0 .. MaxAttempts /\ MaxRequests \in 0 .. MaxRequests /\ 0 \in 0 .. 1
  BY PipelineAssumption DEF NewGuard, GuardType
<1>2. Fresh(m, b) \in CommandType
  BY <1>1 DEF Fresh, CommandType, Labels
<1>3. [Fresh(m, b) EXCEPT !.pc = "aborted"] \in CommandType
  BY <1>1 DEF Fresh, CommandType, Labels
<1> QED
  BY <1>1, <1>2, <1>3 DEF Fresh, CommandInv, Requesting, Books, Rows, OwnAnswer, Deposited

LEMMA InitInv == Init => IInv
<1> SUFFICES ASSUME Init PROVE IInv
  OBVIOUS
<1>1. \A p \in Procs : \E m \in CacheModes, b \in Budgets : proc[p] = Fresh(m, b)
  BY DEF Init
<1>2. \A p \in Procs : CommandInv(proc[p]) /\ Deposited(proc[p])
  BY <1>1, FreshInv
<1>3. proc \in [Procs -> CommandType]
  <2>1. proc \in [Procs -> {Fresh(m, b) : m \in CacheModes, b \in Budgets}]
    BY DEF Init
  <2> QED
    BY <1>2, <2>1 DEF CommandInv
<1>4. DiskInv
  BY DEF Init, DiskInv, Entries, Absent
<1>5. PaidThere /\ paid \subseteq Keys /\ commands \in 0 .. MaxCommands
  BY PipelineAssumption DEF Init, PaidThere
<1> QED
  BY <1>2, <1>3, <1>4, <1>5 DEF IInv

(* A step that moves one command and touches no file. *)
LEMMA OneMoves ==
  ASSUME IInv, NEW p \in Procs, NEW c, CommandInv(c), Deposited(c),
         proc' = [proc EXCEPT ![p] = c], disk' = disk, paid' = paid,
         commands' \in 0 .. MaxCommands
  PROVE  IInv'
<1>1. proc' \in [Procs -> CommandType]
  BY DEF IInv, CommandInv
<1>2. \A q \in Procs : proc'[q] = IF q = p THEN c ELSE proc[q]
  BY DEF IInv
<1>3. \A q \in Procs : CommandInv(proc'[q]) /\ Deposited(proc[q])'
  BY <1>2 DEF IInv, Deposited
<1>4. DiskInv' /\ PaidThere' /\ (paid \subseteq Keys)'
  BY DEF IInv, DiskInv, PaidThere
<1> QED
  BY <1>1, <1>3, <1>4 DEF IInv

(* The fields of a command, and what the bounds are. *)
LEMMA CommandFields ==
  ASSUME IInv, NEW p \in Procs
  PROVE  /\ proc[p] \in CommandType /\ CommandInv(proc[p]) /\ Deposited(proc[p])
         /\ proc[p].mode \in CacheModes /\ proc[p].budget \in Budgets
         /\ proc[p].budget \in BudgetType /\ proc[p].guard \in GuardType
         /\ proc[p].logged \in Nat /\ proc[p].billed \in Nat /\ proc[p].used \in Nat
         /\ proc[p].left \in 0 .. MaxRequests /\ proc[p].try \in 0 .. MaxAttempts
         /\ proc[p].guard.spent \in Nat /\ proc[p].guard.tokens \in Nat
         /\ MaxAttempts \in Nat /\ MaxAttempts >= 1 /\ MaxRequests \in Nat
<1>1. proc[p] \in CommandType
  BY DEF IInv
<1>2. proc[p].budget \in BudgetType
  BY <1>1, PipelineAssumption DEF CommandType
<1> QED
  BY <1>1, <1>2, PipelineAssumption DEF IInv, CommandType, GuardType

-----------------------------------------------------------------------------
(* The steps of complete() before the provider is called. *)
LEMMA AskInv ==
  ASSUME IInv, NEW p \in Procs, NEW r \in Asked[p], Ask(p, r)
  PROVE  IInv'
<1> DEFINE c == [proc[p] EXCEPT !.pc = IF proc[p].mode = "off" THEN "preflight" ELSE "lookup",
                                !.left = @ - 1, !.req = r, !.try = 0,
                                !.result = "none", !.answer = None, !.rows = 0]
<1>1. proc' = [proc EXCEPT ![p] = c]
  BY DEF Ask
<1>2. r \in Requests
  BY DEF Requests
<1>3. c \in CommandType
  <2>1. proc[p] \in CommandType /\ proc[p].left - 1 \in 0 .. MaxRequests
        /\ 0 \in 0 .. MaxAttempts /\ 0 \in 0 .. 1
    BY CommandFields DEF Ask
  <2>2. (IF proc[p].mode = "off" THEN "preflight" ELSE "lookup") \in Labels
    BY DEF Labels
  <2> QED
    BY <1>2, <2>1, <2>2 DEF CommandType
<1>4. CommandInv(c)
  BY <1>2, <1>3, CommandFields, ZenonT(60)
  DEF Ask, At, CommandInv, CommandType, Requesting, Books, Rows, OwnAnswer
<1>5. Deposited(c)
  BY CommandFields DEF Deposited, CommandType
<1> HIDE DEF c
<1> QED
  BY <1>1, <1>4, <1>5, OneMoves DEF Ask, IInv

(* An answer from the disk is the answer to this very request. *)
LEMMA LookupHitInv ==
  ASSUME IInv, NEW p \in Procs, LookupHit(p)
  PROVE  IInv'
<1> DEFINE entry == disk[KeyFor(proc[p].req)]
           c == [proc[p] EXCEPT !.pc = "idle", !.result = "hit", !.answer = entry.answer,
                                !.rows = @ + 1]
<1>1. proc' = [proc EXCEPT ![p] = c]
  BY DEF LookupHit
<1>2. /\ proc[p].pc = "lookup" /\ proc[p].req \in Requests /\ proc[p].rows = 0
      /\ entry.kind = "whole" /\ KeyFor(proc[p].req) \in Keys
  BY CommandFields, RequestShape DEF LookupHit, At, CommandInv, Requesting, Rows
<1>3. entry.answer \in Requests /\ KeyFor(entry.answer) = KeyFor(proc[p].req)
  BY <1>2 DEF IInv, DiskInv, Entries, Absent, Torn, Whole
<1>4. entry.answer = proc[p].req
  BY <1>2, <1>3, KeyTellsRequest
<1> HIDE DEF entry
<1>5. c \in CommandType
  <2>1. proc[p] \in CommandType /\ "idle" \in Labels /\ proc[p].rows + 1 \in 0 .. 1
    BY <1>2, CommandFields DEF Labels
  <2> QED
    BY <1>3, <2>1 DEF CommandType
<1>6. CommandInv(c)
  BY <1>2, <1>4, <1>5, CommandFields
  DEF CommandInv, CommandType, Requesting, Books, Rows, OwnAnswer
<1>7. Deposited(c)
  BY CommandFields DEF Deposited, CommandType
<1> HIDE DEF c
<1> QED
  BY <1>1, <1>6, <1>7, OneMoves DEF LookupHit, IInv

(* The command dies. *)
LEMMA AbortedInv ==
  ASSUME IInv, NEW p \in Procs
  PROVE  CommandInv(Aborted(p)) /\ Deposited(Aborted(p))
BY CommandFields, FreshInv DEF Aborted

LEMMA LookupTornInv ==
  ASSUME IInv, NEW p \in Procs, LookupTorn(p)
  PROVE  IInv'
BY AbortedInv, OneMoves DEF LookupTorn, IInv

(* An LLMError leaves its row, a refusal none. *)
LEMMA RaisedInv ==
  ASSUME IInv, NEW p \in Procs, proc[p].pc \in {"lookup", "preflight", "calling"}
  PROVE  /\ CommandInv(Raised(p, "error", 1)) /\ Deposited(Raised(p, "error", 1))
         /\ CommandInv(Raised(p, "refused", 0)) /\ Deposited(Raised(p, "refused", 0))
<1>1. proc[p].rows = 0
  BY CommandFields DEF CommandInv, Requesting, Rows
<1>2. Raised(p, "error", 1) \in CommandType /\ Raised(p, "refused", 0) \in CommandType
  <2>1. proc[p] \in CommandType /\ 0 \in 0 .. MaxAttempts /\ "idle" \in Labels
        /\ proc[p].rows + 1 \in 0 .. 1 /\ proc[p].rows + 0 \in 0 .. 1
    BY <1>1, CommandFields DEF Labels
  <2> QED
    BY <2>1 DEF Raised, CommandType
<1>3. CommandInv(Raised(p, "error", 1)) /\ CommandInv(Raised(p, "refused", 0))
  BY <1>1, <1>2, CommandFields
  DEF Raised, CommandInv, CommandType, Requesting, Books, Rows, OwnAnswer
<1> QED
  BY <1>3, CommandFields DEF Raised, Deposited, CommandType

(* The command goes on to another place in complete(). *)
LEMMA GoesOnInv ==
  ASSUME IInv, NEW p \in Procs, NEW try \in 0 .. MaxAttempts,
         NEW pc \in {"preflight", "calling"},
         proc[p].pc \in {"lookup", "preflight", "calling"}
  PROVE  LET c == [proc[p] EXCEPT !.pc = pc, !.try = try]
         IN  CommandInv(c) /\ Deposited(c)
<1> DEFINE c == [proc[p] EXCEPT !.pc = pc, !.try = try]
<1>1. c \in CommandType
  <2>1. proc[p] \in CommandType /\ pc \in Labels
    BY CommandFields DEF Labels
  <2> QED
    BY <2>1 DEF CommandType
<1>2. CommandInv(c)
  BY <1>1, CommandFields DEF CommandInv, CommandType, Requesting, Books, Rows, OwnAnswer
<1> QED
  BY <1>2, CommandFields DEF Deposited, CommandType

LEMMA LookupMissInv ==
  ASSUME IInv, NEW p \in Procs, LookupMiss(p)
  PROVE  IInv'
<1>1. CASE proc[p].mode = "read_only"
  BY <1>1, RaisedInv, OneMoves DEF LookupMiss, At, IInv
<1>2. CASE proc[p].mode # "read_only"
  <2>1. proc' = [proc EXCEPT ![p] = [proc[p] EXCEPT !.pc = "preflight", !.try = proc[p].try]]
    BY <1>2, CommandFields DEF LookupMiss, CommandType
  <2> QED
    BY <2>1, CommandFields, GoesOnInv, OneMoves DEF LookupMiss, At, IInv
<1> QED
  BY <1>1, <1>2

LEMMA PreflightInv ==
  ASSUME IInv, NEW p \in Procs, Preflight(p)
  PROVE  IInv'
<1>1. CASE ~EnsureNotExceeded(proc[p].budget, proc[p].guard)
  BY <1>1, RaisedInv, OneMoves DEF Preflight, At, IInv
<1>2. CASE EnsureNotExceeded(proc[p].budget, proc[p].guard)
  <2>1. proc' = [proc EXCEPT ![p] = [proc[p] EXCEPT !.pc = "calling", !.try = 1]]
    BY <1>2 DEF Preflight
  <2>2. 1 \in 0 .. MaxAttempts
    BY CommandFields
  <2> QED
    BY <2>1, <2>2, GoesOnInv, OneMoves DEF Preflight, At, IInv
<1> QED
  BY <1>1, <1>2

-----------------------------------------------------------------------------
(* The provider's answer: the bill in hand is what it charged, and counts  *)
(* every token once (AnswerIsBilled).                                      *)
LEMMA ProviderAnswersInv ==
  ASSUME IInv, NEW p \in Procs, NEW a \in Answers, ProviderAnswers(p, a)
  PROVE  IInv'
<1> DEFINE r == proc[p].req
           bill == BillFor(Rates, r.provider, r.model, a.model, UsageOf(r.provider, a.counts))
           n == CountedOnce(r.provider, a.counts)
           c == [proc[p] EXCEPT !.pc = "answered", !.bill = bill,
                                !.billed = @ + bill.cost, !.used = @ + n]
<1>1. proc' = [proc EXCEPT ![p] = c]
  BY DEF ProviderAnswers
<1>2. r \in Requests /\ proc[p].pc = "calling"
  BY CommandFields DEF ProviderAnswers, At, CommandInv, Requesting
<1>3. bill \in BillType /\ bill.tokens = n
  <2>1. r.provider \in Vendors /\ a.counts \in Reported(r.provider)
    BY <1>2, RequestShape, PipelineAssumption DEF ProviderAnswers
  <2>2. PricingFiles(PricingFile)
    BY PipelineAssumption DEF PricingFiles
  <2> QED
    BY <2>1, <2>2, AnswerIsBilled DEF Rates
<1> HIDE DEF bill, n
<1>4. bill.cost \in Nat /\ n \in Nat
  BY <1>3 DEF BillType
<1>5. c \in CommandType
  <2>1. proc[p] \in CommandType /\ "answered" \in Labels
        /\ proc[p].billed + bill.cost \in Nat /\ proc[p].used + n \in Nat
    BY <1>4, CommandFields DEF Labels
  <2> QED
    BY <1>3, <2>1 DEF CommandType
<1>6. Books(c)
  <2>1. /\ proc[p].logged = proc[p].billed /\ proc[p].guard.spent = proc[p].billed
        /\ proc[p].guard.tripped \/ proc[p].guard.tokens = proc[p].used
    BY <1>2, CommandFields DEF CommandInv, Books
  <2>2. /\ c.pc = "answered" /\ c.bill = bill /\ c.logged = proc[p].logged
        /\ c.guard = proc[p].guard /\ c.billed = proc[p].billed + bill.cost
        /\ c.used = proc[p].used + n
    BY CommandFields DEF CommandType
  <2> QED
    BY <1>3, <2>1, <2>2 DEF Books
<1>7. CommandInv(c)
  BY <1>2, <1>5, <1>6, CommandFields DEF CommandInv, CommandType, Requesting, Rows, OwnAnswer
<1>8. Deposited(c)
  BY CommandFields DEF Deposited, CommandType
<1> HIDE DEF c
<1> QED
  BY <1>1, <1>7, <1>8, OneMoves DEF ProviderAnswers, IInv

LEMMA ProviderRetriedInv ==
  ASSUME IInv, NEW p \in Procs, NEW f \in Failures, ProviderRetried(p, f)
  PROVE  IInv'
<1>1. proc[p].try + 1 \in 0 .. MaxAttempts
  BY CommandFields DEF ProviderRetried
<1>2. proc' = [proc EXCEPT ![p] = [proc[p] EXCEPT !.pc = "calling", !.try = proc[p].try + 1]]
  BY CommandFields DEF ProviderRetried, At, CommandType
<1> QED
  BY <1>1, <1>2, GoesOnInv, OneMoves DEF ProviderRetried, At, IInv

LEMMA ProviderFailsInv ==
  ASSUME IInv, NEW p \in Procs, NEW f \in Failures, ProviderFails(p, f)
  PROVE  IInv'
BY RaisedInv, OneMoves DEF ProviderFails, At, IInv

LEMMA ProviderUnusableInv ==
  ASSUME IInv, NEW p \in Procs, ProviderUnusable(p)
  PROVE  IInv'
BY AbortedInv, OneMoves DEF ProviderUnusable, IInv

(* The row: the charge is now in the run's own record. *)
LEMMA LogAnswerInv ==
  ASSUME IInv, NEW p \in Procs, LogAnswer(p)
  PROVE  IInv'
<1> DEFINE next == IF proc[p].mode = "read_write" THEN "caching" ELSE "recording"
           c == [proc[p] EXCEPT !.pc = next, !.logged = @ + proc[p].bill.cost, !.rows = @ + 1]
<1>1. proc' = [proc EXCEPT ![p] = c]
  BY DEF LogAnswer
<1>2. /\ proc[p].pc = "answered" /\ proc[p].req \in Requests /\ proc[p].rows = 0
      /\ proc[p].result = "none" /\ proc[p].bill \in BillType
      /\ proc[p].logged = proc[p].guard.spent
      /\ proc[p].billed = proc[p].logged + proc[p].bill.cost
      /\ proc[p].guard.tripped \/ proc[p].used = proc[p].guard.tokens + proc[p].bill.tokens
  BY CommandFields DEF LogAnswer, At, CommandInv, Requesting, Rows, Books
<1>3. proc[p].bill.cost \in Nat
  BY <1>2 DEF BillType
<1>4. c \in CommandType
  <2>1. proc[p] \in CommandType /\ next \in Labels
        /\ proc[p].logged + proc[p].bill.cost \in Nat /\ proc[p].rows + 1 \in 0 .. 1
    BY <1>2, <1>3, CommandFields DEF Labels
  <2> HIDE DEF next
  <2> QED
    BY <2>1 DEF CommandType
<1>5. /\ c.pc = next /\ c.bill = proc[p].bill /\ c.guard = proc[p].guard
      /\ c.billed = proc[p].billed /\ c.used = proc[p].used /\ c.req = proc[p].req
      /\ c.mode = proc[p].mode /\ c.result = proc[p].result /\ c.answer = proc[p].answer
      /\ c.rows = proc[p].rows + 1 /\ c.logged = proc[p].logged + proc[p].bill.cost
  BY CommandFields DEF CommandType
<1> HIDE DEF c
<1>6. Books(c)
  BY <1>2, <1>5 DEF Books
<1>7. CommandInv(c) /\ Deposited(c)
  BY <1>2, <1>4, <1>5, <1>6, CommandFields
  DEF CommandInv, Requesting, Rows, OwnAnswer, Deposited
<1> QED
  BY <1>1, <1>7, OneMoves DEF LogAnswer, IInv

-----------------------------------------------------------------------------
(* The steps on the cache file. Writing one, torn or whole, keeps what is  *)
(* known of the disk, and no file goes away.                               *)
LEMMA FileWritten ==
  ASSUME IInv, NEW r \in Requests, NEW e \in {Torn, Whole(r)},
         disk' = [disk EXCEPT ![KeyFor(r)] = e], paid' = paid
  PROVE  /\ DiskInv' /\ PaidThere' /\ (paid \subseteq Keys)'
         /\ disk'[KeyFor(r)] # Absent
         /\ \A k \in Keys : disk[k] # Absent => disk'[k] # Absent
<1>1. KeyFor(r) \in Keys /\ disk \in [Keys -> Entries]
  BY RequestShape DEF IInv, DiskInv
<1>2. /\ e \in Entries /\ e # Absent
      /\ e.kind = "whole" => KeyFor(e.answer) = KeyFor(r)
  BY DEF Entries, Absent, Torn, Whole
<1>3. \A k \in Keys : disk'[k] = IF k = KeyFor(r) THEN e ELSE disk[k]
  BY <1>1
<1>4. disk' \in [Keys -> Entries]
  BY <1>1, <1>2
<1>5. DiskInv'
  BY <1>2, <1>3, <1>4 DEF IInv, DiskInv
<1>6. PaidThere' /\ (paid \subseteq Keys)'
  BY <1>2, <1>3 DEF IInv, PaidThere
<1> QED
  BY <1>1, <1>2, <1>3, <1>5, <1>6

(* Whether another writer raced a command is nobody's business but its     *)
(* own CloseEntry's.                                                       *)
LEMMA RacedInv ==
  ASSUME NEW c, CommandInv(c), NEW b \in BOOLEAN
  PROVE  LET d == [c EXCEPT !.raced = b]
         IN  /\ CommandInv(d)
             /\ d.pc = c.pc /\ d.mode = c.mode /\ d.req = c.req
<1> DEFINE d == [c EXCEPT !.raced = b]
<1>1. c \in CommandType
  BY DEF CommandInv
<1>2. d \in CommandType
  BY <1>1 DEF CommandType
<1>3. /\ d.pc = c.pc /\ d.mode = c.mode /\ d.req = c.req /\ d.bill = c.bill
      /\ d.guard = c.guard /\ d.logged = c.logged /\ d.billed = c.billed
      /\ d.used = c.used /\ d.rows = c.rows /\ d.result = c.result /\ d.answer = c.answer
  BY <1>1 DEF CommandType
<1> HIDE DEF d
<1>4. CommandInv(d)
  BY <1>2, <1>3 DEF CommandInv, Requesting, Books, Rows, OwnAnswer
<1> QED
  BY <1>3, <1>4 DEF d

LEMMA OpenEntryInv ==
  ASSUME IInv, NEW p \in Procs, OpenEntry(p)
  PROVE  IInv'
<1> DEFINE c == [proc[p] EXCEPT !.pc = "writing", !.raced = FALSE]
<1>1. proc' = [proc EXCEPT ![p] = c]
  BY DEF OpenEntry
<1>2. /\ proc[p].pc = "caching" /\ proc[p].req \in Requests /\ proc[p].mode = "read_write"
      /\ KeyFor(proc[p].req) \in Keys
  BY CommandFields, RequestShape DEF OpenEntry, At, CommandInv, Requesting
<1>3. /\ DiskInv' /\ PaidThere' /\ (paid \subseteq Keys)'
      /\ disk'[KeyFor(proc[p].req)] # Absent
      /\ \A k \in Keys : disk[k] # Absent => disk'[k] # Absent
  BY <1>2, FileWritten DEF OpenEntry
<1>4. c \in CommandType
  <2>1. proc[p] \in CommandType /\ "writing" \in Labels
    BY CommandFields DEF Labels
  <2> QED
    BY <2>1 DEF CommandType
<1>5. /\ c.pc = "writing" /\ c.mode = proc[p].mode /\ c.req = proc[p].req
      /\ c.bill = proc[p].bill
      /\ c.guard = proc[p].guard /\ c.logged = proc[p].logged /\ c.billed = proc[p].billed
      /\ c.used = proc[p].used /\ c.rows = proc[p].rows /\ c.result = proc[p].result
      /\ c.answer = proc[p].answer
  BY CommandFields DEF CommandType
<1> HIDE DEF c
<1>6. CommandInv(c)
  BY <1>2, <1>4, <1>5, CommandFields DEF CommandInv, Requesting, Books, Rows, OwnAnswer
<1>7. \A q \in Procs : proc'[q] = IF q = p THEN c ELSE proc[q]
  BY <1>1 DEF IInv
<1>8. ASSUME NEW q \in Procs
      PROVE  CommandInv(proc'[q]) /\ Deposited(proc[q])'
  <2>1. CASE q = p
    BY <1>3, <1>5, <1>6, <1>7, <2>1 DEF Deposited
  <2>2. CASE q # p
    <3>1. proc'[q] = proc[q] /\ CommandInv(proc[q]) /\ Deposited(proc[q])
      BY <1>7, <2>2 DEF IInv
    <3>2. proc[q].pc \in {"writing", "recording"} => KeyFor(proc[q].req) \in Keys
      BY <3>1, RequestShape DEF CommandInv, Requesting
    <3> QED
      BY <1>3, <3>1, <3>2 DEF Deposited
  <2> QED
    BY <2>1, <2>2
<1>9. proc' \in [Procs -> CommandType]
  BY <1>1, <1>4 DEF IInv
<1> QED
  BY <1>3, <1>8, <1>9 DEF OpenEntry, IInv

LEMMA CloseEntryInv ==
  ASSUME IInv, NEW p \in Procs, CloseEntry(p)
  PROVE  IInv'
<1> DEFINE r == proc[p].req
           c == [proc[p] EXCEPT !.pc = "recording", !.raced = FALSE]
<1>1. /\ proc[p].pc = "writing" /\ r \in Requests /\ proc[p].mode = "read_write"
      /\ KeyFor(r) \in Keys
  BY CommandFields, RequestShape DEF CloseEntry, At, CommandInv, Requesting
<1>2. PICK e \in {Torn, Whole(r)} : disk' = [disk EXCEPT ![KeyFor(r)] = e]
  BY DEF CloseEntry
<1>3. /\ DiskInv' /\ PaidThere' /\ (paid \subseteq Keys)'
      /\ disk'[KeyFor(r)] # Absent
      /\ \A k \in Keys : disk[k] # Absent => disk'[k] # Absent
  BY <1>1, <1>2, FileWritten DEF CloseEntry
<1>4. c \in CommandType
  <2>1. proc[p] \in CommandType /\ "recording" \in Labels
    BY CommandFields DEF Labels
  <2> QED
    BY <2>1 DEF CommandType
<1>5. /\ c.pc = "recording" /\ c.mode = proc[p].mode /\ c.req = proc[p].req
      /\ c.bill = proc[p].bill
      /\ c.guard = proc[p].guard /\ c.logged = proc[p].logged /\ c.billed = proc[p].billed
      /\ c.used = proc[p].used /\ c.rows = proc[p].rows /\ c.result = proc[p].result
      /\ c.answer = proc[p].answer
  BY CommandFields DEF CommandType
<1>6. proc'[p] = c
  BY DEF CloseEntry
<1> HIDE DEF c
<1>7. CommandInv(c)
  BY <1>1, <1>4, <1>5, CommandFields DEF CommandInv, Requesting, Books, Rows, OwnAnswer
<1>8. ASSUME NEW q \in Procs
      PROVE  CommandInv(proc'[q]) /\ Deposited(proc[q])'
  <2>1. CASE q = p
    BY <1>3, <1>5, <1>6, <1>7, <2>1 DEF Deposited
  <2>2. CASE q # p
    <3>1. CommandInv(proc[q]) /\ Deposited(proc[q])
      BY DEF IInv
    <3>2. proc'[q] = proc[q] \/ proc'[q] = [proc[q] EXCEPT !.raced = TRUE]
      BY <2>2 DEF CloseEntry
    <3>3. /\ CommandInv(proc'[q]) /\ proc'[q].pc = proc[q].pc
          /\ proc'[q].mode = proc[q].mode /\ proc'[q].req = proc[q].req
      BY <3>1, <3>2, RacedInv
    <3>4. proc[q].pc \in {"writing", "recording"} => KeyFor(proc[q].req) \in Keys
      BY <3>1, RequestShape DEF CommandInv, Requesting
    <3> QED
      BY <1>3, <3>1, <3>3, <3>4 DEF Deposited
  <2> QED
    BY <2>1, <2>2
<1>9. proc' \in [Procs -> CommandType]
  <2>1. DOMAIN proc' = Procs /\ proc' = [q \in Procs |-> proc'[q]]
    BY DEF CloseEntry
  <2> QED
    BY <1>8, <2>1 DEF CommandInv
<1> QED
  BY <1>3, <1>8, <1>9 DEF CloseEntry, IInv

-----------------------------------------------------------------------------
(* The guard takes the bill: the three accounts of the command meet again, *)
(* and what was paid for is on disk.                                       *)
LEMMA RecordBillInv ==
  ASSUME IInv, NEW p \in Procs, RecordBill(p)
  PROVE  IInv'
<1> DEFINE c == proc[p]
           g == Recorded(c.budget, c.guard, c.bill)
           res == IF RecordReturns(c.budget, c.guard, c.bill) THEN "ok" ELSE "over"
           d == [c EXCEPT !.pc = "idle", !.bill = None, !.try = 0, !.answer = c.req,
                          !.guard = g, !.result = res]
<1>1. proc' = [proc EXCEPT ![p] = d]
  BY DEF RecordBill
<1>2. /\ c.pc = "recording" /\ c.req \in Requests /\ c.bill \in BillType /\ c.rows = 1
      /\ c.logged = c.billed /\ c.billed = c.guard.spent + c.bill.cost
      /\ c.guard.tripped \/ c.used = c.guard.tokens + c.bill.tokens
      /\ KeyFor(c.req) \in Keys
  BY CommandFields, RequestShape DEF RecordBill, At, CommandInv, Requesting, Rows, Books
<1>3. g \in GuardType /\ g.spent = c.guard.spent + c.bill.cost
      /\ (g.tripped \/ (~c.guard.tripped /\ g.tokens = c.guard.tokens + c.bill.tokens))
  BY <1>2, CommandFields, RecordedCounts
<1> HIDE DEF g
<1>4. d \in CommandType
  <2>1. c \in CommandType /\ "idle" \in Labels /\ 0 \in 0 .. MaxAttempts
        /\ res \in {"none", "hit", "ok", "over", "refused", "error"}
    BY CommandFields DEF Labels
  <2> HIDE DEF res
  <2> QED
    BY <1>2, <1>3, <2>1 DEF CommandType
<1>5. /\ d.pc = "idle" /\ d.req = c.req /\ d.answer = c.req /\ d.guard = g
      /\ d.logged = c.logged /\ d.billed = c.billed /\ d.used = c.used /\ d.rows = c.rows
      /\ d.result = res /\ res \in {"ok", "over"}
  BY CommandFields DEF CommandType
<1> HIDE DEF d, res
<1>6. Books(d)
  <2>1. d.guard.tripped \/ d.guard.tokens = d.used
    BY <1>2, <1>3, <1>5
  <2> QED
    BY <1>2, <1>3, <1>5, <2>1 DEF Books
<1>7. CommandInv(d)
  BY <1>2, <1>4, <1>5, <1>6 DEF CommandInv, Requesting, Rows, OwnAnswer
<1>8. Deposited(d)
  BY <1>5 DEF Deposited
<1>9. \A q \in Procs : CommandInv(proc'[q]) /\ Deposited(proc[q])'
  BY <1>1, <1>7, <1>8 DEF RecordBill, IInv, Deposited
<1>10. PaidThere' /\ (paid \subseteq Keys)'
  <2>1. c.mode = "read_write" => disk[KeyFor(c.req)] # Absent
    BY <1>2, CommandFields DEF Deposited
  <2> QED
    BY <1>2, <2>1 DEF RecordBill, IInv, PaidThere
<1>11. proc' \in [Procs -> CommandType]
  BY <1>1, <1>4 DEF IInv
<1>12. DiskInv'
  BY DEF RecordBill, IInv, DiskInv
<1> QED
  BY <1>9, <1>10, <1>11, <1>12 DEF RecordBill, IInv

(* A crash, with what it may leave of an open file. *)
LEMMA CrashInv ==
  ASSUME IInv, NEW p \in Procs, Crash(p)
  PROVE  IInv'
<1>1. /\ DiskInv' /\ PaidThere' /\ (paid \subseteq Keys)'
      /\ \A k \in Keys : disk[k] # Absent => disk'[k] # Absent
  <2>1. CASE disk' = disk
    BY <2>1 DEF Crash, IInv, DiskInv, PaidThere
  <2>2. CASE disk' # disk
    <3>1. At(p, "writing") /\ disk' = [disk EXCEPT ![KeyFor(proc[p].req)] = Torn]
      BY <2>2 DEF Crash
    <3>2. proc[p].req \in Requests
      BY <3>1, CommandFields DEF At, CommandInv, Requesting
    <3> QED
      BY <3>1, <3>2, FileWritten DEF Crash
  <2> QED
    BY <2>1, <2>2
<1>2. ASSUME NEW q \in Procs
      PROVE  CommandInv(proc'[q]) /\ Deposited(proc[q])'
  <2>1. CASE q = p
    <3>1. proc'[q] = Aborted(p) /\ Aborted(p).pc = "aborted"
      BY <2>1 DEF Crash, Aborted, Fresh
    <3> QED
      BY <3>1, AbortedInv DEF Deposited
  <2>2. CASE q # p
    <3>1. CommandInv(proc[q]) /\ Deposited(proc[q])
      BY DEF IInv
    <3>2. proc'[q] = proc[q] \/ proc'[q] = [proc[q] EXCEPT !.raced = TRUE]
      BY <2>2 DEF Crash
    <3>3. /\ CommandInv(proc'[q]) /\ proc'[q].pc = proc[q].pc
          /\ proc'[q].mode = proc[q].mode /\ proc'[q].req = proc[q].req
      BY <3>1, <3>2, RacedInv
    <3>4. proc[q].pc \in {"writing", "recording"} => KeyFor(proc[q].req) \in Keys
      BY <3>1, RequestShape DEF CommandInv, Requesting
    <3> QED
      BY <1>1, <3>1, <3>3, <3>4 DEF Deposited
  <2> QED
    BY <2>1, <2>2
<1>3. proc' \in [Procs -> CommandType]
  <2>1. DOMAIN proc' = Procs /\ proc' = [q \in Procs |-> proc'[q]]
    BY DEF Crash
  <2> QED
    BY <1>2, <2>1 DEF CommandInv
<1> QED
  BY <1>1, <1>2, <1>3 DEF Crash, IInv

LEMMA NewCommandInv ==
  ASSUME IInv, NEW p \in Procs, NEW m \in CacheModes, NEW b \in Budgets, NewCommand(p, m, b)
  PROVE  IInv'
<1>1. commands' \in 0 .. MaxCommands
  BY PipelineAssumption DEF NewCommand, IInv
<1> QED
  BY <1>1, FreshInv, OneMoves DEF NewCommand

LEMMA NextInv == IInv /\ [Next]_vars => IInv'
<1> SUFFICES ASSUME IInv, [Next]_vars PROVE IInv'
  OBVIOUS
<1>1. CASE UNCHANGED vars
  BY <1>1 DEF vars, IInv, DiskInv, PaidThere, Deposited
<1>2. ASSUME NEW p \in Procs, NEW r \in Asked[p], Ask(p, r)
      PROVE  IInv'
  BY <1>2, AskInv
<1>3. ASSUME NEW p \in Procs, Complete(p)
      PROVE  IInv'
  BY <1>3, LookupHitInv, LookupTornInv, LookupMissInv, PreflightInv, ProviderUnusableInv,
     ProviderAnswersInv, ProviderRetriedInv, ProviderFailsInv, LogAnswerInv, OpenEntryInv,
     CloseEntryInv, RecordBillInv
  DEF Complete
<1>4. ASSUME NEW p \in Procs, Crash(p)
      PROVE  IInv'
  BY <1>4, CrashInv
<1>5. ASSUME NEW p \in Procs, NEW m \in CacheModes, NEW b \in Budgets, NewCommand(p, m, b)
      PROVE  IInv'
  BY <1>5, NewCommandInv
<1> QED
  BY <1>1, <1>2, <1>3, <1>4, <1>5 DEF Next

-----------------------------------------------------------------------------
LEMMA Invariant == Spec => []IInv
BY InitInv, NextInv, PTL DEF Spec

-----------------------------------------------------------------------------
(* What two commands at once can spoil. A key that was never contended has *)
(* at most one command on its way to it, to a file that is not whole yet   *)
(* and that nobody else opens; the answer it leaves there is whole, and so *)
(* is one that was paid for.                                               *)
Settled(k) ==
  /\ \A p, q \in Procs : OnTheWay(proc[p], k) /\ OnTheWay(proc[q], k) => p = q
  /\ \A p \in Procs : OnTheWay(proc[p], k) =>
       disk[k].kind # "whole" /\ (At(p, "writing") => ~proc[p].raced)
  /\ \A p \in Procs :
       proc[p].mode = "read_write" /\ At(p, "recording") /\ KeyFor(proc[p].req) = k =>
         disk[k].kind = "whole"
  /\ k \in paid => disk[k].kind = "whole"

Uncontended ==
  /\ contended \subseteq Keys
  /\ \A k \in Keys : k \notin contended => Settled(k)

(* A step of process p. *)
Moves(p) ==
  \/ \E r \in Asked[p] : Ask(p, r)
  \/ Complete(p)
  \/ Crash(p)
  \/ \E m \in CacheModes, b \in Budgets : NewCommand(p, m, b)

(* The one step by which a command sets out to write a file: no other may  *)
(* be on the way to it, or the key is contended from then on.              *)
SetsOutFor(p, k) ==
  /\ LookupMiss(p) /\ proc[p].mode = "read_write" /\ KeyFor(proc[p].req) = k
  /\ proc'[p].pc = "preflight"

LEMMA OnlyByAMiss ==
  ASSUME IInv, NEW k \in Keys, NEW p \in Procs, ~OnTheWay(proc[p], k), ~SetsOutFor(p, k),
         Moves(p)
  PROVE  ~OnTheWay(proc'[p], k)
<1> DEFINE c == proc[p]
<1>1. c \in CommandType /\ proc \in [Procs -> CommandType] /\ Requesting(c)
  BY CommandFields DEF IInv, CommandInv
<1>2. ASSUME NEW r \in Asked[p], Ask(p, r)
      PROVE  ~OnTheWay(proc'[p], k)
  <2>1. /\ proc'[p].mode = c.mode
        /\ proc'[p].pc = IF c.mode = "off" THEN "preflight" ELSE "lookup"
    BY <1>1, <1>2 DEF Ask, CommandType
  <2> QED
    BY <2>1 DEF OnTheWay
<1>3. CASE LookupHit(p) \/ RecordBill(p)
  <2>1. proc'[p].pc = "idle"
    BY <1>1, <1>3 DEF LookupHit, RecordBill, CommandType
  <2> QED
    BY <2>1 DEF OnTheWay
<1>4. CASE LookupTorn(p) \/ ProviderUnusable(p) \/ Crash(p)
  <2>1. proc'[p].pc = "aborted"
    BY <1>1, <1>4 DEF LookupTorn, ProviderUnusable, Crash, Aborted, Fresh
  <2> QED
    BY <2>1 DEF OnTheWay
<1>5. CASE LookupMiss(p)
  <2>1. CASE c.mode = "read_only"
    <3>1. proc'[p].pc = "idle"
      BY <1>1, <1>5, <2>1 DEF LookupMiss, Raised, CommandType
    <3> QED
      BY <3>1 DEF OnTheWay
  <2>2. CASE c.mode # "read_only"
    <3>1. proc'[p].req = c.req /\ proc'[p].mode = c.mode /\ proc'[p].pc = "preflight"
      BY <1>1, <1>5, <2>2 DEF LookupMiss, CommandType
    <3> QED
      BY <1>5, <3>1 DEF SetsOutFor, OnTheWay
  <2> QED
    BY <2>1, <2>2
<1>6. CASE Preflight(p)
  <2>1. proc'[p].pc = "idle" \/ (proc'[p].mode = c.mode /\ proc'[p].req = c.req)
    BY <1>1, <1>6 DEF Preflight, Raised, CommandType
  <2> QED
    BY <1>6, <2>1 DEF Preflight, At, OnTheWay
<1>7. ASSUME NEW a \in Answers, ProviderAnswers(p, a)
      PROVE  ~OnTheWay(proc'[p], k)
  <2>1. proc'[p].mode = c.mode /\ proc'[p].req = c.req /\ c.pc = "calling"
    BY <1>1, <1>7 DEF ProviderAnswers, At, CommandType
  <2> QED
    BY <2>1 DEF OnTheWay
<1>8. ASSUME NEW f \in Failures, ProviderRetried(p, f)
      PROVE  ~OnTheWay(proc'[p], k)
  <2>1. proc'[p].mode = c.mode /\ proc'[p].req = c.req /\ c.pc = "calling"
    BY <1>1, <1>8 DEF ProviderRetried, At, CommandType
  <2> QED
    BY <2>1 DEF OnTheWay
<1>9. ASSUME NEW f \in Failures, ProviderFails(p, f)
      PROVE  ~OnTheWay(proc'[p], k)
  <2>1. proc'[p].pc = "idle"
    BY <1>1, <1>9 DEF ProviderFails, Raised, CommandType
  <2> QED
    BY <2>1 DEF OnTheWay
<1>10. CASE LogAnswer(p) \/ OpenEntry(p)
  <2>1. proc'[p].mode = c.mode /\ proc'[p].req = c.req /\ c.pc \in {"answered", "caching"}
    BY <1>1, <1>10 DEF LogAnswer, OpenEntry, At, CommandType
  <2> QED
    BY <2>1 DEF OnTheWay
<1>11. CASE CloseEntry(p)
  <2>1. proc'[p].pc = "recording"
    BY <1>1, <1>11 DEF CloseEntry, CommandType
  <2> QED
    BY <2>1 DEF OnTheWay
<1>12. ASSUME NEW m \in CacheModes, NEW b \in Budgets, NewCommand(p, m, b)
       PROVE  ~OnTheWay(proc'[p], k)
  <2>1. proc'[p].pc = "idle"
    BY <1>1, <1>12 DEF NewCommand, Fresh
  <2> QED
    BY <2>1 DEF OnTheWay
<1> QED
  BY <1>2, <1>3, <1>4, <1>5, <1>6, <1>7, <1>8, <1>9, <1>10, <1>11, <1>12
  DEF Moves, Complete

(* Nobody sets out to write what is there. *)
LEMMA SetsOut ==
  ASSUME IInv, NEW k \in Keys, disk[k] # Absent, NEW p \in Procs, ~OnTheWay(proc[p], k),
         Moves(p)
  PROVE  ~OnTheWay(proc'[p], k)
<1>1. disk[k] \in Entries /\ disk[k] # Absent
  BY DEF IInv, DiskInv
<1>2. disk[k].kind # "absent"
  BY <1>1 DEF Entries, Torn, Whole
<1>3. ~SetsOutFor(p, k)
  BY <1>2 DEF SetsOutFor, LookupMiss
<1> QED
  BY <1>3, OnlyByAMiss

(* The other commands stay where they are. *)
LEMMA OthersStay ==
  ASSUME IInv, NEW p \in Procs, NEW q \in Procs, q # p,
         Moves(p)
  PROVE  /\ proc'[q].pc = proc[q].pc /\ proc'[q].mode = proc[q].mode
         /\ proc'[q].req = proc[q].req
<1>1. proc[q] \in CommandType /\ proc \in [Procs -> CommandType]
  BY DEF IInv
<1>2. proc'[q] = proc[q] \/ proc'[q] = [proc[q] EXCEPT !.raced = TRUE]
  BY <1>1, ZenonT(60)
  DEF Moves, Ask, Complete, Crash, NewCommand, LookupHit, LookupTorn, LookupMiss, Preflight,
      ProviderUnusable, ProviderAnswers, ProviderRetried, ProviderFails, LogAnswer, OpenEntry,
      CloseEntry, RecordBill
<1> QED
  BY <1>1, <1>2 DEF CommandType

(* Only a command on its way to a file changes it. *)
LEMMA OnlyWritersWrite ==
  ASSUME IInv, NEW k \in Keys, NEW p \in Procs, ~OnTheWay(proc[p], k),
         Moves(p)
  PROVE  disk'[k] = disk[k]
<1>1. Requesting(proc[p]) /\ disk \in [Keys -> Entries]
  BY CommandFields DEF IInv, DiskInv, CommandInv
<1>2. CASE UNCHANGED disk
  BY <1>2
<1>3. CASE ~UNCHANGED disk
  <2>1. /\ proc[p].pc \in {"caching", "writing"}
        /\ \E e : disk' = [disk EXCEPT ![KeyFor(proc[p].req)] = e]
    <3>1. OpenEntry(p) \/ CloseEntry(p) \/ Crash(p)
      BY <1>3
      DEF Moves, Ask, Complete, NewCommand, LookupHit, LookupTorn, LookupMiss, Preflight,
          ProviderUnusable, ProviderAnswers, ProviderRetried, ProviderFails, LogAnswer,
          RecordBill
    <3> QED
      BY <1>3, <3>1 DEF OpenEntry, CloseEntry, Crash, At
  <2>2. KeyFor(proc[p].req) # k
    BY <1>1, <2>1 DEF Requesting, OnTheWay
  <2> QED
    BY <1>1, <2>1, <2>2
<1> QED
  BY <1>2, <1>3

(* The steps that touch no file: they open and close none, and pay for     *)
(* none.                                                                   *)
LEMMA NoFileTouched ==
  ASSUME IInv, NEW p \in Procs, Moves(p),
         ~OpenEntry(p), ~CloseEntry(p), ~Crash(p), ~RecordBill(p)
  PROVE  /\ disk' = disk /\ paid' = paid
         /\ \A q \in Procs \ {p} : proc'[q] = proc[q]
         /\ proc'[p].pc # "writing"
         /\ proc'[p].pc = "recording" => proc'[p].mode # "read_write"
<1> DEFINE c == proc[p]
<1>1. c \in CommandType /\ proc \in [Procs -> CommandType]
  BY CommandFields DEF IInv
<1>2. disk' = disk /\ paid' = paid
  BY DEF Moves, Ask, Complete, NewCommand, LookupHit, LookupTorn, LookupMiss, Preflight,
         ProviderUnusable, ProviderAnswers, ProviderRetried, ProviderFails, LogAnswer
<1>3. \A q \in Procs \ {p} : proc'[q] = proc[q]
  BY <1>1, ZenonT(60)
  DEF Moves, Ask, Complete, NewCommand, LookupHit, LookupTorn, LookupMiss, Preflight,
      ProviderUnusable, ProviderAnswers, ProviderRetried, ProviderFails, LogAnswer
<1>4. proc'[p].pc \in {"idle", "aborted", "lookup", "preflight", "calling", "answered"}
        \/ LogAnswer(p)
  <2>1. ASSUME NEW r \in Asked[p], Ask(p, r)
        PROVE  proc'[p].pc \in {"lookup", "preflight"}
    BY <1>1, <2>1 DEF Ask, CommandType
  <2>2. CASE LookupHit(p) \/ LookupTorn(p)
    BY <1>1, <2>2 DEF LookupHit, LookupTorn, Aborted, Fresh, CommandType
  <2>8. /\ Raised(p, "error", 1).pc = "idle" /\ Raised(p, "refused", 0).pc = "idle"
    BY <1>1 DEF Raised, CommandType
  <2>9. CASE LookupMiss(p) \/ Preflight(p)
    BY <1>1, <2>8, <2>9 DEF LookupMiss, Preflight, CommandType
  <2>3. CASE ProviderUnusable(p)
    BY <1>1, <2>3 DEF ProviderUnusable, Aborted, Fresh
  <2>4. ASSUME NEW a \in Answers, ProviderAnswers(p, a)
        PROVE  proc'[p].pc = "answered"
    BY <1>1, <2>4 DEF ProviderAnswers, CommandType
  <2>5. ASSUME NEW f \in Failures, ProviderRetried(p, f)
        PROVE  proc'[p].pc = "calling"
    BY <1>1, <2>5 DEF ProviderRetried, At, CommandType
  <2>6. ASSUME NEW f \in Failures, ProviderFails(p, f)
        PROVE  proc'[p].pc = "idle"
    BY <1>1, <2>6 DEF ProviderFails, Raised, CommandType
  <2>7. ASSUME NEW m \in CacheModes, NEW b \in Budgets, NewCommand(p, m, b)
        PROVE  proc'[p].pc = "idle"
    BY <1>1, <2>7 DEF NewCommand, Fresh
  <2> QED
    BY <2>1, <2>2, <2>3, <2>4, <2>5, <2>6, <2>7, <2>9 DEF Moves, Complete
<1>5. LogAnswer(p) =>
        /\ proc'[p].pc \in {"caching", "recording"} /\ proc'[p].mode = c.mode
        /\ proc'[p].pc = "recording" => c.mode # "read_write"
  BY <1>1 DEF LogAnswer, CommandType
<1> QED
  BY <1>2, <1>3, <1>4, <1>5

(* A step of one command keeps a key settled that is not contended after it. *)
LEMMA MoveSettles ==
  ASSUME IInv, NEW p \in Procs, Moves(p), NEW k \in Keys, Settled(k),
         SetsOutFor(p, k) => Quiet(k)
  PROVE  Settled(k)'
<1> DEFINE c == proc[p]
<1>1. c \in CommandType /\ proc \in [Procs -> CommandType] /\ Requesting(c)
  BY CommandFields DEF IInv, CommandInv
<1>2. disk \in [Keys -> Entries] /\ disk[k] \in Entries
  BY DEF IInv, DiskInv
<1>3. \A q \in Procs \ {p} :
        /\ proc'[q].pc = proc[q].pc /\ proc'[q].mode = proc[q].mode
        /\ proc'[q].req = proc[q].req
  BY OthersStay
<1>4. \A q \in Procs \ {p} : OnTheWay(proc'[q], k) <=> OnTheWay(proc[q], k)
  BY <1>3 DEF OnTheWay
<1>5. \A q \in Procs : OnTheWay(proc[q], k) => disk[k].kind # "whole"
  BY DEF Settled
<1>6. CASE SetsOutFor(p, k)
  <2>1. /\ ~OpenEntry(p) /\ ~CloseEntry(p) /\ ~Crash(p) /\ ~RecordBill(p)
        /\ disk[k].kind = "absent"
    BY <1>1, <1>6
    DEF SetsOutFor, LookupMiss, OpenEntry, CloseEntry, RecordBill, Crash, At, Aborted, Fresh
  <2>2. \A q \in Procs : OnTheWay(proc'[q], k) => q = p
    BY <1>4, <1>6 DEF Quiet
  <2>3. proc'[p].pc = "preflight"
    BY <1>6 DEF SetsOutFor
  <2>4. disk' = disk /\ paid' = paid /\ \A q \in Procs \ {p} : proc'[q] = proc[q]
    BY <2>1, NoFileTouched
  <2> QED
    BY <2>1, <2>2, <2>3, <2>4 DEF Settled, At
<1>7. CASE ~SetsOutFor(p, k)
  <2>1. \A q \in Procs : OnTheWay(proc'[q], k) => OnTheWay(proc[q], k)
    BY <1>4, <1>7, OnlyByAMiss
  <2>2. \A q, r \in Procs : OnTheWay(proc'[q], k) /\ OnTheWay(proc'[r], k) => q = r
    BY <2>1 DEF Settled
  <2>3. CASE ~OpenEntry(p) /\ ~CloseEntry(p) /\ ~Crash(p) /\ ~RecordBill(p)
    BY <2>1, <2>2, <2>3, NoFileTouched DEF Settled, At
  <2>4. CASE RecordBill(p)
    <3>1. /\ disk' = disk /\ proc'[p].pc = "idle"
          /\ \A q \in Procs \ {p} : proc'[q] = proc[q]
          /\ paid' = IF c.mode = "read_write" THEN paid \cup {KeyFor(c.req)} ELSE paid
      BY <1>1, <2>4 DEF RecordBill, CommandType
    <3>2. At(p, "recording")
      BY <2>4 DEF RecordBill
    <3>3. k \in paid' => disk[k].kind = "whole"
      BY <3>1, <3>2 DEF Settled
    <3> QED
      BY <2>1, <2>2, <3>1, <3>3 DEF Settled, At
  <2>5. CASE OpenEntry(p)
    <3>1. /\ disk' = [disk EXCEPT ![KeyFor(c.req)] = Torn] /\ paid' = paid
          /\ proc'[p].pc = "writing" /\ ~proc'[p].raced /\ c.pc = "caching"
          /\ \A q \in Procs \ {p} : proc'[q] = proc[q]
      BY <1>1, <2>5 DEF OpenEntry, At, CommandType
    <3>2. CASE KeyFor(c.req) = k
      <4>1. OnTheWay(c, k)
        BY <1>1, <3>1, <3>2 DEF OnTheWay, Requesting
      <4>2. disk'[k].kind = "torn" /\ disk[k].kind # "whole"
        BY <1>2, <1>5, <3>1, <3>2, <4>1 DEF Torn
      <4> QED
        BY <2>1, <2>2, <3>1, <4>2 DEF Settled, At
    <3>3. CASE KeyFor(c.req) # k
      <4>1. disk'[k] = disk[k]
        BY <1>2, <3>1, <3>3
      <4> QED
        BY <2>1, <2>2, <3>1, <4>1 DEF Settled, At
    <3> QED
      BY <3>2, <3>3
  <2>6. CASE CloseEntry(p) \/ Crash(p)
    <3>1. /\ paid' = paid /\ proc'[p].pc \in {"recording", "aborted"}
          /\ CloseEntry(p) => proc'[p].req = c.req /\ c.pc = "writing"
          /\ proc'[p].pc = "recording" => CloseEntry(p)
      <4>1. CASE CloseEntry(p)
        <5>1. proc'[p] = [c EXCEPT !.pc = "recording", !.raced = FALSE]
          BY <4>1 DEF CloseEntry
        <5> QED
          BY <1>1, <4>1, <5>1 DEF CloseEntry, At, CommandType
      <4>2. CASE Crash(p) /\ ~CloseEntry(p)
        <5>1. proc'[p] = Aborted(p) /\ paid' = paid
          BY <4>2 DEF Crash
        <5> QED
          BY <4>2, <5>1 DEF Aborted, Fresh
      <4> QED
        BY <2>6, <4>1, <4>2
    <3>2. \A q \in Procs \ {p} : proc'[q] = proc[q] \/ (q \in CoWriters(p) /\ c.pc = "writing")
      BY <2>6 DEF CloseEntry, Crash, At
    <3>3. CASE c.pc = "writing" /\ KeyFor(c.req) = k
      <4>1. OnTheWay(c, k) /\ disk[k].kind # "whole" /\ ~c.raced
        BY <1>1, <1>5, <3>3 DEF OnTheWay, Requesting, Settled, At
      <4>2. \A q \in Procs \ {p} : ~OnTheWay(proc[q], k)
        BY <4>1 DEF Settled
      <4>3. \A q \in Procs : ~OnTheWay(proc'[q], k)
        BY <1>4, <3>1, <4>2 DEF OnTheWay
      <4>4. \A q \in Procs \ {p} :
              ~(proc'[q].mode = "read_write" /\ At(q, "recording")' /\ KeyFor(proc'[q].req) = k)
        BY <1>3, <4>1 DEF Settled, At
      <4>5. proc'[p].pc = "recording" => disk'[k].kind = "whole"
        BY <1>2, <3>1, <3>3, <4>1 DEF CloseEntry, Whole
      <4>6. k \notin paid'
        BY <3>1, <4>1 DEF Settled
      <4> QED
        BY <4>3, <4>4, <4>5, <4>6 DEF Settled, At
    <3>4. CASE ~(c.pc = "writing" /\ KeyFor(c.req) = k)
      <4>1. disk'[k] = disk[k]
        BY <1>2, <2>6, <3>4 DEF CloseEntry, Crash, At
      <4>2. ASSUME NEW q \in Procs \ {p}, OnTheWay(proc'[q], k)
            PROVE  proc'[q] = proc[q]
        BY <1>4, <3>2, <3>4, <4>2 DEF CoWriters, OnTheWay
      <4>3. \A q \in Procs :
              /\ OnTheWay(proc'[q], k) => q # p
              /\ ~(q = p /\ At(q, "recording")' /\ KeyFor(proc'[q].req) = k)
        BY <3>1, <3>4 DEF OnTheWay, At
      <4>4. \A q \in Procs :
              proc'[q].mode = "read_write" /\ At(q, "recording")' /\ KeyFor(proc'[q].req) = k
                => disk[k].kind = "whole"
        BY <1>3, <4>3 DEF Settled, At
      <4> QED
        BY <2>1, <2>2, <3>1, <4>1, <4>2, <4>3, <4>4 DEF Settled, At
    <3> QED
      BY <3>3, <3>4
  <2> QED
    BY <2>3, <2>4, <2>5, <2>6
<1> QED
  BY <1>6, <1>7

(* Who sets out beside another makes the key contended. *)
LEMMA MoveContends ==
  ASSUME IInv, Uncontended, NEW p \in Procs, Moves(p)
  PROVE  /\ contended \subseteq contended' /\ contended' \subseteq Keys
         /\ \A k \in Keys : SetsOutFor(p, k) /\ ~Quiet(k) => k \in contended'
<1>1. CASE LookupMiss(p)
  <2>1. KeyFor(proc[p].req) \in Keys
    BY <1>1, CommandFields, RequestShape DEF LookupMiss, At, CommandInv, Requesting
  <2> QED
    BY <1>1, <2>1 DEF LookupMiss, SetsOutFor, Uncontended
<1>2. CASE ~LookupMiss(p)
  <2>1. contended' = contended
    BY <1>2
    DEF Moves, Ask, Complete, Crash, NewCommand, LookupHit, LookupTorn, Preflight,
        ProviderUnusable, ProviderAnswers, ProviderRetried, ProviderFails, LogAnswer, OpenEntry,
        CloseEntry, RecordBill
  <2> QED
    BY <1>2, <2>1 DEF SetsOutFor, Uncontended
<1> QED
  BY <1>1, <1>2

LEMMA AlwaysUncontended == Spec => []Uncontended
<1>1. Init => Uncontended
  BY DEF Init, Uncontended, Settled, OnTheWay, At, Fresh
<1>2. IInv /\ Uncontended /\ [Next]_vars => Uncontended'
  <2> SUFFICES ASSUME IInv, Uncontended, [Next]_vars PROVE Uncontended'
    OBVIOUS
  <2>1. CASE UNCHANGED vars
    BY <2>1 DEF vars, Uncontended, Settled, OnTheWay, At
  <2>2. CASE Next
    <3>1. PICK p \in Procs : Moves(p)
      BY <2>2 DEF Next, Moves
    <3>2. /\ contended \subseteq contended' /\ contended' \subseteq Keys
          /\ \A k \in Keys : SetsOutFor(p, k) /\ ~Quiet(k) => k \in contended'
      BY <3>1, MoveContends
    <3>3. ASSUME NEW k \in Keys, k \notin contended'
          PROVE  Settled(k)'
      BY <3>1, <3>2, <3>3, MoveSettles DEF Uncontended
    <3> QED
      BY <3>2, <3>3 DEF Uncontended
  <2> QED
    BY <2>1, <2>2
<1> QED
  BY <1>1, <1>2, Invariant, PTL DEF Spec

(* Every command is where complete() can be, within its attempts and its   *)
(* one row, and every file is absent, torn or somebody's answer.           *)
THEOREM TypeCorrect == Spec => []TypeOK
<1>1. IInv /\ Uncontended => TypeOK
  <2> SUFFICES ASSUME IInv, Uncontended PROVE TypeOK
    OBVIOUS
  <2>1. \A p \in Procs : proc[p] \in CommandType
    BY DEF IInv
  <2>2. \A k \in Keys : disk[k] \in {Absent, Torn} \cup {Whole(r) : r \in Requests}
    BY DEF IInv, DiskInv, Entries
  <2>3. 0 .. 1 \subseteq 0 .. MaxAttempts
    BY PipelineAssumption
  <2> QED
    BY <2>1, <2>2, <2>3 DEF IInv, Uncontended, TypeOK, CommandType
<1> QED
  BY <1>1, Invariant, AlwaysUncontended, PTL

(* Between requests the rows of a run, its guard and the providers'        *)
(* charges are the same money, and the tokens are each counted once until  *)
(* the guard latches, whatever the answers cost and however the calls      *)
(* ended (llm/pipeline.py 32-187).                                         *)
THEOREM LedgersAlwaysAgree == Spec => []LedgersAgree
<1>1. IInv => LedgersAgree
  <2> SUFFICES ASSUME IInv, NEW p \in Procs, At(p, "idle")
               PROVE  /\ proc[p].logged = proc[p].billed
                      /\ proc[p].guard.spent = proc[p].billed
                      /\ proc[p].guard.tripped \/ proc[p].guard.tokens = proc[p].used
    BY DEF LedgersAgree
  <2>1. Books(proc[p]) /\ proc[p].pc = "idle"
    BY DEF IInv, CommandInv, At
  <2> QED
    BY <2>1 DEF Books
<1> QED
  BY <1>1, Invariant, PTL

(* What complete() returns was written for what it was asked: keys tell    *)
(* requests apart, and only whole answers are returned (llm/cache.py).     *)
THEOREM AnswersAlwaysBelong == Spec => []AnswersBelong
<1>1. IInv => AnswersBelong
  BY DEF IInv, CommandInv, OwnAnswer, AnswersBelong
<1> QED
  BY <1>1, Invariant, PTL

(* What was paid for is whole on disk when complete() has ended and stays  *)
(* so, through every crash and later command, unless two commands set out  *)
(* to write it at once; and even then its file is there.                   *)
THEOREM PaidAlwaysCached == Spec => []PaidIsCached
<1>1. IInv /\ Uncontended => PaidIsCached
  BY DEF IInv, PaidThere, Uncontended, Settled, PaidIsCached
<1> QED
  BY <1>1, Invariant, AlwaysUncontended, PTL

-----------------------------------------------------------------------------
(* A file that is there and that nobody is on the way to write is final,   *)
(* whole or torn, and nobody sets out to write it: no answer is paid for   *)
(* twice through the cache, and no torn file is ever repaired.             *)
THEOREM EntriesStayFinal == Spec => EntriesAreFinal
<1>1. ASSUME IInv, [Next]_vars, NEW k \in Keys, disk[k] # Absent, Quiet(k)
      PROVE  disk'[k] = disk[k] /\ Quiet(k)'
  <2>1. \A q \in Procs : ~OnTheWay(proc[q], k)
    BY <1>1 DEF Quiet, OnTheWay
  <2>2. CASE UNCHANGED vars
    BY <1>1, <2>2 DEF vars, Quiet
  <2>3. CASE Next
    <3>1. PICK p \in Procs : Moves(p)
      BY <2>3 DEF Next, Moves
    <3>2. disk'[k] = disk[k]
      BY <1>1, <2>1, <3>1, OnlyWritersWrite
    <3>3. ~OnTheWay(proc'[p], k)
      BY <1>1, <2>1, <3>1, SetsOut
    <3>4. \A q \in Procs : ~OnTheWay(proc'[q], k)
      BY <1>1, <2>1, <3>1, <3>3, OthersStay DEF OnTheWay
    <3> QED
      BY <3>2, <3>4 DEF Quiet, OnTheWay
  <2> QED
    BY <1>1, <2>2, <2>3
<1>2. IInv /\ [Next]_vars =>
        [\A k \in Keys :
           (disk[k] # Absent /\ Quiet(k)) => (disk'[k] = disk[k] /\ Quiet(k)')]_vars
  BY <1>1
<1> QED
  BY <1>2, Invariant, PTL DEF Spec, EntriesAreFinal
=============================================================================
