------------------------- MODULE CompletionPipeline -------------------------
(***************************************************************************)
(* LLMClient.complete as every provider adapter runs it: run_completion    *)
(* (kalinov.llm.pipeline) with the disk cache (kalinov.llm.cache), the     *)
(* retries (kalinov.llm.retrying), the llm_calls.jsonl row                 *)
(* (kalinov.llm.telemetry), the adapters and the price of an answer        *)
(* (module Providers) and the budget guard (module Budget).                *)
(*                                                                         *)
(* Commands run in processes that share one cache directory and nothing    *)
(* else: the guard and the run's rows are a command's own. A command dies  *)
(* of a crash, or of an exception that is not an LLMError (nothing between *)
(* here and the command line catches those), and a later command may run   *)
(* in its place over the files it left.                                    *)
(***************************************************************************)
EXTENDS Providers

CONSTANTS
  Procs,               (* processes sharing the cache directory *)
  Asked,               (* per process, what its commands may ask: a set of *)
                       (* records of provider, base_url, model and prompt *)
  Budgets,             (* the budgets a command may be started with *)
  PricingFile,         (* pricing.yaml: provider -> model -> row *)
  Answers,             (* the models and counts a provider may answer with *)
  Failures,            (* the ways an attempt may fail *)
  MaxAttempts,         (* LLM_MAX_RETRIES *)
  MaxRequests,         (* bound: requests of one command *)
  MaxCommands          (* bound: commands started after the first ones *)

(* What complete() is asked. *)
Request(provider, base_url, model, prompt) ==
  [provider |-> provider, base_url |-> base_url, model |-> model, prompt |-> prompt]

ASSUME PipelineAssumption ==
  /\ Budgets \subseteq BudgetType
  /\ \A p \in Procs : \A r \in Asked[p] :
       r.provider \in Vendors /\ r = Request(r.provider, r.base_url, r.model, r.prompt)
  /\ \A a \in Answers : a.provider \in Vendors /\ a.counts \in Reported(a.provider)
  /\ \A v \in DOMAIN PricingFile : \A m \in DOMAIN PricingFile[v] :
       PricingFile[v][m] \in EntryType
  /\ Failures \subseteq FailureType
  /\ MaxAttempts \in Nat \ {0}
  /\ MaxRequests \in Nat
  /\ MaxCommands \in Nat

VARIABLES
  disk,                (* the cache directory, one file per key *)
  proc,                (* the command each process runs *)
  commands,            (* how many more commands will be started *)
  paid,                (* history: keys a read_write command paid for *)
  contended            (* history: keys two commands set out to write at once *)

Requests == UNION {Asked[p] : p \in Procs}

vars == <<disk, proc, commands, paid, contended>>

(* Mutant: the provider key alone names the endpoint. *)
NamespaceOfProvider(r) == <<r.provider>>

(* The cache key: the namespace, the model alias and everything else the   *)
(* request says (messages, limits, allow-listed extras: "prompt" here).    *)
(* Only openai_compat has a namespace other than its provider key.         *)
Namespace(r) ==
  IF r.base_url # None THEN <<r.provider, r.base_url>> ELSE <<r.provider>>

KeyFor(r) == <<Namespace(r), r.model, r.prompt>>

Keys == {KeyFor(r) : r \in Requests}

(* The table as load_default_catalogue reads it. *)
Rates == Catalogue(PricingFile)

(* A cache file is absent, cut short (empty or partly written, so that     *)
(* json.loads raises), or holds the whole answer to a request.             *)
Absent == [kind |-> "absent"]
Torn == [kind |-> "torn"]
Whole(r) == [kind |-> "whole", answer |-> r]

CacheModes == {"off", "read_write", "read_only"}

Fresh(mode, budget) ==
  [pc |-> "idle",              (* where the command is in complete() *)
   mode |-> mode,              (* LLMCache._mode *)
   budget |-> budget,
   guard |-> NewGuard,
   left |-> MaxRequests,       (* requests it will still make *)
   req |-> None,               (* the request being completed *)
   try |-> 0,                  (* attempts made by with_retries *)
   bill |-> None,              (* the bill of the answer in hand *)
   raced |-> FALSE,            (* another writer closed this file meanwhile *)
   result |-> "none",          (* how the last complete() ended *)
   answer |-> None,            (* the request its answer was written for *)
   rows |-> 0,                 (* rows of llm_calls.jsonl this complete() wrote *)
   logged |-> 0,               (* USD in the rows of this run *)
   billed |-> 0,               (* USD the providers charged this command *)
   used |-> 0]                 (* tokens the providers counted for it *)

Init ==
  /\ disk = [k \in Keys |-> Absent]
  /\ proc \in [Procs -> {Fresh(m, b) : m \in CacheModes, b \in Budgets}]
  /\ commands = MaxCommands
  /\ paid = {}
  /\ contended = {}

At(p, label) == proc[p].pc = label

Aborted(p) == [Fresh(proc[p].mode, proc[p].budget) EXCEPT !.pc = "aborted"]

(* complete() ends in an LLMError, which left its rows. *)
Raised(p, result, rows) ==
  [proc[p] EXCEPT !.pc = "idle", !.req = None, !.try = 0, !.result = result, !.rows = @ + rows]

-----------------------------------------------------------------------------
(* run_completion begins. *)
Ask(p, r) ==
  /\ At(p, "idle")
  /\ proc[p].left > 0
  /\ proc' = [proc EXCEPT
       ![p].pc = IF proc[p].mode = "off" THEN "preflight" ELSE "lookup",
       ![p].left = @ - 1, ![p].req = r, ![p].try = 0,
       ![p].result = "none", ![p].answer = None, ![p].rows = 0]
  /\ UNCHANGED <<disk, commands, paid, contended>>

(* Mutant: an answer on disk is fetched again. *)
LookupHitRefetches(p) ==
  /\ At(p, "lookup")
  /\ disk[KeyFor(proc[p].req)].kind = "whole"
  /\ proc' = [proc EXCEPT ![p].pc = "preflight"]
  /\ UNCHANGED <<disk, commands, paid, contended>>

(* LLMCache.get finds the answer: one free row, and the guard is not asked. *)
LookupHit(p) ==
  LET entry == disk[KeyFor(proc[p].req)]
  IN  /\ At(p, "lookup")
      /\ entry.kind = "whole"
      /\ proc' = [proc EXCEPT
           ![p].pc = "idle", ![p].result = "hit", ![p].answer = entry.answer,
           ![p].rows = @ + 1]
      /\ UNCHANGED <<disk, commands, paid, contended>>

(* json.loads raises on a file cut short: no row, and the command dies. *)
LookupTorn(p) ==
  /\ At(p, "lookup")
  /\ disk[KeyFor(proc[p].req)].kind = "torn"
  /\ proc' = [proc EXCEPT ![p] = Aborted(p)]
  /\ UNCHANGED <<disk, commands, paid, contended>>

(* A command that has found no file for key k and is on its way to write it. *)
OnTheWay(c, k) ==
  /\ c.mode = "read_write"
  /\ c.pc \in {"preflight", "calling", "answered", "caching", "writing"}
  /\ KeyFor(c.req) = k

(* Nobody may write the file of key k any more. *)
Quiet(k) == \A p \in Procs : ~OnTheWay(proc[p], k)

(* No file: a read_only cache makes that an LLMError, with a row; else the *)
(* call will be paid for, which another command may be about to do too.    *)
LookupMiss(p) ==
  /\ At(p, "lookup")
  /\ disk[KeyFor(proc[p].req)].kind = "absent"
  /\ proc' = IF proc[p].mode = "read_only"
             THEN [proc EXCEPT ![p] = Raised(p, "error", 1)]
             ELSE [proc EXCEPT ![p].pc = "preflight"]
  /\ contended' = IF proc[p].mode = "read_write" /\ ~Quiet(KeyFor(proc[p].req))
                  THEN contended \cup {KeyFor(proc[p].req)} ELSE contended
  /\ UNCHANGED <<disk, commands, paid>>

(* The guard is asked before the provider; a refusal leaves no row. *)
Preflight(p) ==
  /\ At(p, "preflight")
  /\ proc' = IF EnsureNotExceeded(proc[p].budget, proc[p].guard)
             THEN [proc EXCEPT ![p].pc = "calling", ![p].try = 1]
             ELSE [proc EXCEPT ![p] = Raised(p, "refused", 0)]
  /\ UNCHANGED <<disk, commands, paid, contended>>

(* An attempt answers: from here on the call has been charged. *)
ProviderAnswers(p, a) ==
  LET r == proc[p].req
      bill == BillFor(Rates, r.provider, r.model, a.model,
                      UsageOf(r.provider, a.counts))
  IN  /\ At(p, "calling")
      /\ a.provider = r.provider
      /\ proc' = [proc EXCEPT ![p].pc = "answered", ![p].bill = bill,
                              ![p].billed = @ + bill.cost,
                              ![p].used = @ + CountedOnce(r.provider, a.counts)]
      /\ UNCHANGED <<disk, commands, paid, contended>>

(* The adapter's LLMError for failure f is one that with_retries retries.  *)
Transient(p, f) == Retriable(ErrorOf(proc[p].req.provider, f))

(* Mutant: attempts are counted from zero. *)
ProviderRetriedOnceMore(p, f) ==
  /\ At(p, "calling")
  /\ Transient(p, f)
  /\ proc[p].try <= MaxAttempts
  /\ proc' = [proc EXCEPT ![p].try = @ + 1]
  /\ UNCHANGED <<disk, commands, paid, contended>>

(* Mutant: the count of attempts starts over. *)
ProviderRetriedForever(p, f) ==
  /\ At(p, "calling")
  /\ Transient(p, f)
  /\ proc' = [proc EXCEPT ![p].try = (@ % MaxAttempts) + 1]
  /\ UNCHANGED <<disk, commands, paid, contended>>

(* An attempt fails with a retriable rate_limit or server error and there  *)
(* are attempts left: with_retries makes another one.                      *)
ProviderRetried(p, f) ==
  /\ At(p, "calling")
  /\ Transient(p, f)
  /\ proc[p].try < MaxAttempts
  /\ proc' = [proc EXCEPT ![p].try = @ + 1]
  /\ UNCHANGED <<disk, commands, paid, contended>>

(* An attempt fails for good (any other code, a timeout included) or was   *)
(* the last one: one row, and the LLMError goes to the caller.             *)
ProviderFails(p, f) ==
  /\ At(p, "calling")
  /\ Transient(p, f) => proc[p].try = MaxAttempts
  /\ proc' = [proc EXCEPT ![p] = Raised(p, "error", 1)]
  /\ UNCHANGED <<disk, commands, paid, contended>>

(* The OpenAI adapters cannot read an answer without choices (or usage):   *)
(* an exception that is not an LLMError, after the call was charged.       *)
ProviderUnusable(p) ==
  /\ At(p, "calling")
  /\ proc[p].req.provider \in {"openai", "openai_compat"}
  /\ proc' = [proc EXCEPT ![p] = Aborted(p)]
  /\ UNCHANGED <<disk, commands, paid, contended>>

(* Mutant: the row and the cache wait until the guard has accepted. *)
LogAnswerIfAccepted(p) ==
  LET accepted == RecordReturns(proc[p].budget, proc[p].guard, proc[p].bill)
  IN  /\ At(p, "answered")
      /\ proc' = [proc EXCEPT
           ![p].pc = IF accepted /\ proc[p].mode = "read_write" THEN "caching" ELSE "recording",
           ![p].logged = @ + IF accepted THEN proc[p].bill.cost ELSE 0,
           ![p].rows = @ + IF accepted THEN 1 ELSE 0]
      /\ UNCHANGED <<disk, commands, paid, contended>>

(* log_llm_call: the row with the call's cost, before the cache and the    *)
(* guard may raise.                                                        *)
LogAnswer(p) ==
  /\ At(p, "answered")
  /\ proc' = [proc EXCEPT
       ![p].pc = IF proc[p].mode = "read_write" THEN "caching" ELSE "recording",
       ![p].logged = @ + proc[p].bill.cost,
       ![p].rows = @ + 1]
  /\ UNCHANGED <<disk, commands, paid, contended>>

(* LLMCache.set: write_text opens the file, which empties it ... *)
OpenEntry(p) ==
  /\ At(p, "caching")
  /\ disk' = [disk EXCEPT ![KeyFor(proc[p].req)] = Torn]
  /\ proc' = [proc EXCEPT ![p].pc = "writing", ![p].raced = FALSE]
  /\ UNCHANGED <<commands, paid, contended>>

(* The other processes that have the file of p's request open for writing. *)
CoWriters(p) ==
  {q \in Procs \ {p} : At(q, "writing") /\ KeyFor(proc[q].req) = KeyFor(proc[p].req)}

(* ... and then writes it. Two writers each write from their own start of  *)
(* the file: if another one wrote since p opened it, the tail of a longer  *)
(* answer may stay behind p's.                                             *)
CloseEntry(p) ==
  LET k == KeyFor(proc[p].req)
  IN  /\ At(p, "writing")
      /\ disk' \in {[disk EXCEPT ![k] = e] :
                      e \in {Whole(proc[p].req)} \cup IF proc[p].raced THEN {Torn} ELSE {}}
      /\ proc' = [q \in Procs |->
                    IF q = p THEN [proc[p] EXCEPT !.pc = "recording", !.raced = FALSE]
                    ELSE IF q \in CoWriters(p) THEN [proc[q] EXCEPT !.raced = TRUE]
                    ELSE proc[q]]
      /\ UNCHANGED <<commands, paid, contended>>

(* guard.record counts the bill, and returns or raises. *)
RecordBill(p) ==
  LET c == proc[p]
  IN  /\ At(p, "recording")
      /\ proc' = [proc EXCEPT
           ![p].pc = "idle", ![p].bill = None, ![p].try = 0, ![p].answer = c.req,
           ![p].guard = Recorded(c.budget, c.guard, c.bill),
           ![p].result = IF RecordReturns(c.budget, c.guard, c.bill) THEN "ok" ELSE "over"]
      /\ paid' = IF c.mode = "read_write" THEN paid \cup {KeyFor(c.req)} ELSE paid
      /\ UNCHANGED <<disk, commands, contended>>

(* The process is killed, or the cache cannot be written (OSError), at any *)
(* point; part of an open entry may have reached the file.                 *)
Crash(p) ==
  /\ proc[p].pc # "aborted"
  /\ proc' = [q \in Procs |->
                IF q = p THEN Aborted(p)
                ELSE IF At(p, "writing") /\ q \in CoWriters(p)
                     THEN [proc[q] EXCEPT !.raced = TRUE]
                ELSE proc[q]]
  /\ \/ UNCHANGED disk
     \/ At(p, "writing") /\ disk' = [disk EXCEPT ![KeyFor(proc[p].req)] = Torn]
  /\ UNCHANGED <<commands, paid, contended>>

(* The process has finished or died and another command is started. *)
NewCommand(p, mode, budget) ==
  /\ At(p, "aborted") \/ (At(p, "idle") /\ proc[p].left = 0)
  /\ commands > 0
  /\ commands' = commands - 1
  /\ proc' = [proc EXCEPT ![p] = Fresh(mode, budget)]
  /\ UNCHANGED <<disk, paid, contended>>

-----------------------------------------------------------------------------
(* The steps of run_completion itself. (ProviderUnusable comes first among *)
(* the ends of a call because TLC decides ENABLED by it at no cost.)       *)
Complete(p) ==
  \/ LookupHit(p) \/ LookupTorn(p) \/ LookupMiss(p)
  \/ Preflight(p)
  \/ ProviderUnusable(p)
  \/ \E a \in Answers : ProviderAnswers(p, a)
  \/ \E f \in Failures : ProviderRetried(p, f) \/ ProviderFails(p, f)
  \/ LogAnswer(p)
  \/ OpenEntry(p) \/ CloseEntry(p)
  \/ RecordBill(p)

Next ==
  \E p \in Procs :
    \/ \E r \in Asked[p] : Ask(p, r)
    \/ Complete(p)
    \/ Crash(p)
    \/ \E m \in CacheModes, b \in Budgets : NewCommand(p, m, b)

Spec == Init /\ [][Next]_vars

(* A command that has begun complete() goes on: the SDKs answer or time    *)
(* out, files are local. Crashes and new commands are not owed.            *)
FairSpec == Spec /\ \A p \in Procs : WF_vars(Complete(p))
-----------------------------------------------------------------------------
Labels == {"idle", "lookup", "preflight", "calling", "answered", "caching",
           "writing", "recording", "aborted"}

TypeOK ==
  /\ \A k \in Keys : disk[k] \in {Absent, Torn} \cup {Whole(r) : r \in Requests}
  /\ \A p \in Procs :
       /\ proc[p].pc \in Labels
       /\ proc[p].guard \in GuardType
       /\ proc[p].left \in 0 .. MaxRequests
       /\ proc[p].try \in 0 .. MaxAttempts
       /\ proc[p].rows \in 0 .. MaxAttempts
       /\ proc[p].result \in {"none", "hit", "ok", "over", "refused", "error"}
  /\ commands \in 0 .. MaxCommands
  /\ paid \subseteq Keys
  /\ contended \subseteq Keys

(* Whenever a command is between requests, its rows, its guard and its     *)
(* providers' charges agree on the money: the call that crosses the cap    *)
(* is not missing from the rows, and a cache hit is charged nowhere. Until *)
(* the guard latches on a call without a price, it has also counted each   *)
(* token once, whichever of the vendor's counts it is part of.             *)
LedgersAgree ==
  \A p \in Procs : At(p, "idle") =>
    /\ proc[p].logged = proc[p].billed
    /\ proc[p].guard.spent = proc[p].billed
    /\ proc[p].guard.tripped \/ proc[p].guard.tokens = proc[p].used

(* What complete() returns was written for the request it was asked: two   *)
(* openai_compat servers never see each other's cached answers, although   *)
(* they share a provider key, and a torn entry is never returned.          *)
AnswersBelong ==
  \A p \in Procs : proc[p].result \in {"hit", "ok"} => proc[p].answer = proc[p].req

(* ADR 0006 has a row for every attempt: by the time the guard is told of  *)
(* an answer, each attempt that led to it is in llm_calls.jsonl. (The code *)
(* logs a complete() once: with_retries runs inside what it logs.)         *)
AttemptsLogged == \A p \in Procs : At(p, "recording") => proc[p].rows = proc[p].try

(* A paid answer is whole on disk by the time complete() ends, also when   *)
(* record refuses it, and stays so through crashes: a retry with a larger  *)
(* budget finds it instead of paying. Only two commands that miss the same *)
(* answer at once can spoil it, by writing one file at a time: then it may *)
(* be cut short, but it is still there, and get raises rather than pay.    *)
PaidIsCached ==
  \A k \in paid :
    /\ disk[k] # Absent
    /\ k \notin contended => disk[k].kind = "whole"

(* Once a file is there and nobody is on the way to write it, it is final, *)
(* and nobody sets out to write it again. A whole answer is never paid for *)
(* again through the cache. And a file cut short is never repaired: get    *)
(* raises on it, in every later command, before anything could replace it. *)
EntriesAreFinal ==
  [][\A k \in Keys :
       (disk[k] # Absent /\ Quiet(k)) => (disk'[k] = disk[k] /\ Quiet(k)')]_vars

(* Every request ends: with_retries gives up, whatever the provider does.  *)
RequestsEnd ==
  \A p \in Procs : ~At(p, "idle") ~> (At(p, "idle") \/ At(p, "aborted"))
=============================================================================
