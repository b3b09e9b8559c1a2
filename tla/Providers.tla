------------------------------ MODULE Providers ------------------------------
(***************************************************************************)
(* What the four adapters (kalinov.llm.providers) make of a vendor's       *)
(* failure and of the tokens it reports, and what the pricing table        *)
(* (kalinov.cost) says an answer costs. Pure operators, no variables.      *)
(***************************************************************************)
EXTENDS Budget

Vendors == {"anthropic", "openai", "gemini", "openai_compat"}

-----------------------------------------------------------------------------
(* A failure as an SDK raises it: with an HTTP status or without one; as a *)
(* TimeoutError or not; with "quota" in its text or not.                   *)
FailureType == [status : Nat \cup {None}, timeout : BOOLEAN, quota : BOOLEAN]

LLMError(c, r) == [code |-> c, retriable |-> r]

(* The codes the adapters agree on; openai_compat has no others. *)
MapStatus(status) ==
  IF status \in {401, 403} THEN LLMError("auth", FALSE)
  ELSE IF status = 429 THEN LLMError("rate_limit", TRUE)
  ELSE IF status # None /\ status >= 500 THEN LLMError("server", TRUE)
  ELSE LLMError("other", FALSE)

MapAnthropicStatus(status) ==
  IF status = 413 THEN LLMError("context_length", FALSE) ELSE MapStatus(status)

MapOpenAIStatus(status) ==
  IF status = 400 THEN LLMError("context_length", FALSE) ELSE MapStatus(status)

AnthropicError(f) ==
  IF f.status = None /\ f.timeout THEN LLMError("timeout", TRUE)
  ELSE MapAnthropicStatus(f.status)

OpenAIError(f) ==
  IF f.status = None /\ f.timeout THEN LLMError("timeout", TRUE)
  ELSE MapOpenAIStatus(f.status)

(* A quota named in the text counts as a rate limit, unless the status has *)
(* settled it.                                                             *)
GeminiError(f) ==
  IF f.quota /\ MapStatus(f.status).code = "other" THEN LLMError("rate_limit", TRUE)
  ELSE MapStatus(f.status)

CompatError(f) == MapStatus(f.status)

ErrorOf(vendor, f) ==
  CASE vendor = "anthropic" -> AnthropicError(f)
    [] vendor = "openai" -> OpenAIError(f)
    [] vendor = "gemini" -> GeminiError(f)
    [] vendor = "openai_compat" -> CompatError(f)

(* with_retries tries again: a timeout is retriable, and still final. *)
Retriable(error) == error.retriable /\ error.code \in {"rate_limit", "server"}

-----------------------------------------------------------------------------
(* The counts of a response, 0 for one it does not carry. The vendors do   *)
(* not count alike: cached prompt tokens are part of the prompt count of   *)
(* some, thinking tokens are part of the completion count of some.         *)
CachedWithinPrompt == {"openai", "gemini"}
ThinkingWithinCompletion == {"anthropic", "openai"}

Counts == [prompt : Nat, completion : Nat, cached : Nat, thinking : Nat, written : Nat]

Reported(vendor) ==
  {c \in Counts :
     /\ vendor \in CachedWithinPrompt => c.cached <= c.prompt
     /\ vendor \in ThinkingWithinCompletion => c.thinking <= c.completion
     /\ vendor = "openai_compat" => c.cached = 0 /\ c.thinking = 0
     /\ vendor # "anthropic" => c.written = 0}

(* Every token once, whichever count it is part of. *)
CountedOnce(vendor, c) ==
  c.prompt + c.completion + c.written
    + (IF vendor \in CachedWithinPrompt THEN 0 ELSE c.cached)
    + (IF vendor \in ThinkingWithinCompletion THEN 0 ELSE c.thinking)

(* max(a - b, 0) *)
Less(a, b) == IF a >= b THEN a - b ELSE 0

TokenUsage(in, out, think, read, write) ==
  [input |-> in, output |-> out, reasoning |-> think, cache_read |-> read, cache_write |-> write]

(* Mutant: thinking is not taken out of the completion count. *)
AnthropicUsageThinkingTwice(c) ==
  TokenUsage(c.prompt, c.completion, c.thinking, c.cached, c.written)

AnthropicUsage(c) ==
  TokenUsage(c.prompt, Less(c.completion, c.thinking), c.thinking, c.cached, c.written)

OpenAIUsage(c) ==
  TokenUsage(Less(c.prompt, c.cached), Less(c.completion, c.thinking), c.thinking, c.cached, 0)

GeminiUsage(c) ==
  TokenUsage(Less(c.prompt, c.cached), c.completion, c.thinking, c.cached, 0)

CompatUsage(c) == TokenUsage(c.prompt, c.completion, 0, 0, 0)

UsageOf(vendor, c) ==
  CASE vendor = "anthropic" -> AnthropicUsage(c)
    [] vendor = "openai" -> OpenAIUsage(c)
    [] vendor = "gemini" -> GeminiUsage(c)
    [] vendor = "openai_compat" -> CompatUsage(c)

TotalAll(u) == u.input + u.output + u.reasoning + u.cache_read + u.cache_write

-----------------------------------------------------------------------------
(* A row of pricing.yaml; reasoning and the cache rates may be left out.   *)
EntryType ==
  [self_hosted : BOOLEAN, input : Nat, output : Nat,
   reasoning : Nat \cup {None}, cache_read : Nat \cup {None}, cache_write : Nat \cup {None}]

RateType == [input : Nat, output : Nat, reasoning : Nat, cache_read : Nat, cache_write : Nat]

(* The row as loaded: free if self-hosted or the wildcard; thinking costs  *)
(* what output costs, and the cache nothing, unless the row says more.     *)
ModelPricingRow(model, entry) ==
  LET Default(x, d) == IF x = None THEN d ELSE x
  IN  IF entry.self_hosted \/ model = "*"
      THEN TokenUsage(0, 0, 0, 0, 0)
      ELSE TokenUsage(entry.input, entry.output, Default(entry.reasoning, entry.output),
                      Default(entry.cache_read, 0), Default(entry.cache_write, 0))

Catalogue(file) ==
  [v \in DOMAIN file |-> [m \in DOMAIN file[v] |-> ModelPricingRow(m, file[v][m])]]

(* The rates of a model, if the table has any: its own row, or for a       *)
(* self-hosted server the wildcard.                                        *)
RowFor(catalogue, vendor, model) ==
  IF vendor \notin DOMAIN catalogue THEN None
  ELSE IF model \in DOMAIN catalogue[vendor] THEN catalogue[vendor][model]
  ELSE IF vendor = "openai_compat" /\ "*" \in DOMAIN catalogue[vendor] THEN catalogue[vendor]["*"]
  ELSE None

(* A model without a row costs nothing, and says so. *)
EstimateCost(catalogue, vendor, model, u) ==
  LET row == RowFor(catalogue, vendor, model)
  IN  [cost |-> IF row = None THEN 0
                ELSE u.input * row.input + u.output * row.output
                       + u.reasoning * row.reasoning
                       + u.cache_read * row.cache_read + u.cache_write * row.cache_write,
       tokens |-> TotalAll(u),
       priced |-> row # None]

(* run_completion's price: under the name the vendor resolved, and failing *)
(* that under the alias the user asked for.                                *)
BillFor(catalogue, vendor, alias, resolved, u) ==
  LET bill == EstimateCost(catalogue, vendor, resolved, u)
  IN  IF bill.priced THEN bill ELSE EstimateCost(catalogue, vendor, alias, u)
=============================================================================
