------------------------ MODULE MCCompletionPipeline ------------------------
(* Small instance of CompletionPipeline for TLC. *)
EXTENDS CompletionPipeline, TLC

CONSTANTS p1, p2

MCProcs == {p1, p2}

(* One model on two self-hosted servers, which share a provider key, and   *)
(* an alias of a vendor that bills; the processes share one of the three.  *)
MCRequest(vendor, url, alias) == Request(vendor, url, alias, "prompt")

MCAsked ==
  (p1 :> {MCRequest("openai_compat", "u1", "qwen"), MCRequest("openai_compat", "u2", "qwen")})
  @@ (p2 :> {MCRequest("openai_compat", "u1", "qwen"), MCRequest("anthropic", None, "latest")})

MCBudgets ==
  {[max_cost_usd |-> 1, max_total_tokens |-> None, max_calls |-> None]}

MCEntry(in, out) ==
  [self_hosted |-> FALSE, input |-> in, output |-> out,
   reasoning |-> None, cache_read |-> None, cache_write |-> None]

MCPricingFile ==
  [anthropic |-> [listed |-> MCEntry(1, 1)],
   openai_compat |-> [m \in {"*"} |-> [MCEntry(0, 0) EXCEPT !.self_hosted = TRUE]]]

MCCounts(thinking) ==
  [prompt |-> 1, completion |-> 1, cached |-> 0, thinking |-> thinking, written |-> 0]

(* The alias resolves to a model that has a price, whose call crosses the  *)
(* cap, or to one that has none.                                           *)
MCAnswers ==
  {[provider |-> "anthropic", model |-> m, counts |-> MCCounts(1)] : m \in {"listed", "unlisted"}}
  \cup {[provider |-> "openai_compat", model |-> "qwen", counts |-> MCCounts(0)]}

(* Throttled, and out of time. *)
MCFailures ==
  {[status |-> 429, timeout |-> FALSE, quota |-> FALSE],
   [status |-> None, timeout |-> TRUE, quota |-> FALSE]}

(* The first two commands do not both write the cache: a third one, which  *)
(* does as it likes, is the second writer, beside the first or after it.   *)
MCInit == Init /\ \E p \in Procs : proc[p].mode # "read_write"

MCSpec == MCInit /\ [][Next]_vars /\ \A p \in Procs : WF_vars(Complete(p))
=============================================================================
