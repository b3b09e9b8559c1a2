----------------------------- MODULE RunReport -----------------------------
(***************************************************************************)
(* What is computed from the rows of llm_calls.jsonl after they were       *)
(* written (llm/run_report.py, eval/runner._token_usage_from_llm_jsonl).   *)
(*                                                                         *)
(* A row has the provider, the resolved model and the day of its           *)
(* timestamp, which only serve as keys, and numbers: cost, and usage by    *)
(* kind of token. A row of a cache hit has the usage of the answer and     *)
(* costs nothing; a row of a failed call has no usage.                     *)
(***************************************************************************)
EXTENDS Naturals, Sequences

TokenKinds == {"input", "output", "reasoning", "cache_read", "cache_write"}

Groupings == {"none", "provider", "model", "day"}

RowType == [provider : STRING, model : STRING, day : STRING, cost : Nat, usage : [TokenKinds -> Nat]]

NoTokens == [k \in TokenKinds |-> 0]

PlusTokens(a, b) == [k \in TokenKinds |-> a[k] + b[k]]

NewAgg == [usd |-> 0, tokens |-> NoTokens, calls |-> 0]

Accumulate(target, row) ==
  [usd |-> target.usd + row.cost,
   tokens |-> PlusTokens(target.tokens, row.usage),
   calls |-> target.calls + 1]

(* Mutant: the calls of the groups are not added up. *)
MergeTotalUncounted(part, total) ==
  [usd |-> total.usd + part.usd,
   tokens |-> PlusTokens(total.tokens, part.tokens),
   calls |-> total.calls]

MergeTotal(part, total) ==
  [usd |-> total.usd + part.usd,
   tokens |-> PlusTokens(total.tokens, part.tokens),
   calls |-> total.calls + part.calls]

(* The rows at the positions in which, added up one by one. *)
AggregateOf(rows, which) ==
  LET agg[n \in 0 .. Len(rows)] ==
        IF n = 0 THEN NewAgg
        ELSE IF n \in which THEN Accumulate(agg[n - 1], rows[n]) ELSE agg[n - 1]
  IN agg[Len(rows)]

AggregateRows(rows) == AggregateOf(rows, DOMAIN rows)

GroupKey(row, group_by) ==
  CASE group_by = "provider" -> row.provider
    [] group_by = "model" -> row.model
    [] group_by = "day" -> row.day

Group(rows, group_by, key) == {n \in DOMAIN rows : GroupKey(rows[n], group_by) = key}

(* The dictionary of the groups has them in the order of their first rows. *)
OpensGroup(rows, group_by, n) ==
  \A m \in 1 .. n - 1 : GroupKey(rows[m], group_by) # GroupKey(rows[n], group_by)

MergeGroups(rows, group_by, groups) ==
  LET total[n \in 0 .. Len(rows)] ==
        IF n = 0 THEN NewAgg
        ELSE IF OpensGroup(rows, group_by, n)
        THEN MergeTotal(groups[GroupKey(rows[n], group_by)], total[n - 1])
        ELSE total[n - 1]
  IN total[Len(rows)]

(* Without grouping the totals are taken from the rows, else from the      *)
(* groups.                                                                 *)
Aggregate(rows, group_by) ==
  IF group_by = "none" THEN [totals |-> AggregateRows(rows), groups |-> <<>>]
  ELSE LET keys == {GroupKey(rows[n], group_by) : n \in DOMAIN rows}
           groups == [key \in keys |-> AggregateOf(rows, Group(rows, group_by, key))]
       IN [totals |-> MergeGroups(rows, group_by, groups), groups |-> groups]

(* The token column of the eval report, read back from the same file. *)
TokenUsageFromRows(rows) ==
  LET total[n \in 0 .. Len(rows)] ==
        IF n = 0 THEN NoTokens ELSE PlusTokens(total[n - 1], rows[n].usage)
  IN total[Len(rows)]
=============================================================================
