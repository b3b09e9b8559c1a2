------------------------------ MODULE MCSharing ------------------------------
(***************************************************************************)
(* Small instances, for one run of TLC, of what several users share who    *)
(* do not know of each other: one budget guard (BudgetGuard), the files of *)
(* Lean's workspace (LeanWorkspace) and the demo's scratch file            *)
(* (DemoCycle). A behaviour is of one of the three, and the others keep    *)
(* still.                                                                  *)
(***************************************************************************)
EXTENDS MCLeanWorkspace, BudgetGuard, DemoCycle

CONSTANTS c1, c2, c3, r1, r2, r3

VARIABLE part          (* "guard", "lean" or "demo" *)

MCCallers == {c1, c2, c3}

(* Each cap unset, zero, or small enough to be crossed by a few calls. *)
MCBudgets ==
  [max_cost_usd : {None, 0, 2}, max_total_tokens : {None, 1}, max_calls : {None, 0, 2}]

(* A free call, a cheap and a dear one, and one the catalogue cannot price. *)
MCBills ==
  {[cost |-> 0, tokens |-> 0, priced |-> TRUE],
   [cost |-> 1, tokens |-> 1, priced |-> TRUE],
   [cost |-> 3, tokens |-> 1, priced |-> TRUE],
   [cost |-> 0, tokens |-> 2, priced |-> FALSE]}

(* Runs of the demo enough for two to overlap and a third to find what     *)
(* they left.                                                              *)
MCRuns == {r1, r2, r3}

Interchangeable == Perms \union Permutations(MCCallers) \union Permutations(MCRuns)

PartsInit ==
  /\ GuardInit /\ Init /\ DemoInit
  /\ part \in {"guard", "lean", "demo"}
  /\ part # "guard" => \A cap \in DOMAIN budget : budget[cap] = None
  /\ part # "lean" => \A p \in Procs : proc[p].body = Empty

PartsNext ==
  \/ part = "guard" /\ GuardNext /\ UNCHANGED <<part, vars, demo_vars>>
  \/ part = "lean" /\ Next /\ UNCHANGED <<part, guard_vars, demo_vars>>
  \/ part = "demo" /\ DemoNext /\ UNCHANGED <<part, guard_vars, vars>>

PartsSpec == PartsInit /\ [][PartsNext]_<<part, guard_vars, vars, demo_vars>>
=============================================================================
