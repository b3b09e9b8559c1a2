------------------------- MODULE ObligationContract -------------------------
(***************************************************************************)
(* What OracleLoop.run promises whoever calls it, obligation after         *)
(* obligation: at most MaxRounds proposals, each answered by exactly one   *)
(* verdict before the next; "solved" on a good verdict and on nothing      *)
(* else; "gave_up" on the last bad one and never sooner; an error ends the *)
(* obligation where it happens. The money it reports is the money of its   *)
(* proposals, the refused last one included.                               *)
(***************************************************************************)
EXTENDS Naturals

CONSTANT MaxRounds     (* max_repair_attempts + 1 *)

VARIABLES
  state,               (* "idle", "trying", or how the last obligation ended *)
  proposals,           (* proposals of this obligation *)
  verdicts,            (* verdicts on them *)
  total                (* total_cost_usd of this obligation *)

vars == <<state, proposals, verdicts, total>>

Init == state = "idle" /\ proposals = 0 /\ verdicts = 0 /\ total = 0

Start ==
  /\ state \notin {"trying", "aborted"}
  /\ state' = "trying" /\ proposals' = 0 /\ verdicts' = 0 /\ total' = 0

Propose ==
  /\ state = "trying" /\ proposals = verdicts /\ proposals < MaxRounds
  /\ proposals' = proposals + 1
  /\ total' \in Nat /\ total' >= total
  /\ UNCHANGED <<state, verdicts>>

(* The provider refuses, fails, or answers with the call that crosses a    *)
(* cap, which is paid although it is not a proposal.                       *)
NoProposal ==
  /\ state = "trying" /\ proposals = verdicts
  /\ \/ state' = "llm_error" /\ UNCHANGED total
     \/ state' = "budget_exceeded" /\ total' \in Nat /\ total' >= total
  /\ UNCHANGED <<proposals, verdicts>>

Verdict ==
  /\ state = "trying" /\ proposals = verdicts + 1
  /\ verdicts' = proposals
  /\ \/ state' \in {"solved", "prover_error"}
     \/ state' = IF verdicts' = MaxRounds THEN "gave_up" ELSE "trying"
  /\ UNCHANGED <<proposals, total>>

(* An exception the loop does not catch ends the whole command. The one    *)
(* that saving the transcript raises takes an outcome with it that had     *)
(* been reached.                                                           *)
Abort ==
  /\ state \notin {"idle", "aborted"}
  /\ state' = "aborted"
  /\ UNCHANGED <<proposals, verdicts, total>>

(* The next command starts. *)
Restart ==
  /\ state # "trying"
  /\ state' = "idle" /\ proposals' = 0 /\ verdicts' = 0 /\ total' = 0

Next == Start \/ Propose \/ NoProposal \/ Verdict \/ Abort \/ Restart

Spec == Init /\ [][Next]_vars
=============================================================================
