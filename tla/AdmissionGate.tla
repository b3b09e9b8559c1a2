---------------------------- MODULE AdmissionGate ----------------------------
(***************************************************************************)
(* What a budget guard promises the commands that share it: a gate in      *)
(* front of the provider that may close and never reopens, and that nobody *)
(* passes while it is closed. BudgetGuard implements it.                   *)
(***************************************************************************)
CONSTANT Callers       (* whoever asks to make a provider call *)

VARIABLES
  open,                (* the gate still admits calls *)
  inside               (* the callers with a provider call under way *)

vars == <<open, inside>>

Init == open \in BOOLEAN /\ inside = {}

Enter(c) ==
  /\ open
  /\ c \notin inside
  /\ inside' = inside \cup {c}
  /\ UNCHANGED open

(* A call that ends may close the gate behind it, or leave it as it was. *)
Leave(c) ==
  /\ c \in inside
  /\ inside' = inside \ {c}
  /\ open' \in {open, FALSE}

Next == \E c \in Callers : Enter(c) \/ Leave(c)

Spec == Init /\ [][Next]_vars
=============================================================================
