------------------------------- MODULE MCCheck -------------------------------
(***************************************************************************)
(* Small instances of kalinov check (CheckCommand) and of the scan that    *)
(* finds the math in its steps (MathTex), for one run of TLC. A behaviour  *)
(* is of one of the two, and the other keeps still.                        *)
(***************************************************************************)
EXTENDS MCCheckCommand, MathTex

CONSTANT MaxText       (* bound on the length of the texts *)

VARIABLE part          (* "check" or "scan" *)

(* All short texts of what matters to the scan, and longer ones with both  *)
(* kinds of brackets.                                                      *)
MCTexts ==
  UNION {[1 .. n -> {"$", "\\", "(", ")", "x"}] : n \in 0 .. MaxText}
  \union {<<"\\", "[", "$", "x", "\\", "]", "$", "x", "$">>,
          <<"\\", "(", "x", "\\", "[", "x", "\\", ")", "x", "\\", "]">>,
          <<"$", "$", "x", "\\", "$", "$", "x", "$", "$">>}

PartsInit ==
  /\ Init /\ ScanInit
  /\ part \in {"check", "scan"}
  /\ part = "check" => text = <<>>

PartsNext ==
  \/ part = "check" /\ Next /\ UNCHANGED <<part, scan_vars>>
  \/ part = "scan" /\ ScanNext /\ UNCHANGED <<part, vars>>

PartsSpec == PartsInit /\ [][PartsNext]_<<part, vars, scan_vars>>

=============================================================================
