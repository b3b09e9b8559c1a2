------------------------------ MODULE MathTex ------------------------------
(***************************************************************************)
(* Where MathTexInterpreter finds math in the text of a step               *)
(* (interpreters/mathtex.py): _scan_text_fragments as the loop it is, and  *)
(* then _stripped_text. That a step has a fragment is the input math of    *)
(* FrontEnd, and makes its step a claim or not.                            *)
(*                                                                         *)
(* A text is a sequence of characters, of which the dollar, the backslash  *)
(* and the brackets matter. A fragment is the range it takes, delimiters   *)
(* included. White space in the stripped text is layout and kept as it is. *)
(***************************************************************************)
EXTENDS Naturals, Sequences, SequencesExt

CONSTANT Texts

ASSUME MathTexAssumption == \A t \in Texts : t \in Seq(STRING)

VARIABLES
  text,                (* step.text *)
  pos,
  out,                 (* fragments found, in order: [delimiter, start, end] *)
  stripped,            (* stripped_text, as positions *)
  scan                 (* "on", "strip", "done" *)

scan_vars == <<text, pos, out, stripped, scan>>

ScanInit ==
  /\ text \in Texts
  /\ pos = 1 /\ out = <<>> /\ stripped = <<>>
  /\ scan = "on"

-----------------------------------------------------------------------------
(* What the scan asks of a text t. *)
StartsWith(t, w, i) ==
  i + Len(w) - 1 <= Len(t) /\ \A k \in DOMAIN w : t[i + k - 1] = w[k]

First(found) == IF found = {} THEN 0 ELSE CHOOSE i \in found : \A j \in found : i <= j

(* t.find(w, from), 0 where Python has -1. *)
Find(t, w, from) == First({i \in from .. Len(t) : StartsWith(t, w, i)})

(* Mutant: a backslash does not keep the dollar after it from closing. *)
CloseAny(t, open) == Find(t, <<"$">>, open + 1)

(* One round of the loop of _find_close_single_dollar: a backslash takes   *)
(* the next character along.                                               *)
Round(t, j) ==
  IF j > Len(t) \/ t[j] = "$" THEN j
  ELSE IF t[j] = "\\" THEN j + 2
  ELSE j + 1

(* Where its rounds end, no more than the text has characters.             *)
CloseDollar(t, open) ==
  LET after[n \in 0 .. Len(t)] == IF n = 0 THEN open + 1 ELSE Round(t, after[n - 1])
      j == after[Len(t)]
  IN IF j > Len(t) THEN 0 ELSE j

Opening == {<<"$", "$">>, <<"$">>, <<"\\", "(">>, <<"\\", "[">>}

Closing(d) ==
  CASE d = <<"\\", "(">> -> <<"\\", ")">>
    [] d = <<"\\", "[">> -> <<"\\", "]">>
    [] OTHER -> d

CloseOf(t, d, i) ==
  IF d = <<"$">> THEN CloseDollar(t, i) ELSE Find(t, Closing(d), i + Len(d))

(* The one delimiter that is tried at i: two dollars before one. *)
DelimiterAt(t, i) ==
  LET opening == {d \in Opening : StartsWith(t, d, i)}
  IN IF opening = {} THEN <<>> ELSE CHOOSE d \in opening : \A e \in opening : Len(e) <= Len(d)

(* _try_fragment_at: a fragment or none, as a set. *)
FragmentAt(t, i) ==
  LET d == DelimiterAt(t, i)
      close == IF d = <<>> THEN 0 ELSE CloseOf(t, d, i)
  IN IF close = 0 THEN {}
     ELSE {[delimiter |-> d, start |-> i, end |-> close + Len(Closing(d)) - 1]}

-----------------------------------------------------------------------------
Escaped == StartsWith(text, <<"\\", "$">>, pos)

SkipEscaped ==
  /\ scan = "on" /\ pos <= Len(text) /\ Escaped
  /\ pos' = pos + 2
  /\ UNCHANGED <<text, out, stripped, scan>>

(* Mutant: the closing delimiter is scanned again. *)
TakeFragmentShort ==
  /\ scan = "on" /\ pos <= Len(text) /\ ~Escaped
  /\ \E f \in FragmentAt(text, pos) : out' = Append(out, f) /\ pos' = f.end
  /\ UNCHANGED <<text, stripped, scan>>

TakeFragment ==
  /\ scan = "on" /\ pos <= Len(text) /\ ~Escaped
  /\ \E f \in FragmentAt(text, pos) : out' = Append(out, f) /\ pos' = f.end + 1
  /\ UNCHANGED <<text, stripped, scan>>

Advance ==
  /\ scan = "on" /\ pos <= Len(text) /\ ~Escaped
  /\ FragmentAt(text, pos) = {}
  /\ pos' = pos + 1
  /\ UNCHANGED <<text, out, stripped, scan>>

ScanEnds ==
  /\ scan = "on" /\ pos > Len(text)
  /\ scan' = "strip" /\ pos' = 1
  /\ UNCHANGED <<text, out, stripped>>

(* _stripped_text: what is before, between and after the fragments; pos is *)
(* its cursor.                                                             *)
Strip ==
  LET cursor(n) == IF n = 0 THEN 1 ELSE out[n].end + 1
      until(n) == IF n = Len(out) THEN Len(text) ELSE out[n + 1].start - 1
      part(n) == [i \in 1 .. until(n) + 1 - cursor(n) |-> cursor(n) + i - 1]
  IN
  /\ scan = "strip"
  /\ stripped' = FlattenSeq([n \in 1 .. Len(out) + 1 |-> part(n - 1)])
  /\ scan' = "done"
  /\ UNCHANGED <<text, pos, out>>

ScanNext == SkipEscaped \/ TakeFragment \/ Advance \/ ScanEnds \/ Strip

ScanSpec == ScanInit /\ [][ScanNext]_scan_vars

-----------------------------------------------------------------------------
Fragments == ToSet(out)

Inside(i) == \E f \in Fragments : f.start <= i /\ i <= f.end

(* A dollar after a backslash of the prose is text. *)
Literal(i) == text[i] = "$" /\ i > 1 /\ text[i - 1] = "\\" /\ ~Inside(i - 1)

(* A dollar within fragment f with an odd number of backslashes before it. *)
OddBackslashes(f, i) == \E k \in f.start .. i - 1 :
  (i - k) % 2 = 0 /\ text[k] # "\\" /\ \A j \in k + 1 .. i - 1 : text[j] = "\\"

(* "$$" ends at the next "$$", even where that begins with such a dollar   *)
(* (though mathtex.py 114 has an escaped dollar literal, no delimiter).    *)
ClosedEscaped(f) == f.delimiter = <<"$", "$">> /\ OddBackslashes(f, f.end - 1)

(* The scan is the leftmost reading of the text, whatever delimiters are   *)
(* left open, nested or escaped in it: no two fragments overlap, and a     *)
(* closed pair of delimiters is a fragment exactly if it does not open in  *)
(* another one or with a dollar that is text (mathtex.py 57-128). This is  *)
(* said up to the first fragment that an escaped dollar closes.            *)
ScanIsLeftmost ==
  scan # "on" =>
    /\ \A m, n \in DOMAIN out : m < n => out[m].end < out[n].start
    /\ \A i \in DOMAIN text : \A f \in FragmentAt(text, i) :
         (~ClosedEscaped(f) /\ \A g \in Fragments : ClosedEscaped(g) => i < g.start) =>
           (f \in Fragments <=> ~Literal(i) /\ ~\E g \in Fragments : g.start < i /\ i <= g.end)

(* A single dollar is closed by the next one that has an even number of    *)
(* backslashes before it (mathtex.py 43-54).                               *)
DollarsClose ==
  \A f \in Fragments : f.delimiter = <<"$">> =>
    /\ text[f.end] = "$"
    /\ \A i \in f.start + 1 .. f.end : text[i] = "$" => (i = f.end <=> ~OddBackslashes(f, i))

(* Prose and math make up the text: what is not in a fragment is in the    *)
(* stripped text, once and in its place (mathtex.py 147-160).              *)
NothingLost ==
  scan = "done" =>
    /\ ToSet(stripped) = {i \in DOMAIN text : ~Inside(i)}
    /\ \A m, n \in DOMAIN stripped : m < n => stripped[m] < stripped[n]

(* The math of a step is found where it is, and nothing of the step is     *)
(* lost between its math and its prose (mathtex.py 57-160).                *)
TextIsRead == ScanIsLeftmost /\ DollarsClose /\ NothingLost
=============================================================================
