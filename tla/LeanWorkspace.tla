--------------------------- MODULE LeanWorkspace ----------------------------
(***************************************************************************)
(* LeanProver.compile and LeanProver.check (provers/lean/adapter.py,       *)
(* runtime.py): write the artifact to KalinovBridge/Tmp_<hash>.lean in the *)
(* vendored Lake workspace, run lake on it, unlink it, log a row.          *)
(*                                                                         *)
(* The workspace is shared by every process of the machine that uses this  *)
(* installation, and nothing locks it. Lake and Lean are external: a file  *)
(* is judged by what it holds when Lean reads it. A row is counted with    *)
(* the process that wrote it.                                              *)
(***************************************************************************)
EXTENDS Naturals

CONSTANTS
  Procs,               (* processes that use the workspace *)
  Bodies,              (* texts of artifacts *)
  Proofs,              (* those that Lean accepts *)
  Empty,               (* what a file holds between open and write, and all
                          that kalinov check puts into its artifacts *)
  Absent,              (* there is no file *)
  MaxCalls             (* bound: calls of one process *)

ASSUME WorkspaceAssumption ==
  /\ Proofs \subseteq Bodies
  /\ Absent \notin Bodies \union {Empty}
  /\ Empty \in Bodies => Empty \in Proofs
  /\ MaxCalls \in Nat

VARIABLES
  disk,                (* what the file of each body holds *)
  proc,                (* the call each process is in *)
  calls,               (* calls begun by each process *)
  rows,                (* rows of prover_calls.jsonl each process wrote *)
  returned,            (* history: calls that came back with a verdict *)
  mismatched,          (* history: those turned down for their language *)
  left                 (* history: a process ended in the middle of a call,
                          or failed to write a file it had opened *)

vars == <<disk, proc, calls, rows, returned, mismatched, left>>

counters == <<calls, rows, returned, mismatched>>

(* A call: where it is, its artifact, its verdict, whether it timed out,   *)
(* whether the file it has open was unlinked under it, and (history)       *)
(* whether another process worked on the same body meanwhile.              *)
Call ==
  [pc : {"idle", "open", "write", "lake", "unlink", "dead"},
   body : Bodies, ok : BOOLEAN, timeout : BOOLEAN, orphan : BOOLEAN, crowded : BOOLEAN]

NewCall(pc, body, crowded) ==
  [pc |-> pc, body |-> body, ok |-> FALSE, timeout |-> FALSE, orphan |-> FALSE,
   crowded |-> crowded]

TypeOK ==
  /\ disk \in [Bodies -> Bodies \union {Empty, Absent}]
  /\ proc \in [Procs -> Call]
  /\ calls \in [Procs -> 0..MaxCalls]
  /\ rows \in [Procs -> 0..MaxCalls]
  /\ returned \in [Procs -> 0..MaxCalls]
  /\ mismatched \in [Procs -> 0..MaxCalls]
  /\ left \in BOOLEAN

Init ==
  /\ disk = [b \in Bodies |-> Absent]
  /\ \E b \in Bodies : proc = [p \in Procs |-> NewCall("idle", b, FALSE)]
  /\ calls = [p \in Procs |-> 0]
  /\ rows = [p \in Procs |-> 0]
  /\ returned = [p \in Procs |-> 0]
  /\ mismatched = [p \in Procs |-> 0]
  /\ left = FALSE

InCall(p) == proc[p].pc \in {"open", "write", "lake", "unlink"}

Peers(p, body) == {q \in Procs \ {p} : InCall(q) /\ proc[q].body = body}

-----------------------------------------------------------------------------
(* compile or check is called with an artifact in Lean. *)
Begin(p, body) ==
  /\ proc[p].pc = "idle" /\ calls[p] < MaxCalls
  /\ proc' = [q \in Procs |->
       IF q = p THEN NewCall("open", body, Peers(p, body) # {})
       ELSE IF q \in Peers(p, body) THEN [proc[q] EXCEPT !.crowded = TRUE]
       ELSE proc[q]]
  /\ calls' = [calls EXCEPT ![p] = @ + 1]
  /\ UNCHANGED <<disk, rows, returned, mismatched, left>>

(* An artifact in another language: a failed result, and no row. *)
Mismatch(p) ==
  /\ proc[p].pc = "idle" /\ calls[p] < MaxCalls
  /\ calls' = [calls EXCEPT ![p] = @ + 1]
  /\ returned' = [returned EXCEPT ![p] = @ + 1]
  /\ mismatched' = [mismatched EXCEPT ![p] = @ + 1]
  /\ UNCHANGED <<disk, proc, rows, left>>

(* Mutant: a file that is there already is not written again. *)
OpenUnlessThere(p) ==
  /\ proc[p].pc = "open"
  /\ IF disk[proc[p].body] = Absent
     THEN /\ disk' = [disk EXCEPT ![proc[p].body] = Empty]
          /\ proc' = [proc EXCEPT ![p].pc = "write"]
     ELSE /\ proc' = [proc EXCEPT ![p].pc = "lake"]
          /\ UNCHANGED disk
  /\ UNCHANGED <<counters, left>>

(* write_text opens the file, which empties it, ... *)
Open(p) ==
  /\ proc[p].pc = "open"
  /\ disk' = [disk EXCEPT ![proc[p].body] = Empty]
  /\ proc' = [proc EXCEPT ![p].pc = "write"]
  /\ UNCHANGED <<counters, left>>

(* ... and writes the body: into the file it opened, even if that is no    *)
(* longer the one of this name.                                            *)
Write(p) ==
  /\ proc[p].pc = "write"
  /\ disk' = [disk EXCEPT ![proc[p].body] = IF proc[p].orphan THEN @ ELSE proc[p].body]
  /\ proc' = [proc EXCEPT ![p].pc = "lake"]
  /\ UNCHANGED <<counters, left>>

(* mkdir, the open or the write raises OSError: no unlink, no row. *)
WriteRaises(p) ==
  /\ proc[p].pc \in {"open", "write"}
  /\ proc' = [proc EXCEPT ![p].pc = "idle"]
  /\ left' = (left \/ proc[p].pc = "write")
  /\ UNCHANGED <<disk, counters>>

(* Lean has nothing against an empty file, and cannot read one that is not *)
(* there.                                                                  *)
LeanAccepts(content) == content \in Proofs \union {Empty}

(* lake ends in time: exit code 0 and no error among the diagnostics.      *)
Lake(p) ==
  /\ proc[p].pc = "lake"
  /\ proc' = [proc EXCEPT ![p].pc = "unlink", ![p].ok = LeanAccepts(disk[proc[p].body])]
  /\ UNCHANGED <<disk, counters, left>>

LakeTimesOut(p) ==
  /\ proc[p].pc = "lake"
  /\ proc' = [proc EXCEPT ![p].pc = "unlink", ![p].timeout = TRUE]
  /\ UNCHANGED <<disk, counters, left>>

(* finally: unlink(missing_ok), after which the call is over. *)
Unlink(p) ==
  /\ disk' = [disk EXCEPT ![proc[p].body] = Absent]
  /\ proc' = [q \in Procs |->
       IF q = p THEN [proc[q] EXCEPT !.pc = "idle"]
       ELSE IF proc[q].pc = "write" /\ proc[q].body = proc[p].body
            THEN [proc[q] EXCEPT !.orphan = TRUE]
       ELSE proc[q]]

(* subprocess.run raises something else: the file goes, the call raises.   *)
LakeRaises(p) ==
  /\ proc[p].pc = "lake"
  /\ Unlink(p)
  /\ UNCHANGED <<counters, left>>

(* Mutant: a call that timed out does not clean up. *)
ReturnWithoutFinally(p) ==
  /\ proc[p].pc = "unlink"
  /\ IF proc[p].timeout
     THEN UNCHANGED disk /\ proc' = [proc EXCEPT ![p].pc = "idle"]
     ELSE Unlink(p)
  /\ rows' = [rows EXCEPT ![p] = @ + 1]
  /\ returned' = [returned EXCEPT ![p] = @ + 1]
  /\ UNCHANGED <<calls, mismatched, left>>

(* Mutant: the row of a timeout is followed by the ordinary one. *)
ReturnLoggedTwice(p) ==
  /\ proc[p].pc = "unlink"
  /\ Unlink(p)
  /\ rows' = [rows EXCEPT ![p] = @ + IF proc[p].timeout THEN 2 ELSE 1]
  /\ returned' = [returned EXCEPT ![p] = @ + 1]
  /\ UNCHANGED <<calls, mismatched, left>>

(* Mutant: a call that timed out leaves no row. *)
ReturnTimeoutUnlogged(p) ==
  /\ proc[p].pc = "unlink"
  /\ Unlink(p)
  /\ rows' = [rows EXCEPT ![p] = @ + IF proc[p].timeout THEN 0 ELSE 1]
  /\ returned' = [returned EXCEPT ![p] = @ + 1]
  /\ UNCHANGED <<calls, mismatched, left>>

(* The file is unlinked, the row written, the result returned. *)
Return(p) ==
  /\ proc[p].pc = "unlink"
  /\ Unlink(p)
  /\ rows' = [rows EXCEPT ![p] = @ + 1]
  /\ returned' = [returned EXCEPT ![p] = @ + 1]
  /\ UNCHANGED <<calls, mismatched, left>>

(* The process is killed; another one takes its place. *)
Crash(p) ==
  /\ InCall(p)
  /\ proc' = [proc EXCEPT ![p].pc = "dead"]
  /\ left' = TRUE
  /\ UNCHANGED <<disk, counters>>

Restart(p) ==
  /\ proc[p].pc = "dead"
  /\ proc' = [proc EXCEPT ![p].pc = "idle"]
  /\ UNCHANGED <<disk, counters, left>>

Next ==
  \E p \in Procs :
    \/ \E body \in Bodies : Begin(p, body)
    \/ Mismatch(p)
    \/ Open(p) \/ Write(p) \/ WriteRaises(p)
    \/ Lake(p) \/ LakeTimesOut(p) \/ LakeRaises(p)
    \/ Return(p)
    \/ Crash(p) \/ Restart(p)

Spec == Init /\ [][Next]_vars

-----------------------------------------------------------------------------
(* A verdict is about the artifact that was passed: unless two processes   *)
(* worked on the same text at once, what Lean was asked about is the whole *)
(* body, whatever an earlier call, dead in the middle, left in the file.   *)
VerdictIsOwn ==
  \A p \in Procs :
    proc[p].pc = "unlink" /\ ~proc[p].timeout /\ ~proc[p].crowded
      => (proc[p].ok <=> proc[p].body \in Proofs)

(* No call leaves its file behind, not even one that timed out or raised,  *)
(* as long as no process dies or fails in the middle of writing.           *)
CleanWorkspace ==
  ~left /\ (\A p \in Procs : proc[p].pc = "idle") => \A b \in Bodies : disk[b] = Absent

(* What a call returned is in prover_calls.jsonl, be it a verdict or a     *)
(* timeout, and no call is there twice. Whether one that is turned down    *)
(* for its language, or that raises, has a row is left open.               *)
ReturnedIsLogged ==
  \A p \in Procs :
    /\ returned[p] <= rows[p] + mismatched[p]
    /\ rows[p] + (IF InCall(p) THEN 1 ELSE 0) <= calls[p]

(* CheckResult: whether the artifact actually proves the obligation. Two   *)
(* processes on one body refute it: one empties the file that the other is *)
(* about to have judged.                                                   *)
AcceptedIsProved ==
  \A p \in Procs : proc[p].pc = "unlink" /\ proc[p].ok => proc[p].body \in Proofs
=============================================================================
