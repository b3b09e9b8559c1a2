----------------------------- MODULE DemoCycle ------------------------------
(***************************************************************************)
(* kalinov-bridge run-demo (kalinov_bridge.pipeline.run_demo_cycle with    *)
(* fill_proof and run_lake_build): read the scratch Lean file, fill one    *)
(* hole, keep both texts as artifacts, put the filled text in the place of *)
(* the tracked file, build, put the original back.                         *)
(*                                                                         *)
(* A text is the number of its "by sorry" holes. Every run has an          *)
(* artifacts directory of its own; the scratch file is one for all.        *)
(***************************************************************************)
EXTENDS Optional

CONSTANTS
  Runs,                (* invocations of run-demo *)
  Holes,               (* "by sorry" in the committed file *)
  Truncated            (* a file between open and write *)

ASSUME DemoAssumption ==
  /\ Holes \in Nat \ {0}
  /\ Truncated \notin 0..Holes /\ None # Truncated

Text == 0..Holes
Content == Text \union {Truncated}

VARIABLES
  scratch,             (* the tracked file *)
  run,                 (* the locals of each run_demo_cycle *)
  artifacts,           (* the directory of each run *)
  spoiled              (* history: runs overlapped, or one did not put the
                          file back *)

demo_vars == <<scratch, run, artifacts, spoiled>>

(* disturbed is history: another run was under way at the same time.       *)
Run ==
  [pc : {"new", "artifacts", "open", "write", "build", "restore", "rewrite", "record",
         "done", "raised", "dead"},
   original : Text \union {None}, patched : Text \union {None},
   built : Content \union {None}, raising : BOOLEAN, disturbed : BOOLEAN]

Artifacts == [original : Text \union {None}, patched : Text \union {None}, results : BOOLEAN]

DemoInit ==
  /\ scratch = Holes
  /\ run = [r \in Runs |-> [pc |-> "new", original |-> None, patched |-> None, built |-> None,
                            raising |-> FALSE, disturbed |-> FALSE]]
  /\ artifacts = [r \in Runs |-> [original |-> None, patched |-> None, results |-> FALSE]]
  /\ spoiled = FALSE

At(r, pc) == run[r].pc = pc

Active(r) == run[r].pc \in {"artifacts", "open", "write", "build", "restore", "rewrite"}

Others(r) == {q \in Runs \ {r} : Active(q)}

-----------------------------------------------------------------------------
(* The text was read and has a hole to fill: from here to the restore the  *)
(* run counts on being alone.                                              *)
Filled(r, text) ==
  /\ run' = [q \in Runs |->
       IF q = r THEN [pc |-> "artifacts", original |-> scratch, patched |-> text,
                      built |-> None, raising |-> FALSE, disturbed |-> Others(r) # {}]
       ELSE IF q \in Others(r) THEN [run[q] EXCEPT !.disturbed = TRUE]
       ELSE run[q]]
  /\ spoiled' = (spoiled \/ Others(r) # {})
  /\ UNCHANGED <<scratch, artifacts>>

(* Mutant: the text is patched whether or not there is a hole in it. *)
FillUnchecked(r) ==
  /\ At(r, "new") /\ scratch # Truncated
  /\ Filled(r, scratch - 1)

Fill(r) ==
  /\ At(r, "new") /\ scratch \in Text \ {0}
  /\ Filled(r, scratch - 1)

(* fill_proof finds nothing to replace. *)
FillRaises(r) ==
  /\ At(r, "new") /\ scratch \in {0, Truncated}
  /\ run' = [run EXCEPT ![r].pc = "raised"]
  /\ UNCHANGED <<scratch, artifacts, spoiled>>

WriteArtifacts(r) ==
  /\ At(r, "artifacts")
  /\ artifacts' = [artifacts EXCEPT ![r].original = run[r].original, ![r].patched = run[r].patched]
  /\ run' = [run EXCEPT ![r].pc = "open"]
  /\ UNCHANGED <<scratch, spoiled>>

(* The artifacts cannot be written: the scratch file is not touched yet.   *)
ArtifactsRaise(r) ==
  /\ At(r, "artifacts")
  /\ run' = [run EXCEPT ![r].pc = "raised"]
  /\ UNCHANGED <<scratch, artifacts, spoiled>>

-----------------------------------------------------------------------------
(* try: write_text, which empties the file and then fills it, ... *)
OpenScratch(r) ==
  /\ At(r, "open")
  /\ scratch' = Truncated
  /\ run' = [run EXCEPT ![r].pc = "write"]
  /\ UNCHANGED <<artifacts, spoiled>>

(* Mutant: the original is written where the patch belongs. *)
WriteOriginal(r) ==
  /\ At(r, "write")
  /\ scratch' = run[r].original
  /\ run' = [run EXCEPT ![r].pc = "build"]
  /\ UNCHANGED <<artifacts, spoiled>>

WriteScratch(r) ==
  /\ At(r, "write")
  /\ scratch' = run[r].patched
  /\ run' = [run EXCEPT ![r].pc = "build"]
  /\ UNCHANGED <<artifacts, spoiled>>

(* ... and lake build, which compiles what the file holds.                 *)
Build(r) ==
  /\ At(r, "build")
  /\ run' = [run EXCEPT ![r].pc = "restore", ![r].built = scratch]
  /\ UNCHANGED <<scratch, artifacts, spoiled>>

(* Mutant: the restore is not in a finally. *)
TryRaisesThrough(r) ==
  /\ run[r].pc \in {"open", "write", "build"}
  /\ run' = [run EXCEPT ![r].pc = "raised", ![r].raising = TRUE]
  /\ UNCHANGED <<scratch, artifacts, spoiled>>

(* The write fails, there is no lakefile, no lake, the build takes too     *)
(* long, or the user interrupts it.                                        *)
TryRaises(r) ==
  /\ run[r].pc \in {"open", "write", "build"}
  /\ run' = [run EXCEPT ![r].pc = "restore", ![r].raising = TRUE]
  /\ UNCHANGED <<scratch, artifacts, spoiled>>

(* finally: the original is written back. *)
Reopen(r) ==
  /\ At(r, "restore")
  /\ scratch' = Truncated
  /\ run' = [run EXCEPT ![r].pc = "rewrite"]
  /\ UNCHANGED <<artifacts, spoiled>>

Restore(r) ==
  /\ At(r, "rewrite")
  /\ scratch' = run[r].original
  /\ run' = [run EXCEPT ![r].pc = IF run[r].raising THEN "raised" ELSE "record"]
  /\ UNCHANGED <<artifacts, spoiled>>

RestoreRaises(r) ==
  /\ run[r].pc \in {"restore", "rewrite"}
  /\ run' = [run EXCEPT ![r].pc = "raised"]
  /\ spoiled' = TRUE
  /\ UNCHANGED <<scratch, artifacts>>

(* lake_stderr.txt and results.jsonl. *)
Record(r) ==
  /\ At(r, "record")
  /\ artifacts' = [artifacts EXCEPT ![r].results = TRUE]
  /\ run' = [run EXCEPT ![r].pc = "done"]
  /\ UNCHANGED <<scratch, spoiled>>

(* The process is killed. *)
Killed(r) ==
  /\ Active(r)
  /\ run' = [run EXCEPT ![r].pc = "dead"]
  /\ spoiled' = TRUE
  /\ UNCHANGED <<scratch, artifacts>>

DemoNext ==
  \E r \in Runs :
    \/ Fill(r) \/ FillRaises(r) \/ WriteArtifacts(r) \/ ArtifactsRaise(r)
    \/ OpenScratch(r) \/ WriteScratch(r) \/ Build(r) \/ TryRaises(r)
    \/ Reopen(r) \/ Restore(r) \/ RestoreRaises(r)
    \/ Record(r) \/ Killed(r)

DemoSpec == DemoInit /\ [][DemoNext]_demo_vars

-----------------------------------------------------------------------------
DemoTypeOK ==
  /\ scratch \in Content
  /\ run \in [Runs -> Run]
  /\ artifacts \in [Runs -> Artifacts]
  /\ spoiled \in BOOLEAN

(* development.md: the runner edits the file briefly, then restores it.    *)
(* With no run under way the file is the committed one, whatever failed in *)
(* the runs before, as long as they came one after the other, could write  *)
(* the file back and were not killed.                                      *)
ScratchRestored ==
  ~spoiled /\ (\A r \in Runs : ~Active(r)) => scratch = Holes

(* A result is about the texts kept with it: a run that was alone built    *)
(* its patched text, one hole less than its original, even when the file   *)
(* it started from had been left patched by a run that was killed.         *)
ResultsMatchArtifacts ==
  \A r \in Runs : artifacts[r].results /\ ~run[r].disturbed =>
    /\ run[r].built = artifacts[r].patched
    /\ artifacts[r].patched + 1 = artifacts[r].original
=============================================================================
