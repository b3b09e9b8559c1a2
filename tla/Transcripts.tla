---------------------------- MODULE Transcripts ----------------------------
(***************************************************************************)
(* The conversations the oracle loop leaves under runs/<id>/transcripts    *)
(* with --save-transcripts (oracle/loop.py, oracle/telemetry.py,           *)
(* oracle/transcript.py), beside its trace and its outcome (OracleLoop).   *)
(*                                                                         *)
(* A message is a prompt or an answer and the iteration it is of; the      *)
(* system message goes with its prompt. A file is opened, which empties    *)
(* it, and written.                                                        *)
(***************************************************************************)
EXTENDS OracleLoop

CONSTANTS
  Naming,              (* the names the obligations of a run may have *)
  FileOf               (* an obligation's name with / and \ as underscores,
                          and .json *)

ASSUME TranscriptsAssumption ==
  \A names \in Naming : \A i \in 1 .. MaxObligations : names[i] \in DOMAIN FileOf

VARIABLES
  names,               (* of this run's obligations *)
  transcript_buf,      (* the messages of the obligation under way *)
  saving,              (* "no", "opening" or "writing" its transcript *)
  files                (* the files of the run: name -> messages, Torn *)

tvars == <<names, transcript_buf, saving, files>>

Torn == <<[role |-> "torn", iter |-> 0]>>
Prompt(i) == [role |-> "user", iter |-> i]
Answer(i) == [role |-> "assistant", iter |-> i]

File == FileOf[names[count]]

(* Opening the file empties it, whether it was there or not. *)
Opened == [f \in DOMAIN files \cup {File} |-> IF f = File THEN Torn ELSE files[f]]

TInit ==
  /\ Init
  /\ names \in Naming
  /\ transcript_buf = <<>>
  /\ saving = "no"
  /\ files = <<>>

-----------------------------------------------------------------------------
(* Mutant: one buffer for all obligations. *)
TBeginAgain ==
  /\ saving = "no"
  /\ Begin
  /\ UNCHANGED tvars

TBegin ==
  /\ saving = "no"
  /\ Begin
  /\ transcript_buf' = <<>>
  /\ UNCHANGED <<names, saving, files>>

(* What an iteration adds: its prompt before complete(), and its answer    *)
(* when complete() returned one. An answer that crossed the cap is raised, *)
(* not returned, and is not part of the conversation.                      *)
Heard ==
  IF At("propose")
  THEN transcript_buf \o <<Prompt(loop.iter)>>
         \o (IF loop'.pc = "compile" THEN <<Answer(loop.iter)>> ELSE <<>>)
  ELSE transcript_buf

(* A step of the loop; where it returns an outcome it saves the transcript *)
(* first, which is still to be done here.                                  *)
TRun ==
  /\ Run
  /\ transcript_buf' = Heard
  /\ saving' = IF loop'.pc = "ready" THEN "opening" ELSE "no"
  /\ UNCHANGED <<names, files>>

(* Mutant: a transcript that is there is left as it is. *)
OpenUnlessThere ==
  /\ saving = "opening"
  /\ IF File \in DOMAIN files THEN saving' = "no" /\ UNCHANGED files
     ELSE saving' = "writing" /\ files' = Opened
  /\ UNCHANGED <<vars, names, transcript_buf>>

Open ==
  /\ saving = "opening"
  /\ saving' = "writing"
  /\ files' = Opened
  /\ UNCHANGED <<vars, names, transcript_buf>>

Write ==
  /\ saving = "writing"
  /\ saving' = "no"
  /\ files' = [files EXCEPT ![File] = transcript_buf]
  /\ UNCHANGED <<vars, names, transcript_buf>>

(* A name too long for a file, a full disk: the OSError takes the outcome  *)
(* and the command with it.                                                *)
SaveFails ==
  /\ saving # "no"
  /\ saving' = "no"
  /\ loop' = [loop EXCEPT !.pc = "aborted"]
  /\ reported' = reported - loop.total
  /\ UNCHANGED <<run, count, last, budget, guard, lines, attempts>>
  /\ UNCHANGED <<names, transcript_buf, files>>

TNewRun ==
  /\ saving = "no"
  /\ NextTask \/ NextCommand
  /\ names' \in Naming
  /\ transcript_buf' = <<>>
  /\ files' = <<>>
  /\ UNCHANGED saving

TNext == TBegin \/ TRun \/ Open \/ Write \/ SaveFails \/ TNewRun

TSpec == TInit /\ [][TNext]_<<vars, tvars>>

(* As OracleLoop's FairSpec, and a file that is opened is written. *)
TFairSpec == TSpec /\ WF_<<vars, tvars>>(TRun \/ Open \/ Write)

-----------------------------------------------------------------------------
Messages == [role : {"user", "assistant"}, iter : 0 .. MaxRepair]

TTypeOK ==
  /\ TypeOK
  /\ saving \in {"no", "opening", "writing"}
  /\ \A f \in DOMAIN files : files[f] # Torn =>
       /\ Len(files[f]) <= 2 * (MaxRepair + 1)
       /\ \A i \in DOMAIN files[f] : files[f][i] \in Messages

(* When an obligation has ended, the file of its name tells what the trace *)
(* and the outcome tell, and nothing else: by turns a prompt, one for each *)
(* line of oracle_loop.jsonl, and an answer, one for each attempt; and the *)
(* last answer is the one that became the final artifact (loop.py 85-372,  *)
(* telemetry.py 43-53).                                                    *)
TranscriptMatchesTrace ==
  Ended /\ saving = "no" =>
    LET messages == files[File]
    IN  /\ Len(messages) = Len(lines) + Len(attempts)
        /\ \A i \in 1 .. Len(lines) : messages[2 * i - 1] = Prompt(lines[i].iter)
        /\ \A i \in 1 .. Len(attempts) : messages[2 * i] = Answer(attempts[i].artifact)
        /\ loop.final # None => messages[2 * Len(attempts)] = Answer(loop.final)

(* All the records of an obligation tell one story: outcome, trace,        *)
(* prompts, transcript, and the total the outcome reports, which is what   *)
(* the calls of its run were billed (loop.py 131-207, eval/runner.py 364). *)
RecordsAgree == TraceExplainsOutcome /\ TranscriptMatchesTrace /\ TotalIsBilled

=============================================================================
