----------------------------- MODULE CostReport -----------------------------
(***************************************************************************)
(* Commands that write run directories, each its own, and a reader that    *)
(* walks over the directories meanwhile: kalinov cost report, the          *)
(* cost_report tool (llm/run_report.py) and the resource that lists the    *)
(* runs (mcp/resources.py). Nothing but the files is shared.               *)
(*                                                                         *)
(* A row is appended with one write, so it is read whole or not at all,    *)
(* unless the disk refuses part of it: then append_jsonl_record raises,    *)
(* the command ends, and the file keeps half a line (torn). manifest.json  *)
(* is opened, which empties it, and then written.                          *)
(***************************************************************************)
EXTENDS RunReport, Optional, Functions

CONSTANTS
  RunCount,            (* run directories: ids are drawn at random, and a run
                          is its place in the order of the ids *)
  Rows,                (* the rows a call may leave *)
  Empty,               (* manifest.json opened and not yet written *)
  MaxRows              (* bound on the calls of all runs together *)

ASSUME CostReportAssumption ==
  /\ RunCount \in Nat /\ MaxRows \in Nat
  /\ Rows \subseteq RowType
  /\ Empty \notin Nat \union {None}

Runs == 1 .. RunCount

VARIABLES
  stage,               (* of the command that owns a run: "none", "running",
                          "closing" its manifest, "ended" *)
  rows,                (* llm_calls.jsonl by run, whole lines *)
  torn,                (* half a line follows them *)
  manifests,           (* total_cost_usd in manifest.json, Empty, or None *)
  report,              (* the report: "idle", "reading", "answered", "raised" *)
  asked_run,           (* its run_id, None for all runs *)
  pending,             (* directories discovered and not yet read *)
  got,                 (* rows read so far, by directory *)
  since,               (* how many rows each directory had at discovery *)
  payload              (* what the report answered *)

run_files == <<stage, rows, torn, manifests>>
report_reader == <<report, asked_run, pending, got, since, payload>>
report_vars == <<run_files, report_reader>>

ReportInit ==
  /\ stage = [r \in Runs |-> "none"]
  /\ rows = [r \in Runs |-> <<>>]
  /\ torn = [r \in Runs |-> FALSE]
  /\ manifests = [r \in Runs |-> None]
  /\ report = "idle" /\ asked_run = None
  /\ pending = {} /\ got = [r \in Runs |-> <<>>] /\ since = [r \in Runs |-> 0]
  /\ payload = None

run_dirs == {r \in Runs : stage[r] # "none"}

-----------------------------------------------------------------------------
(* A solve command or a task of an eval, over its run directory. *)

BeginRun(r) ==
  /\ stage[r] = "none"
  /\ stage' = [stage EXCEPT ![r] = "running"]
  /\ UNCHANGED <<rows, torn, manifests, report_reader>>

(* Mutant: a row is written whether a run is active or not. *)
LogCallOutsideRun(r, row) ==
  /\ SumFunction([q \in Runs |-> Len(rows[q])]) < MaxRows
  /\ rows' = [rows EXCEPT ![r] = Append(@, row)]
  /\ UNCHANGED <<stage, torn, manifests, report_reader>>

LogCall(r, row) ==
  /\ stage[r] = "running" /\ SumFunction([q \in Runs |-> Len(rows[q])]) < MaxRows
  /\ rows' = [rows EXCEPT ![r] = Append(@, row)]
  /\ UNCHANGED <<stage, torn, manifests, report_reader>>

LogFails(r) ==
  /\ stage[r] = "running"
  /\ torn' = [torn EXCEPT ![r] = TRUE]
  /\ stage' = [stage EXCEPT ![r] = "ended"]
  /\ UNCHANGED <<rows, manifests, report_reader>>

OpenManifest(r) ==
  /\ stage[r] = "running"
  /\ manifests' = [manifests EXCEPT ![r] = Empty]
  /\ stage' = [stage EXCEPT ![r] = "closing"]
  /\ UNCHANGED <<rows, torn, report_reader>>

(* Mutant: the manifest of a task leaves out what its last call cost. *)
CloseManifestEarly(r) ==
  /\ stage[r] = "closing"
  /\ manifests' = [manifests EXCEPT ![r] =
       AggregateRows(SubSeq(rows[r], 1, Len(rows[r]) - 1)).usd]
  /\ stage' = [stage EXCEPT ![r] = "ended"]
  /\ UNCHANGED <<rows, torn, report_reader>>

(* The sum of the outcomes' costs: what the calls since StartRun cost. *)
CloseManifest(r) ==
  /\ stage[r] = "closing"
  /\ manifests' = [manifests EXCEPT ![r] = AggregateRows(rows[r]).usd]
  /\ stage' = [stage EXCEPT ![r] = "ended"]
  /\ UNCHANGED <<rows, torn, report_reader>>

(* An exception of the loop, or the process is killed. *)
CommandDies(r) ==
  /\ stage[r] \in {"running", "closing"}
  /\ stage' = [stage EXCEPT ![r] = "ended"]
  /\ UNCHANGED <<rows, torn, manifests, report_reader>>

-----------------------------------------------------------------------------
(* The report. *)

(* _iter_llm_call_rows: the rows of one directory after another. *)
RowsOf(read) ==
  LET all[r \in 0 .. RunCount] == IF r = 0 THEN <<>> ELSE all[r - 1] \o read[r]
  IN all[RunCount]

(* Mutant: every directory is read, whatever run was asked for. *)
DiscoverAll(run_id) == run_dirs

DiscoverRunDirs(run_id) == IF run_id = None THEN run_dirs ELSE run_dirs \intersect {run_id}

(* The runs directory itself is made by the first run; without it a report *)
(* on all runs raises FileNotFoundError. No directory: "no matching runs". *)
(* One report is followed: nothing is kept from one to the next.           *)
AskReport(run_id) ==
  /\ report = "idle"
  /\ asked_run' = run_id
  /\ pending' = DiscoverRunDirs(run_id)
  /\ report' = IF pending' # {} THEN "reading"
               ELSE IF run_id = None THEN "raised" ELSE "answered"
  /\ got' = [r \in Runs |-> <<>>]
  /\ since' = [r \in Runs |-> Len(rows[r])]
  /\ payload' = None
  /\ UNCHANGED run_files

(* Mutant: only a run that is over is read. *)
ReadRunWhenEnded(r) ==
  /\ report = "reading" /\ r \in pending /\ stage[r] = "ended"
  /\ ~torn[r]
  /\ got' = [got EXCEPT ![r] = rows[r]]
  /\ pending' = pending \ {r}
  /\ UNCHANGED <<run_files, report, asked_run, since, payload>>

ReadRun(r) ==
  /\ report = "reading" /\ r \in pending
  /\ ~torn[r]
  /\ got' = [got EXCEPT ![r] = rows[r]]
  /\ pending' = pending \ {r}
  /\ UNCHANGED <<run_files, report, asked_run, since, payload>>

(* json.loads of the half line raises, and nothing catches it. *)
ReadTorn(r) ==
  /\ report = "reading" /\ r \in pending
  /\ torn[r]
  /\ report' = "raised"
  /\ UNCHANGED <<run_files, asked_run, pending, got, since, payload>>

AnswerReport(group_by) ==
  /\ report = "reading" /\ pending = {}
  /\ report' = "answered"
  /\ payload' = Aggregate(RowsOf(got), group_by)
  /\ UNCHANGED <<run_files, asked_run, pending, got, since>>

(* The list of the runs: a manifest that cannot be parsed counts as none. *)
ListedCost(r) == IF manifests[r] = Empty THEN None ELSE manifests[r]

-----------------------------------------------------------------------------
Command(r) ==
  \/ BeginRun(r) \/ LogFails(r) \/ OpenManifest(r) \/ CloseManifest(r) \/ CommandDies(r)
  \/ \E row \in Rows : LogCall(r, row)

Report ==
  \/ \E group_by \in Groupings : AnswerReport(group_by)
  \/ \E r \in Runs : ReadRun(r) \/ ReadTorn(r)

ReportNext ==
  \/ \E r \in Runs : Command(r)
  \/ \E run_id \in Runs \union {None} : AskReport(run_id)
  \/ Report

(* The reader runs on once it was asked; nobody has to ask, and a command  *)
(* may take as long as it likes.                                           *)
ReportSpec == ReportInit /\ [][ReportNext]_report_vars /\ WF_report_vars(Report)

-----------------------------------------------------------------------------
ReportTypeOK ==
  /\ stage \in [Runs -> {"none", "running", "closing", "ended"}]
  /\ rows \in [Runs -> Seq(Rows)]
  /\ torn \in [Runs -> BOOLEAN]
  /\ manifests \in [Runs -> Nat \union {None, Empty}]
  /\ report \in {"idle", "reading", "answered", "raised"}
  /\ asked_run \in Runs \union {None}
  /\ pending \subseteq run_dirs
  /\ got \in [Runs -> Seq(Rows)]
  /\ since \in [Runs -> Nat]
  /\ \A r \in Runs : stage[r] = "none" => rows[r] = <<>> /\ manifests[r] = None

AtMost(a, b) ==
  /\ a.usd <= b.usd
  /\ a.calls <= b.calls
  /\ \A k \in TokenKinds : a.tokens[k] <= b.tokens[k]

Chosen == IF asked_run = None THEN Runs ELSE {asked_run}

Books(length) ==
  AggregateRows(RowsOf([r \in Runs |->
    IF r \in Chosen THEN SubSeq(rows[r], 1, length[r]) ELSE <<>>]))

(* A report made while commands are writing is not a snapshot, but it is   *)
(* bounded by two: it has every call that was logged when it was asked     *)
(* for, and none that has not been logged yet, whatever it groups by; a    *)
(* report during which nothing was written is exact.                       *)
ReportBounded ==
  report = "answered" /\ payload # None =>
    /\ AtMost(Books(since), payload.totals)
    /\ AtMost(payload.totals, Books([r \in Runs |-> Len(rows[r])]))

(* A run whose last row is cut short takes the report on itself and on all *)
(* runs down, but no report on another run, and nothing else does but      *)
(* that there is no runs directory yet: a report is never disturbed by a   *)
(* command that is writing.                                                *)
RaisesOnlyForTorn ==
  report = "raised" =>
    \/ \E r \in Chosen : torn[r]
    \/ asked_run = None /\ since = [r \in Runs |-> 0]

(* Three numbers told of one run agree: the cost in its manifest, which is *)
(* what the list of the runs shows, the tokens in the eval report, and the *)
(* cost report of the run, for as long as its files are there.             *)
BooksAgree ==
  \A r \in Runs :
    LET books == Aggregate(rows[r], "none").totals IN
    /\ ListedCost(r) # None => ListedCost(r) = books.usd
    /\ TokenUsageFromRows(rows[r]) = books.tokens

(* A report that was asked for ends, also while a command goes on writing. *)
ReportEnds == report = "reading" ~> report # "reading"
=============================================================================
