------------------------------ MODULE Commands ------------------------------
(***************************************************************************)
(* Four parts that have no state in common: solve (SolveCommand), the      *)
(* server's overlapping requests (McpServer), the reports made while       *)
(* commands write (CostReport) and mining (Mining). A behaviour is of one  *)
(* part, and the others keep still.                                        *)
(***************************************************************************)
EXTENDS SolveCommand, McpServer, CostReport, Mining

VARIABLE part          (* "solve", "server", "report" or "mining" *)

all_vars == <<part, vars, server_vars, report_vars, mining_vars>>

PartsInit ==
  /\ Init /\ ServerInit /\ ReportInit /\ MiningInit
  /\ part \in {"solve", "server", "report", "mining"}

PartsNext ==
  \/ part = "solve" /\ Next /\ UNCHANGED <<part, server_vars, report_vars, mining_vars>>
  \/ part = "server" /\ ServerNext /\ UNCHANGED <<part, vars, report_vars, mining_vars>>
  \/ part = "report" /\ ReportNext /\ UNCHANGED <<part, vars, server_vars, mining_vars>>
  \/ part = "mining" /\ MiningNext /\ UNCHANGED <<part, vars, server_vars, report_vars>>

(* The fairness of the parts that state one. *)
PartsFairness ==
  /\ \A t \in Requests : WF_server_vars(Task(t))
  /\ WF_report_vars(Report)

PartsSpec == PartsInit /\ [][PartsNext]_all_vars /\ PartsFairness

-----------------------------------------------------------------------------
(* Every part keeps its types. *)
PartsTypeOK == TypeOK /\ ServerTypeOK /\ ReportTypeOK /\ MiningTypeOK

(* A cap, be it zero, holds for each solve command and for each call of a  *)
(* tool, and neither is charged for another: not for the one before it,    *)
(* and not for one that overlaps it.                                       *)
CapsHold == CapHoldsPerCommand /\ CapHoldsPerCall

(* A report made while commands write lies between the books of when it    *)
(* was asked for and of now, agrees with the manifests, and only a line    *)
(* cut short in a run it covers makes it fail.                             *)
ReportTells == ReportBounded /\ BooksAgree /\ RaisesOnlyForTorn

(* What was paid is in the manifest and in the answer of the command or    *)
(* call that paid it, and in the run that is its own, and a cost report    *)
(* finds it there.                                                         *)
SpendingTold == SpendingReported /\ TotalsAreOwn /\ ReportTells

(* A mining call's log and file hold what the call found, whatever calls   *)
(* run beside it.                                                          *)
MinedIsOwn == RowsInOwnRun /\ FileHoldsClaims

(* The server answers every request, also beside one that waits for arXiv, *)
(* and a report ends also while a command goes on writing.                 *)
AnswersAreDue == RequestsAnswered /\ ReportEnds
=============================================================================
