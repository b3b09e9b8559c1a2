----------------------------- MODULE McpServer -----------------------------
(***************************************************************************)
(* The tools of the MCP server (mcp/tools.py, mcp/server.py). Each request *)
(* is a task of one event loop with context variables of its own: the      *)
(* active run and the budget guard. solve, check, eval and cost_report     *)
(* call blocking code and never give their turn away before they answer;   *)
(* mine does while it waits for arXiv.                                     *)
(*                                                                         *)
(* What the tools call is in SolveCommand, CheckCommand, EvalRunner,       *)
(* Mining and CostReport; here a call is the provider calls it pays, and   *)
(* whether it could read its feature file. An eval starts a run per task,  *)
(* all named after the request here.                                       *)
(***************************************************************************)
EXTENDS Spending, FiniteSets, Functions

CONSTANTS
  Requests,            (* a request is a task; runs are named after it *)
  Tools,               (* the tools that are called *)
  MaxCalls             (* bound on the provider calls of a request *)

(* A guard with its budget, as it is installed. *)
InstalledType == [budget : BudgetType, counted : GuardType]

ASSUME McpServerAssumption ==
  /\ None \notin Requests \union InstalledType
  /\ IsFiniteSet(Requests)
  /\ Tools \subseteq {"solve", "check", "eval", "mine", "cost_report"}
  /\ MaxCalls \in Nat

VARIABLES
  default_max_cost_usd, (* MCPServerConfig.default_max_cost_usd *)
  turn,                (* the task that runs, None: the event loop waits *)
  task,                (* per request: [pc, tool, cap, calls, total, unread] *)
  current,             (* per task: the active run *)
  guards,              (* per task: the installed guard and its budget, None *)
  llm_rows,            (* cost of the rows in llm_calls.jsonl, by run; None:
                          there is no such run *)
  answers              (* per request: [kind, total] *)

server_vars == <<default_max_cost_usd, turn, task, current, guards, llm_rows, answers>>

NewTask == [pc |-> "idle", tool |-> None, cap |-> None, calls |-> 0, total |-> 0, unread |-> FALSE]

NoAnswer == [kind |-> "none", total |-> 0]

ServerInit ==
  /\ default_max_cost_usd \in Caps
  /\ turn = None
  /\ task = [t \in Requests |-> NewTask]
  /\ current = [t \in Requests |-> None]
  /\ guards = [t \in Requests |-> None]
  /\ llm_rows = [t \in Requests |-> None]
  /\ answers = [t \in Requests |-> NoAnswer]

Running(t, tools) == turn = t /\ task[t].pc = "running" /\ task[t].tool \in tools

-----------------------------------------------------------------------------
(* Mutant: the guard is left for the next call. *)
LeaveInstalled(t) ==
  /\ turn' = None
  /\ task' = [task EXCEPT ![t].pc = "done"]
  /\ current' = [current EXCEPT ![t] = None]
  /\ UNCHANGED guards

(* The context of the task ends with the run: start_run resets the active  *)
(* run, and solve and eval take their guard down.                          *)
Leave(t) ==
  /\ turn' = None
  /\ task' = [task EXCEPT ![t].pc = "done"]
  /\ current' = [current EXCEPT ![t] = None]
  /\ guards' = [guards EXCEPT ![t] = None]

Reply(t, kind, total) ==
  /\ answers' = [answers EXCEPT ![t] = [kind |-> kind, total |-> total]]
  /\ Leave(t)

(* Mutant: the server's default comes first. *)
ToolCapDefaultFirst(tool, cap) ==
  IF tool = "solve" /\ default_max_cost_usd # None THEN default_max_cost_usd ELSE cap

(* Only solve looks at the server's default. *)
ToolCap(tool, cap) == IF tool = "solve" /\ cap = None THEN default_max_cost_usd ELSE cap

Receive(t, tool, cap) ==
  /\ turn = None /\ task[t].pc = "idle"
  /\ cap # None => tool \in {"solve", "eval"}
  /\ turn' = t
  /\ task' = [task EXCEPT ![t].pc = "starting", ![t].tool = tool, ![t].cap = cap]
  /\ UNCHANGED <<default_max_cost_usd, current, guards, llm_rows, answers>>

(* A file, a suite or a toolchain that is not there, no providers, an      *)
(* unknown provider, mining without network=true: answered as an error. A  *)
(* cap that is no decimal is raised, which the library answers as such.    *)
ToolRefused(t) ==
  /\ turn = t /\ task[t].pc = "starting" /\ task[t].tool # "cost_report"
  /\ \E kind \in {"error", "raised"} : Reply(t, kind, 0)
  /\ UNCHANGED <<default_max_cost_usd, llm_rows>>

ToolStarts(t) ==
  LET cap == ToolCap(task[t].tool, task[t].cap) IN
  /\ turn = t /\ task[t].pc = "starting" /\ task[t].tool # "cost_report"
  /\ task' = [task EXCEPT ![t].pc = "running"]
  /\ current' = [current EXCEPT ![t] = t]
  /\ llm_rows' = [llm_rows EXCEPT ![t] = 0]
  /\ guards' = [guards EXCEPT ![t] =
       IF cap = None THEN None
       ELSE [budget |-> Only(cap), counted |-> NewGuard]]
  /\ UNCHANGED <<default_max_cost_usd, turn, answers>>

(* The one feature file of solve or check cannot be read or parsed: there  *)
(* are no obligations. (A suite has the failure among its outcomes.)       *)
FileUnreadable(t) ==
  /\ Running(t, {"solve", "check"}) /\ task[t].calls = 0 /\ ~task[t].unread
  /\ task' = [task EXCEPT ![t].unread = TRUE]
  /\ UNCHANGED <<default_max_cost_usd, turn, current, guards, llm_rows, answers>>

Admits(t) == guards[t] # None => EnsureNotExceeded(guards[t].budget, guards[t].counted)

(* Mutant: the active run is a global that every start sets. *)
ActiveRunGlobal(t) ==
  LET others == {u \in Requests \ {t} : current[u] # None}
  IN IF others # {} THEN CHOOSE u \in others : TRUE ELSE current[t]

ActiveRun(t) == current[t]

(* A provider call under the guard; record may raise, the row and the      *)
(* total have the call all the same.                                       *)
Pay(t, bill) ==
  /\ Running(t, {"solve", "eval"}) /\ ~task[t].unread /\ task[t].calls < MaxCalls
  /\ Admits(t)
  /\ task' = [task EXCEPT ![t].calls = @ + 1, ![t].total = @ + bill.cost]
  /\ llm_rows' = [llm_rows EXCEPT ![ActiveRun(t)] = @ + bill.cost]
  /\ guards' = IF guards[t] = None THEN guards
              ELSE [guards EXCEPT ![t].counted = Recorded(guards[t].budget, @, bill)]
  /\ UNCHANGED <<default_max_cost_usd, turn, current, answers>>

(* Mutant: the request is made with a blocking client. *)
AwaitHolding(t) ==
  /\ Running(t, {"mine"})
  /\ task' = [task EXCEPT ![t].pc = "waiting"]
  /\ UNCHANGED <<default_max_cost_usd, turn, current, guards, llm_rows, answers>>

(* The HTTP request of mine. *)
Await(t) ==
  /\ Running(t, {"mine"})
  /\ task' = [task EXCEPT ![t].pc = "waiting"]
  /\ turn' = None
  /\ UNCHANGED <<default_max_cost_usd, current, guards, llm_rows, answers>>

(* The response, or 30 seconds later a timeout: the rest of mine. *)
Resume(t) ==
  /\ turn = None /\ task[t].pc = "waiting"
  /\ turn' = t
  /\ task' = [task EXCEPT ![t].pc = "extracting"]
  /\ UNCHANGED <<default_max_cost_usd, current, guards, llm_rows, answers>>

(* An exception the tool names is answered as an error, any other raised:  *)
(* what has been paid is in no answer then.                                *)
Breaks(t, kind) ==
  /\ turn = t /\ task[t].pc \in {"running", "extracting"}
  /\ Reply(t, kind, 0)
  /\ UNCHANGED <<default_max_cost_usd, llm_rows>>

Complete(t) ==
  /\ turn = t
  /\ Running(t, {"solve", "check", "eval"}) \/ task[t].pc = "extracting"
  /\ Reply(t, "ok", task[t].total)
  /\ UNCHANGED <<default_max_cost_usd, llm_rows>>

(* Mutant: only runs whose request was answered are reported on. *)
ReportableAnswered == {r \in Requests : answers[r].kind = "ok"}

Reportable == {r \in Requests : llm_rows[r] # None}

(* All runs, read in one turn; without one the directory may be missing.   *)
ToolCostReport(t) ==
  /\ turn = t /\ task[t].pc = "starting" /\ task[t].tool = "cost_report"
  /\ IF Reportable # {} THEN Reply(t, "ok", SumFunctionOnSet(llm_rows, Reportable))
     ELSE \E kind \in {"error", "raised"} : Reply(t, kind, 0)
  /\ UNCHANGED <<default_max_cost_usd, llm_rows>>

Task(t) ==
  \/ ToolRefused(t) \/ ToolStarts(t) \/ FileUnreadable(t) \/ Await(t) \/ Resume(t) \/ Complete(t)
  \/ ToolCostReport(t)
  \/ \E bill \in Bills : Pay(t, bill)
  \/ \E kind \in {"error", "raised"} : Breaks(t, kind)

ServerNext == \E t \in Requests :
  \/ \E tool \in Tools, cap \in Caps : Receive(t, tool, cap)
  \/ Task(t)

(* The loop runs a task that can go on; httpx answers or times out.        *)
ServerSpec == ServerInit /\ [][ServerNext]_server_vars /\ \A t \in Requests : WF_server_vars(Task(t))

-----------------------------------------------------------------------------
ServerTypeOK ==
  /\ turn \in Requests \union {None}
  /\ \A t \in Requests :
       /\ task[t].pc \in {"idle", "starting", "running", "waiting", "extracting", "done"}
       /\ (turn = t) <=> (task[t].pc \in {"starting", "running", "extracting"})
       /\ (current[t] = t) <=> (task[t].pc \in {"running", "waiting", "extracting"})
       /\ guards[t] # None => current[t] = t
       /\ task[t].calls \in 0 .. MaxCalls
       /\ (answers[t].kind = "none") <=> (task[t].pc # "done")

(* What a call paid is in its own run, whoever else was under way: the     *)
(* total it answers is the cost of the rows in the runs it names, and the  *)
(* tools that call no model leave none.                                    *)
TotalsAreOwn ==
  \A t \in Requests :
    /\ llm_rows[t] # None => llm_rows[t] = task[t].total
    /\ answers[t].kind = "ok" /\ task[t].tool # "cost_report"
         => answers[t].total = llm_rows[t]

(* The cost report finds all the money the server has spent, also on calls *)
(* that answered an error or are still under way.                          *)
ReportFindsAll ==
  [][\A t \in Requests :
       LET spent == SumFunction([r \in Requests |-> task[r].total]) IN
       task[t].tool = "cost_report" /\ answers'[t] # answers[t]
         => \/ answers'[t].kind = "ok" /\ answers'[t].total = spent
            \/ answers'[t].kind # "ok" /\ spent = 0]_server_vars

(* A call passes its cap by at most the call that crosses it, however many *)
(* calls the server has answered: the cap of its request, which goes       *)
(* before the server's, or for solve the server's if the request has none. *)
(* (For eval that is DefaultCapHolds.)                                     *)
CapHoldsPerCall ==
  \A t \in Requests :
    /\ task[t].cap # None => task[t].total <= task[t].cap + MaxBill
    /\ task[t].tool = "solve" /\ task[t].cap = None /\ default_max_cost_usd # None
         => task[t].total <= default_max_cost_usd + MaxBill

(* The server's cap is the "default budget for tools that invoke the LLM"  *)
(* (mcp/runtime.py 31): it holds for every request without its own. (The   *)
(* code leaves eval without a budget then.)                                *)
DefaultCapHolds ==
  default_max_cost_usd # None =>
    \A t \in Requests : task[t].tool \in {"solve", "eval"} /\ task[t].cap = None
      => task[t].total <= default_max_cost_usd + MaxBill

(* A call that waits for arXiv keeps no other from being answered, and     *)
(* every request is answered.                                              *)
RequestsAnswered == \A t \in Requests : task[t].pc # "idle" ~> task[t].pc = "done"
=============================================================================
