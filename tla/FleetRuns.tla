----------------------------- MODULE FleetRuns -----------------------------
(***************************************************************************)
(* Runs of the fleet: task templates (uas/routines.py, core/chain_runner)  *)
(* and invoice workflows (web/server.py), driven step by step through the  *)
(* Sovereign Gateway (core/gateway.py), with the task and ticket tables    *)
(* they settle.                                                            *)
(*                                                                         *)
(* Every handler is a coroutine of one event loop.  It runs without        *)
(* interruption up to its next await, so an action here is the code        *)
(* between two suspension points: waiting for the agent's lock, waiting    *)
(* for Model Armor (to_thread), waiting for the tool body.                 *)
(***************************************************************************)
EXTENDS Naturals, Sequences

CONSTANTS
  Runs,           \* run ids; a run and its task record share one id
  Agents,         \* agent identities of the fleet
  Tools,          \* tool names
  Scope,          \* the pairs <<agent, tool>> an identity is scoped for
  Asking,         \* tools whose permission rule is ASK
  Denied,         \* tools whose permission rule is DENY (or that have no rule)
  TemplatePlans,  \* step sequences a task template may carry
  InvoicePlans,   \* the two call sequences of run_omniledger_workflow
  ScreenedAgent,  \* the agent an unsafe upload quarantines
  MaxCrashes,     \* bound: process restarts in a behaviour
  StoreMayFail    \* whether saving a settled task may raise

Calls == [agent : Agents, tool : Tools]

ASSUME PlansAssumption ==
  /\ TemplatePlans \subseteq Seq(Calls) \ {<<>>}
  /\ InvoicePlans \subseteq Seq(Calls) \ {<<>>}
  \* run_omniledger_workflow asks a human for its last call at most
  /\ \A plan \in InvoicePlans : \A i \in 1..(Len(plan) - 1) : plan[i].tool \notin Asking

ASSUME ConfigAssumption ==
  /\ ScreenedAgent \in Agents
  /\ MaxCrashes \in Nat
  /\ StoreMayFail \in BOOLEAN

VARIABLES
  task,         \* the task table: see TaskLifecycle
  ticket,       \* the approval ticket of a run: none, pending, approved, rejected
  log,          \* the run's stored log: absent, open, closed
  pc,           \* where the run's coroutine is suspended
  todo,         \* the gateway calls still to make, the current one first
  public,       \* whether the run belongs to an anonymous demo workspace
  queue,        \* per agent, the asyncio lock: holder first, waiters in order
  quarantined,  \* agents in quarantine (in memory)
  crashes       \* restarts so far

vars == <<task, ticket, log, pc, todo, public, queue, quarantined, crashes>>

Lifecycle == INSTANCE TaskLifecycle WITH Tasks <- Runs, state <- task

ActivePcs == {"screening", "waiting", "admitted", "tool"}
Active(r) == pc[r] \in ActivePcs

Call(r) == Head(todo[r])
HoldsLock(r) == queue[Call(r).agent] # <<>> /\ Head(queue[Call(r).agent]) = r

TypeOK ==
  /\ Lifecycle!TypeOK
  /\ ticket \in [Runs -> {"none", "pending", "approved", "rejected"}]
  /\ log \in [Runs -> {"absent", "open", "closed"}]
  /\ pc \in [Runs -> ActivePcs \cup {"new", "manual", "over", "dead"}]
  /\ todo \in [Runs -> Seq(Calls)]
  /\ \A r \in Runs : Active(r) => todo[r] # <<>>
  /\ public \in [Runs -> BOOLEAN]
  /\ queue \in [Agents -> Seq(Runs)]
  /\ quarantined \in SUBSET Agents
  /\ crashes \in Nat

Init ==
  /\ task = [r \in Runs |-> "absent"]
  /\ ticket = [r \in Runs |-> "none"]
  /\ log = [r \in Runs |-> "absent"]
  /\ pc = [r \in Runs |-> "new"]
  /\ todo = [r \in Runs |-> <<>>]
  /\ public = [r \in Runs |-> FALSE]
  /\ queue = [a \in Agents |-> <<>>]
  /\ quarantined = {}
  /\ crashes = 0

-----------------------------------------------------------------------------
(* Pieces the handlers share.                                               *)

\* asyncio.Lock is fair: a coroutine that asks for a held lock lines up.
Joined(q, r, call) == [q EXCEPT ![call.agent] = Append(@, r)]

\* Leaving `async with agent_lock` hands the lock to the next waiter.
Released(r) == [queue EXCEPT ![Call(r).agent] = Tail(@)]

\* TaskMaster.update_task_state: a move the table does not allow raises and
\* leaves the record alone.
UpdateTask(r, s) ==
  task' = [task EXCEPT ![r] =
             IF Lifecycle!Stored(r) /\ s \in Lifecycle!AllowedTransitions[task[r]]
             THEN s ELSE @]

\* Mistake: the bus entry is left open.
SettleSilently(r, s) ==
  /\ pc' = [pc EXCEPT ![r] = "over"]
  /\ todo' = [todo EXCEPT ![r] = <<>>]
  /\ UNCHANGED log
  /\ UpdateTask(r, s)

\* The end of a run: the bus entry is closed, then the task is moved.  When
\* the artifact or task store raises there, nothing else is undone.
Settle(r, s) ==
  /\ pc' = [pc EXCEPT ![r] = "over"]
  /\ todo' = [todo EXCEPT ![r] = <<>>]
  /\ log' = [log EXCEPT ![r] = IF @ = "open" THEN "closed" ELSE @]
  /\ \/ UpdateTask(r, s)
     \/ StoreMayFail /\ UNCHANGED task

-----------------------------------------------------------------------------
(* enqueue_template up to its first suspension.                             *)

StartTemplate(r, plan, demo) ==
  /\ pc[r] = "new"
  /\ pc' = [pc EXCEPT ![r] = "waiting"]
  /\ task' = [task EXCEPT ![r] = "in_progress"]
  /\ log' = [log EXCEPT ![r] = "open"]
  /\ todo' = [todo EXCEPT ![r] = plan]
  /\ public' = [public EXCEPT ![r] = demo]
  /\ queue' = Joined(queue, r, Head(plan))
  /\ UNCHANGED <<ticket, quarantined, crashes>>

\* The agent is not registered, or a prompt or skill of the step is gone.
FailToStart(r) ==
  /\ pc[r] = "new"
  /\ pc' = [pc EXCEPT ![r] = "over"]
  /\ task' = [task EXCEPT ![r] = "failed"]
  /\ log' = [log EXCEPT ![r] = "closed"]
  /\ UNCHANGED <<ticket, todo, public, queue, quarantined, crashes>>

\* The template carries requires_approval: the ticket is opened and the run
\* ends before any model call.
RequestApproval(r) ==
  /\ pc[r] = "new"
  /\ pc' = [pc EXCEPT ![r] = "over"]
  /\ ticket' = [ticket EXCEPT ![r] = "pending"]
  /\ log' = [log EXCEPT ![r] = "closed"]
  /\ \E s \in {"awaiting_approval"} \cup (IF StoreMayFail THEN {"queued"} ELSE {}) :
       task' = [task EXCEPT ![r] = s]
  /\ UNCHANGED <<todo, public, queue, quarantined, crashes>>

-----------------------------------------------------------------------------
(* api_process_invoice: the upload's text layer is read in a thread, then    *)
(* screened before the first gateway call.                                   *)

StartInvoice(r, plan, demo) ==
  /\ pc[r] = "new"
  /\ pc' = [pc EXCEPT ![r] = "screening"]
  /\ task' = [task EXCEPT ![r] = "in_progress"]
  /\ todo' = [todo EXCEPT ![r] = plan]
  /\ public' = [public EXCEPT ![r] = demo]
  /\ UNCHANGED <<ticket, log, queue, quarantined, crashes>>

ScreenPasses(r) ==
  /\ pc[r] = "screening"
  /\ pc' = [pc EXCEPT ![r] = "waiting"]
  /\ queue' = Joined(queue, r, Call(r))
  /\ UNCHANGED <<task, ticket, log, todo, public, quarantined, crashes>>

ScreenRefuses(r) ==
  /\ pc[r] = "screening"
  /\ quarantined' = IF public[r] THEN quarantined ELSE quarantined \cup {ScreenedAgent}
  /\ Settle(r, "failed")
  /\ UNCHANGED <<ticket, public, queue, crashes>>

-----------------------------------------------------------------------------
(* SovereignGateway.execute_tool_call, and what the caller does with each    *)
(* of its outcomes before it suspends again.                                 *)

\* Identity and scope are checked once the lock is held.
Admit(r) ==
  /\ pc[r] = "waiting" /\ HoldsLock(r)
  /\ Call(r).agent \notin quarantined
  /\ <<Call(r).agent, Call(r).tool>> \in Scope
  /\ pc' = [pc EXCEPT ![r] = "admitted"]
  /\ UNCHANGED <<task, ticket, log, todo, public, queue, quarantined, crashes>>

\* Mistake: the refusal escapes the handler before the task is settled.
RefuseWithoutSettling(r) ==
  /\ pc[r] = "waiting" /\ HoldsLock(r)
  /\ Call(r).agent \in quarantined
  /\ queue' = Released(r)
  /\ pc' = [pc EXCEPT ![r] = "over"]
  /\ todo' = [todo EXCEPT ![r] = <<>>]
  /\ UNCHANGED <<task, log, ticket, public, quarantined, crashes>>

RefuseQuarantined(r) ==
  /\ pc[r] = "waiting" /\ HoldsLock(r)
  /\ Call(r).agent \in quarantined
  /\ queue' = Released(r)
  /\ Settle(r, "failed")
  /\ UNCHANGED <<ticket, public, quarantined, crashes>>

\* Mistake: scope is checked, and the agent quarantined, before the lock is held.
RefuseUnscopedUnlocked(r) ==
  /\ pc[r] = "waiting"
  /\ Call(r).agent \notin quarantined
  /\ <<Call(r).agent, Call(r).tool>> \notin Scope
  /\ quarantined' = IF public[r] THEN quarantined ELSE quarantined \cup {Call(r).agent}
  /\ queue' = [queue EXCEPT ![Call(r).agent] = SelectSeq(@, LAMBDA q : q # r)]
  /\ Settle(r, "failed")
  /\ UNCHANGED <<ticket, public, crashes>>

RefuseUnscoped(r) ==
  /\ pc[r] = "waiting" /\ HoldsLock(r)
  /\ Call(r).agent \notin quarantined
  /\ <<Call(r).agent, Call(r).tool>> \notin Scope
  /\ quarantined' = IF public[r] THEN quarantined ELSE quarantined \cup {Call(r).agent}
  /\ queue' = Released(r)
  /\ Settle(r, "failed")
  /\ UNCHANGED <<ticket, public, crashes>>

\* Mistake: the refusal leaves without giving the lock back.
RefuseHoldingLock(r) ==
  /\ pc[r] = "admitted"
  /\ Settle(r, "failed")
  /\ UNCHANGED <<ticket, public, queue, quarantined, crashes>>

\* Model Armor finds a pattern in the arguments, or the tool is denied.
RefuseArguments(r) ==
  /\ pc[r] = "admitted"
  /\ queue' = Released(r)
  /\ Settle(r, "failed")
  /\ UNCHANGED <<ticket, public, quarantined, crashes>>

StartTool(r) ==
  /\ pc[r] = "admitted"
  /\ Call(r).tool \notin Asking \cup Denied
  /\ pc' = [pc EXCEPT ![r] = "tool"]
  /\ UNCHANGED <<task, ticket, log, todo, public, queue, quarantined, crashes>>

\* Mistake: the task waits for a ticket nobody opened.
AskNobody(r) ==
  /\ pc[r] = "admitted"
  /\ Call(r).tool \in Asking
  /\ queue' = Released(r)
  /\ Settle(r, "awaiting_approval")
  /\ UNCHANGED <<ticket, public, quarantined, crashes>>

\* An ASK rule ends the run in a ticket, whatever steps are left.
AskHuman(r) ==
  /\ pc[r] = "admitted"
  /\ Call(r).tool \in Asking
  /\ ticket' = [ticket EXCEPT ![r] = "pending"]
  /\ queue' = Released(r)
  /\ Settle(r, "awaiting_approval")
  /\ UNCHANGED <<public, quarantined, crashes>>

\* Any other exception of the tool body becomes a failed result.
ToolFails(r) ==
  /\ pc[r] = "tool"
  /\ queue' = Released(r)
  /\ Settle(r, "failed")
  /\ UNCHANGED <<ticket, public, quarantined, crashes>>

FinishRun(r) ==
  /\ pc[r] = "tool" /\ Len(todo[r]) = 1
  /\ queue' = Released(r)
  /\ Settle(r, "completed")
  /\ UNCHANGED <<ticket, public, quarantined, crashes>>

NextStep(r) ==
  /\ pc[r] = "tool" /\ Len(todo[r]) > 1
  /\ pc' = [pc EXCEPT ![r] = "waiting"]
  /\ todo' = [todo EXCEPT ![r] = Tail(@)]
  /\ queue' = Joined(Released(r), r, Head(Tail(todo[r])))
  /\ UNCHANGED <<task, ticket, log, public, quarantined, crashes>>

\* The next step's agent or components are gone, or no free document id is
\* found for the extracted invoice.
NextStepCannotStart(r) ==
  /\ pc[r] = "tool" /\ Len(todo[r]) > 1
  /\ queue' = Released(r)
  /\ Settle(r, "failed")
  /\ UNCHANGED <<ticket, public, quarantined, crashes>>

-----------------------------------------------------------------------------
(* The operator's own requests.                                             *)

\* api_create_task queues a record that nothing executes.
CreateTask(r) ==
  /\ pc[r] = "new"
  /\ pc' = [pc EXCEPT ![r] = "manual"]
  /\ task' = [task EXCEPT ![r] = "queued"]
  /\ UNCHANGED <<ticket, log, todo, public, queue, quarantined, crashes>>

\* Mistake: anything that has not ended yet may be cancelled.
CancelUnlessTerminal(r) ==
  /\ Lifecycle!Stored(r)
  /\ task[r] \notin Lifecycle!TerminalStates
  /\ task' = [task EXCEPT ![r] = "cancelled"]
  /\ UNCHANGED <<ticket, log, pc, todo, public, queue, quarantined, crashes>>

CancelTask(r) ==
  /\ Lifecycle!Stored(r)
  /\ "cancelled" \in Lifecycle!AllowedTransitions[task[r]]
  /\ task' = [task EXCEPT ![r] = "cancelled"]
  /\ UNCHANGED <<ticket, log, pc, todo, public, queue, quarantined, crashes>>

\* Mistake: a task that waits for its approval may be deleted.
DeleteUnlessRunning(r) ==
  /\ Lifecycle!Stored(r)
  /\ task[r] # "in_progress"
  /\ task' = [task EXCEPT ![r] = "deleted"]
  /\ UNCHANGED <<ticket, log, pc, todo, public, queue, quarantined, crashes>>

DeleteTask(r) ==
  /\ task[r] \in Lifecycle!TerminalStates
  /\ task' = [task EXCEPT ![r] = "deleted"]
  /\ UNCHANGED <<ticket, log, pc, todo, public, queue, quarantined, crashes>>

\* approve_ticket and reject_ticket touch the ticket only: the run behind a
\* template ticket is not entered again.
ResolveTicket(r, verdict) ==
  /\ ticket[r] = "pending"
  /\ ticket' = [ticket EXCEPT ![r] = verdict]
  /\ UNCHANGED <<task, log, pc, todo, public, queue, quarantined, crashes>>

ReleaseQuarantine(a) ==
  /\ a \in quarantined
  /\ quarantined' = quarantined \ {a}
  /\ UNCHANGED <<task, ticket, log, pc, todo, public, queue, crashes>>

\* The process is restarted: the stores survive, among them the logs with
\* their closed flag (run_log.py:144-146, 172-179); coroutines, locks and the
\* agents' status do not.
Crash ==
  /\ crashes < MaxCrashes
  /\ crashes' = crashes + 1
  /\ pc' = [r \in Runs |-> IF Active(r) THEN "dead" ELSE pc[r]]
  /\ todo' = [r \in Runs |-> <<>>]
  /\ queue' = [a \in Agents |-> <<>>]
  /\ quarantined' = {}
  /\ UNCHANGED <<task, ticket, log, public>>

-----------------------------------------------------------------------------
Begin(r) ==
  \/ \E plan \in TemplatePlans, demo \in BOOLEAN : StartTemplate(r, plan, demo)
  \/ \E plan \in InvoicePlans, demo \in BOOLEAN : StartInvoice(r, plan, demo)
  \/ FailToStart(r)
  \/ RequestApproval(r)
  \/ CreateTask(r)

\* What the event loop does for a run without anybody asking.
Advance(r) ==
  \/ ScreenPasses(r) \/ ScreenRefuses(r)
  \/ Admit(r) \/ RefuseQuarantined(r) \/ RefuseUnscoped(r)
  \/ RefuseArguments(r) \/ StartTool(r) \/ AskHuman(r)
  \/ ToolFails(r) \/ FinishRun(r) \/ NextStep(r) \/ NextStepCannotStart(r)

Operate(r) ==
  \/ CancelTask(r)
  \/ DeleteTask(r)
  \/ \E verdict \in {"approved", "rejected"} : ResolveTicket(r, verdict)

Next ==
  \/ \E r \in Runs : Begin(r) \/ Advance(r) \/ Operate(r)
  \/ \E a \in Agents : ReleaseQuarantine(a)
  \/ Crash

Spec == Init /\ [][Next]_vars

\* The loop is fair to every runnable coroutine; Model Armor and the model
\* backend answer or raise.  Nobody is obliged to approve, cancel or release.
FairSpec == Spec /\ \A r \in Runs : WF_vars(Advance(r))

-----------------------------------------------------------------------------
(* Safety.                                                                  *)

\* A run in flight always finds its task where it left it: no cancellation,
\* deletion or other run can move the record under it, so the transition
\* that settles the run (task_master.py:194) is never refused.
ActiveRunOwnsTask == \A r \in Runs : Active(r) => task[r] = "in_progress"

\* A run that is over is not shown as running (server.py:3529, "instead of
\* being left IN_PROGRESS forever").
NoOrphanedRun == \A r \in Runs : pc[r] = "over" => task[r] # "in_progress"

\* An open log belongs to a run in flight or to one that a restart killed:
\* every other way a run ends, each refusal and failure among them, closes
\* it, so whoever follows the run is told.
OpenLogIsLive == \A r \in Runs : log[r] = "open" => Active(r) \/ pc[r] = "dead"

\* A task waits for approval exactly as long as there is a ticket to decide
\* or one that was decided, and an undecided ticket belongs to a task that
\* waits or that the operator called off meanwhile.
TicketMatchesTask ==
  \A r \in Runs :
    /\ task[r] = "awaiting_approval" => ticket[r] # "none"
    /\ ticket[r] = "pending" =>
         task[r] \in {"awaiting_approval", "cancelled", "deleted"}

\* A scope violation quarantines an agent only while no other call is under
\* way on it: calls lined up behind are then refused, none slips through.
ScopeQuarantineIsExclusive ==
  [][\A r \in Runs :
       pc[r] = "waiting" /\ pc'[r] = "over" =>
         \A a \in quarantined' \ quarantined, q \in Runs \ {r} :
           ~(pc[q] \in {"admitted", "tool"} /\ Call(q).agent = a)]_vars

\* The task table changes only as task_master.py promises.
ImplementsLifecycle == Lifecycle!Spec

-----------------------------------------------------------------------------
(* Liveness.                                                                *)

\* A run that has started is eventually settled, unless the process dies
\* under it: a restart leaves the record IN_PROGRESS for good.
RunsSettle ==
  \A r \in Runs :
    (task[r] = "in_progress") ~> (task[r] # "in_progress" \/ pc[r] = "dead")
=============================================================================
