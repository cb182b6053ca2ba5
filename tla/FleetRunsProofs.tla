-------------------------- MODULE FleetRunsProofs --------------------------
(***************************************************************************)
(* Theorems about FleetRuns for any number of runs, agents, tools, plans   *)
(* and restarts, and about the consoles that read along (RunConsole) for   *)
(* any number of viewers and lines and any size of the ring.               *)
(***************************************************************************)
EXTENDS FleetRuns, RunConsole, SequenceTheorems, TLAPS

LEMMA HeadTail ==
  ASSUME NEW S, NEW s \in Seq(S), s # <<>>
  PROVE  /\ Head(s) \in S
         /\ Tail(s) \in Seq(S)
         /\ Len(Tail(s)) = Len(s) - 1
         /\ Len(s) \in Nat /\ Len(s) > 0
OBVIOUS

LEMMA LongTail ==
  ASSUME NEW S, NEW s \in Seq(S), Len(s) > 1
  PROVE  Tail(s) \in Seq(S) /\ Tail(s) # <<>>
<1>1. s # <<>>
  OBVIOUS
<1>2. Tail(s) \in Seq(S) /\ Len(Tail(s)) = Len(s) - 1 /\ Len(s) \in Nat
  BY <1>1, HeadTail
<1>3. Tail(s) # <<>>
  <2>1. Len(Tail(s)) # 0
    BY <1>2
  <2>2. Len(<<>>) = 0
    OBVIOUS
  <2>. QED
    BY <2>1, <2>2, Zenon
<1>. QED
  BY <1>2, <1>3

LEMMA AppendKeepsHead ==
  ASSUME NEW S, NEW s \in Seq(S), NEW e \in S
  PROVE  /\ Append(s, e) \in Seq(S)
         /\ Append(s, e) # <<>>
         /\ s # <<>> => Head(Append(s, e)) = Head(s)
<1>1. Append(s, e) \in Seq(S) /\ Append(s, e) # <<>>
  BY AppendProperties
<1>2. ASSUME s # <<>> PROVE Head(Append(s, e)) = Head(s)
  <2>1. Len(s) \in Nat /\ Len(s) > 0
    BY <1>2, HeadTail
  <2>2. Append(s, e)[1] = s[1]
    BY <2>1, AppendProperties
  <2>3. Head(Append(s, e)) = Append(s, e)[1] /\ Head(s) = s[1]
    BY <1>1, <1>2
  <2>. QED
    BY <2>2, <2>3
<1>. QED
  BY <1>1, <1>2

LEMMA CurrentCall ==
  ASSUME TypeOK, NEW r \in Runs, Active(r)
  PROVE  /\ todo[r] \in Seq(Calls) /\ todo[r] # <<>>
         /\ Call(r) \in Calls
         /\ Call(r).agent \in Agents
         /\ queue[Call(r).agent] \in Seq(Runs)
<1>1. todo[r] \in Seq(Calls) /\ todo[r] # <<>>
  BY DEF TypeOK
<1>2. Call(r) \in Calls
  BY <1>1, HeadTail DEF Call
<1>3. Call(r).agent \in Agents
  BY <1>2 DEF Calls
<1>. QED
  BY <1>1, <1>2, <1>3 DEF TypeOK

LEMMA JoinedType ==
  ASSUME NEW q \in [Agents -> Seq(Runs)], NEW r \in Runs, NEW call \in Calls
  PROVE  Joined(q, r, call) \in [Agents -> Seq(Runs)]
BY AppendKeepsHead DEF Joined, Calls

LEMMA ReleasedType ==
  ASSUME TypeOK, NEW r \in Runs, Active(r), queue[Call(r).agent] # <<>>
  PROVE  Released(r) \in [Agents -> Seq(Runs)]
<1>1. Tail(queue[Call(r).agent]) \in Seq(Runs)
  BY CurrentCall, HeadTail
<1>. QED
  BY <1>1 DEF Released, TypeOK

LEMMA SettleType ==
  ASSUME TypeOK, NEW r \in Runs,
         NEW s \in {"awaiting_approval", "completed", "failed"},
         Settle(r, s)
  PROVE  /\ Lifecycle!TypeOK'
         /\ log' \in [Runs -> {"absent", "open", "closed"}]
         /\ pc' \in [Runs -> ActivePcs \cup {"new", "manual", "over", "dead"}]
         /\ todo' \in [Runs -> Seq(Calls)]
         /\ \A q \in Runs : Active(q)' => todo'[q] # <<>>
<1> USE DEF TypeOK, Settle
<1>1. Lifecycle!TypeOK'
  BY DEF UpdateTask, Lifecycle!TypeOK, Lifecycle!TaskStates
<1>2. <<>> \in Seq(Calls)
  OBVIOUS
<1>3. log' \in [Runs -> {"absent", "open", "closed"}]
  OBVIOUS
<1>4. pc' \in [Runs -> ActivePcs \cup {"new", "manual", "over", "dead"}]
  OBVIOUS
<1>5. todo' \in [Runs -> Seq(Calls)]
  BY <1>2
<1>6. \A q \in Runs : Active(q)' => todo'[q] # <<>>
  BY DEF Active, ActivePcs
<1>. QED
  BY <1>1, <1>3, <1>4, <1>5, <1>6

-----------------------------------------------------------------------------
(* The inductive invariant.  Safety of a run rests on two facts TLC never    *)
(* needs to be told: a call between admission and return is the holder of    *)
(* its agent's lock, and a run id that was not used yet has no record.       *)

LockInv == \A r \in Runs : pc[r] \in {"admitted", "tool"} => HoldsLock(r)

FreshInv == \A r \in Runs : pc[r] = "new" => task[r] = "absent"

IInv == TypeOK /\ LockInv /\ FreshInv /\ ActiveRunOwnsTask /\ OpenLogIsLive

\* All the ways a run leaves the gateway for good: the lock is released and
\* the run is settled in one step.
Leaving(r) ==
  /\ pc[r] \in {"waiting", "admitted", "tool"} /\ HoldsLock(r)
  /\ queue' = Released(r)
  /\ \E s \in {"awaiting_approval", "completed", "failed"} : Settle(r, s)
  /\ ticket' = ticket \/ ticket' = [ticket EXCEPT ![r] = "pending"]
  /\ quarantined' = quarantined \/ quarantined' = quarantined \cup {Call(r).agent}
  /\ UNCHANGED <<public, crashes>>

LEMMA LeavingActions ==
  ASSUME LockInv, NEW r \in Runs,
         \/ RefuseQuarantined(r) \/ RefuseUnscoped(r) \/ RefuseArguments(r)
         \/ AskHuman(r) \/ ToolFails(r) \/ FinishRun(r) \/ NextStepCannotStart(r)
  PROVE  Leaving(r)
BY DEF Leaving, LockInv, RefuseQuarantined, RefuseUnscoped, RefuseArguments,
       AskHuman, ToolFails, FinishRun, NextStepCannotStart

\* The steps of the model, with the leaving ones taken together.
Steps(r) ==
  \/ \E plan \in TemplatePlans, demo \in BOOLEAN : StartTemplate(r, plan, demo)
  \/ \E plan \in InvoicePlans, demo \in BOOLEAN : StartInvoice(r, plan, demo)
  \/ FailToStart(r) \/ RequestApproval(r) \/ CreateTask(r)
  \/ ScreenPasses(r) \/ ScreenRefuses(r) \/ Admit(r) \/ StartTool(r) \/ NextStep(r)
  \/ Leaving(r)
  \/ CancelTask(r) \/ DeleteTask(r)
  \/ \E verdict \in {"approved", "rejected"} : ResolveTicket(r, verdict)

LEMMA NextCases ==
  ASSUME LockInv, Next
  PROVE  \/ \E r \in Runs : Steps(r)
         \/ \E a \in Agents : ReleaseQuarantine(a)
         \/ Crash
<1>1. ASSUME NEW r \in Runs, Begin(r) \/ Advance(r) \/ Operate(r) PROVE Steps(r)
  BY <1>1, LeavingActions DEF Begin, Advance, Operate, Steps
<1>. QED
  BY <1>1 DEF Next

-----------------------------------------------------------------------------
(* Type correctness.                                                        *)

LEMMA PlanStarts ==
  ASSUME NEW plan \in TemplatePlans \cup InvoicePlans
  PROVE  plan \in Seq(Calls) /\ plan # <<>> /\ Head(plan) \in Calls
<1>1. plan \in Seq(Calls) /\ plan # <<>>
  BY PlansAssumption
<1>. QED
  BY <1>1, HeadTail

LEMMA TypeStep ==
  ASSUME TypeOK, LockInv, [Next]_vars
  PROVE  TypeOK'
<1> USE DEF TypeOK, Lifecycle!TypeOK, Lifecycle!TaskStates
<1>1. ASSUME NEW r \in Runs, NEW plan \in TemplatePlans, NEW demo \in BOOLEAN,
             StartTemplate(r, plan, demo)
      PROVE  TypeOK'
  <2>1. queue' \in [Agents -> Seq(Runs)]
    BY <1>1, PlanStarts, JoinedType DEF StartTemplate
  <2>2. \A q \in Runs : Active(q)' => todo'[q] # <<>>
    BY <1>1, PlanStarts DEF StartTemplate, Active
  <2>. QED
    BY <1>1, <2>1, <2>2, PlanStarts DEF StartTemplate, ActivePcs
<1>2. ASSUME NEW r \in Runs, NEW plan \in InvoicePlans, NEW demo \in BOOLEAN,
             StartInvoice(r, plan, demo)
      PROVE  TypeOK'
  BY <1>2, PlanStarts DEF StartInvoice, Active, ActivePcs
<1>3. ASSUME NEW r \in Runs, FailToStart(r) \/ RequestApproval(r) \/ CreateTask(r)
      PROVE  TypeOK'
  <2>1. CASE FailToStart(r)
    BY <2>1 DEF FailToStart, Active, ActivePcs
  <2>2. CASE RequestApproval(r)
    BY <2>2 DEF RequestApproval, Active, ActivePcs
  <2>3. CASE CreateTask(r)
    BY <2>3 DEF CreateTask, Active, ActivePcs
  <2>. QED
    BY <1>3, <2>1, <2>2, <2>3
<1>4. ASSUME NEW r \in Runs, ScreenPasses(r)
      PROVE  TypeOK'
  <2>1. queue' \in [Agents -> Seq(Runs)]
    BY <1>4, CurrentCall, JoinedType DEF ScreenPasses, Active, ActivePcs
  <2>. QED
    BY <1>4, <2>1 DEF ScreenPasses, Active, ActivePcs
<1>5. ASSUME NEW r \in Runs, ScreenRefuses(r)
      PROVE  TypeOK'
  BY <1>5, SettleType, ConfigAssumption DEF ScreenRefuses
<1>6. ASSUME NEW r \in Runs, Admit(r) \/ StartTool(r)
      PROVE  TypeOK'
  BY <1>6 DEF Admit, StartTool, Active, ActivePcs
<1>7. ASSUME NEW r \in Runs, NextStep(r)
      PROVE  TypeOK'
  <2>1. Active(r) /\ HoldsLock(r)
    BY <1>7 DEF NextStep, LockInv, Active, ActivePcs
  <2>2. Released(r) \in [Agents -> Seq(Runs)]
    BY <2>1, ReleasedType DEF HoldsLock
  <2>3. todo[r] \in Seq(Calls) /\ todo[r] # <<>>
    BY <2>1, CurrentCall
  <2>4. Tail(todo[r]) \in Seq(Calls) /\ Tail(todo[r]) # <<>>
    BY <1>7, <2>3, LongTail DEF NextStep
  <2>5. Head(Tail(todo[r])) \in Calls
    BY <2>4, HeadTail
  <2>6. queue' \in [Agents -> Seq(Runs)]
    BY <1>7, <2>2, <2>5, JoinedType DEF NextStep
  <2>. QED
    BY <1>7, <2>4, <2>6 DEF NextStep, Active, ActivePcs
<1>8. ASSUME NEW r \in Runs, Leaving(r)
      PROVE  TypeOK'
  <2>1. Active(r) /\ queue[Call(r).agent] # <<>>
    BY <1>8 DEF Leaving, HoldsLock, Active, ActivePcs
  <2>2. queue' \in [Agents -> Seq(Runs)]
    BY <1>8, <2>1, ReleasedType DEF Leaving
  <2>3. quarantined' \in SUBSET Agents
    BY <1>8, <2>1, CurrentCall DEF Leaving
  <2>4. ticket' \in [Runs -> {"none", "pending", "approved", "rejected"}]
    BY <1>8 DEF Leaving
  <2>. QED
    BY <1>8, <2>2, <2>3, <2>4, SettleType DEF Leaving
<1>9. ASSUME NEW r \in Runs, CancelTask(r) \/ DeleteTask(r)
      PROVE  TypeOK'
  BY <1>9 DEF CancelTask, DeleteTask, Active
<1>10. ASSUME NEW r \in Runs, NEW verdict \in {"approved", "rejected"},
              ResolveTicket(r, verdict)
       PROVE  TypeOK'
  BY <1>10 DEF ResolveTicket, Active
<1>11. ASSUME NEW a \in Agents, ReleaseQuarantine(a)
       PROVE  TypeOK'
  BY <1>11 DEF ReleaseQuarantine, Active
<1>12. CASE Crash
  <2>1. <<>> \in Seq(Calls) /\ <<>> \in Seq(Runs)
    OBVIOUS
  <2>2. /\ queue' \in [Agents -> Seq(Runs)] /\ todo' \in [Runs -> Seq(Calls)]
        /\ pc' \in [Runs -> ActivePcs \cup {"new", "manual", "over", "dead"}]
    BY <1>12, <2>1 DEF Crash
  <2>3. \A q \in Runs : ~Active(q)'
    BY <1>12 DEF Crash, Active, ActivePcs
  <2>. QED
    BY <1>12, <2>2, <2>3 DEF Crash
<1>13. CASE UNCHANGED vars
  BY <1>13 DEF vars, Active
<1>. QED
  BY <1>1, <1>2, <1>3, <1>4, <1>5, <1>6, <1>7, <1>8, <1>9, <1>10, <1>11, <1>12, <1>13,
     NextCases DEF Steps

-----------------------------------------------------------------------------
(* A call that is past admission holds its agent's lock.                    *)

Holder(q, a, r) == q[a] # <<>> /\ Head(q[a]) = r

LEMMA JoinedKeepsHolder ==
  ASSUME NEW q \in [Agents -> Seq(Runs)], NEW r \in Runs, NEW call \in Calls,
         NEW a \in Agents, NEW p \in Runs, Holder(q, a, p)
  PROVE  Holder(Joined(q, r, call), a, p)
<1>1. /\ q[a] \in Seq(Runs) /\ q[a] # <<>> /\ call.agent \in Agents
  BY DEF Holder, Calls
<1>2. CASE call.agent = a
  <2>1. Joined(q, r, call)[a] = Append(q[a], r)
    BY <1>1, <1>2 DEF Joined
  <2>2. Append(q[a], r) # <<>> /\ Head(Append(q[a], r)) = Head(q[a])
    BY <1>1, AppendKeepsHead
  <2>. QED
    BY <2>1, <2>2 DEF Holder
<1>3. CASE call.agent # a
  BY <1>3 DEF Joined, Holder
<1>. QED
  BY <1>2, <1>3

LEMMA ReleasedKeepsOthers ==
  ASSUME TypeOK, NEW r \in Runs, Active(r), HoldsLock(r),
         NEW p \in Runs, p # r, NEW a \in Agents, Holder(queue, a, p)
  PROVE  Holder(Released(r), a, p)
<1>1. Call(r).agent # a
  BY DEF HoldsLock, Holder
<1>2. queue \in [Agents -> Seq(Runs)]
  BY DEF TypeOK
<1>. QED
  BY <1>1, <1>2 DEF Released, Holder

LEMMA LockStep ==
  ASSUME TypeOK, LockInv, [Next]_vars
  PROVE  LockInv'
<1>1. SUFFICES ASSUME NEW p \in Runs, pc'[p] \in {"admitted", "tool"}
               PROVE  HoldsLock(p)'
  BY DEF LockInv
<1> DEFINE a == Call(p).agent
<1>2. ASSUME pc[p] \in {"admitted", "tool"}
      PROVE  Active(p) /\ a \in Agents /\ Holder(queue, a, p)
  BY <1>2, CurrentCall DEF LockInv, HoldsLock, Holder, Active, ActivePcs
<1>3. ASSUME pc[p] \in {"admitted", "tool"}, todo'[p] = todo[p], Holder(queue', a, p)
      PROVE  HoldsLock(p)'
  BY <1>3 DEF HoldsLock, Holder, Call
<1>4. ASSUME NEW r \in Runs, NEW plan \in TemplatePlans, NEW demo \in BOOLEAN,
             StartTemplate(r, plan, demo)
      PROVE  HoldsLock(p)'
  <2>1. p # r /\ pc[p] \in {"admitted", "tool"} /\ todo'[p] = todo[p]
    BY <1>1, <1>4 DEF StartTemplate, TypeOK
  <2>2. queue \in [Agents -> Seq(Runs)] /\ Head(plan) \in Calls
    BY PlanStarts DEF TypeOK
  <2>3. Holder(queue', a, p)
    BY <1>2, <1>4, <2>1, <2>2, JoinedKeepsHolder DEF StartTemplate
  <2>. QED
    BY <1>3, <2>1, <2>3
<1>5. ASSUME NEW r \in Runs, ScreenPasses(r)
      PROVE  HoldsLock(p)'
  <2>1. p # r /\ pc[p] \in {"admitted", "tool"} /\ todo'[p] = todo[p]
    BY <1>1, <1>5 DEF ScreenPasses, TypeOK
  <2>2. queue \in [Agents -> Seq(Runs)] /\ Call(r) \in Calls
    BY <1>5, CurrentCall DEF TypeOK, ScreenPasses, Active, ActivePcs
  <2>3. Holder(queue', a, p)
    BY <1>2, <1>5, <2>1, <2>2, JoinedKeepsHolder DEF ScreenPasses
  <2>. QED
    BY <1>3, <2>1, <2>3
<1>6. ASSUME NEW r \in Runs, Admit(r) \/ StartTool(r)
      PROVE  HoldsLock(p)'
  <2>1. HoldsLock(p)
    BY <1>1, <1>6 DEF Admit, StartTool, LockInv, TypeOK
  <2>. QED
    BY <1>6, <2>1 DEF Admit, StartTool, HoldsLock, Call
<1>7. ASSUME NEW r \in Runs, NextStep(r)
      PROVE  HoldsLock(p)'
  <2>1. p # r /\ pc[p] \in {"admitted", "tool"} /\ todo'[p] = todo[p]
    BY <1>1, <1>7 DEF NextStep, TypeOK
  <2>2. Active(r) /\ HoldsLock(r)
    BY <1>7 DEF NextStep, LockInv, Active, ActivePcs
  <2>3. Holder(Released(r), a, p)
    BY <1>2, <2>1, <2>2, ReleasedKeepsOthers
  <2>4. Released(r) \in [Agents -> Seq(Runs)]
    BY <2>2, ReleasedType DEF HoldsLock
  <2>5. Head(Tail(todo[r])) \in Calls
    BY <1>7, <2>2, CurrentCall, LongTail, HeadTail DEF NextStep
  <2>6. Holder(queue', a, p)
    BY <1>2, <1>7, <2>1, <2>3, <2>4, <2>5, JoinedKeepsHolder DEF NextStep
  <2>. QED
    BY <1>3, <2>1, <2>6
<1>8. ASSUME NEW r \in Runs, Leaving(r)
      PROVE  HoldsLock(p)'
  <2>1. p # r /\ pc[p] \in {"admitted", "tool"} /\ todo'[p] = todo[p]
    BY <1>1, <1>8 DEF Leaving, Settle, TypeOK
  <2>2. Active(r) /\ HoldsLock(r)
    BY <1>8 DEF Leaving, Active, ActivePcs
  <2>3. Holder(queue', a, p)
    BY <1>2, <1>8, <2>1, <2>2, ReleasedKeepsOthers DEF Leaving
  <2>. QED
    BY <1>3, <2>1, <2>3
<1>9. ASSUME queue' = queue, todo'[p] = todo[p], pc'[p] = pc[p]
      PROVE  HoldsLock(p)'
  BY <1>1, <1>2, <1>3, <1>9
<1>10. ASSUME NEW r \in Runs,
              \/ \E plan \in InvoicePlans, demo \in BOOLEAN : StartInvoice(r, plan, demo)
              \/ FailToStart(r) \/ RequestApproval(r) \/ CreateTask(r) \/ ScreenRefuses(r)
       PROVE  HoldsLock(p)'
  <2>1. queue' = queue /\ p # r /\ todo'[p] = todo[p] /\ pc'[p] = pc[p]
    BY <1>1, <1>10 DEF StartInvoice, FailToStart, RequestApproval, CreateTask,
                       ScreenRefuses, Settle, TypeOK
  <2>. QED
    BY <1>9, <2>1
<1>11. ASSUME NEW r \in Runs,
              \/ CancelTask(r) \/ DeleteTask(r)
              \/ \E verdict \in {"approved", "rejected"} : ResolveTicket(r, verdict)
       PROVE  HoldsLock(p)'
  BY <1>9, <1>11 DEF CancelTask, DeleteTask, ResolveTicket
<1>12. ASSUME NEW b \in Agents, ReleaseQuarantine(b)
       PROVE  HoldsLock(p)'
  BY <1>9, <1>12 DEF ReleaseQuarantine
<1>13. CASE Crash
  BY <1>1, <1>13 DEF Crash, Active, ActivePcs, TypeOK
<1>14. CASE UNCHANGED vars
  BY <1>9, <1>14 DEF vars
<1>. QED
  BY <1>4, <1>5, <1>6, <1>7, <1>8, <1>10, <1>11, <1>12, <1>13, <1>14,
     NextCases DEF Steps

-----------------------------------------------------------------------------
(* The task and log of a run in flight.  Settle is the only way out.        *)

LEMMA Settled ==
  ASSUME TypeOK, NEW r \in Runs,
         NEW s \in {"awaiting_approval", "completed", "failed"}, Settle(r, s)
  PROVE  /\ pc'[r] = "over"
         /\ log'[r] # "open"
         /\ task[r] = "in_progress" /\ ~StoreMayFail => task'[r] = s
         /\ task'[r] # task[r] => task'[r] = s /\ s \in Lifecycle!AllowedTransitions[task[r]]
         /\ \A p \in Runs \ {r} : pc'[p] = pc[p] /\ task'[p] = task[p] /\ log'[p] = log[p]
BY DEF Settle, UpdateTask, TypeOK, Lifecycle!TypeOK, Lifecycle!Stored,
       Lifecycle!AllowedTransitions, Lifecycle!TaskStates

\* What a step other than a restart may do to a run it does not settle.
RunsIntact ==
  \A p \in Runs :
    \/ /\ pc'[p] = pc[p] /\ log'[p] = log[p]
       /\ \/ task'[p] = task[p]
          \/ task[p] \notin {"in_progress", "absent"} /\ task'[p] \in {"cancelled", "deleted"}
    \/ Active(p) /\ Active(p)' /\ task'[p] = task[p] /\ log'[p] = log[p]
    \/ pc[p] = "new" /\ pc'[p] \in {"waiting", "screening"}
         /\ task'[p] = "in_progress"
    \/ /\ pc'[p] = "over" /\ log'[p] # "open"
       /\ Active(p) /\ ActiveRunOwnsTask /\ ~StoreMayFail => task'[p] # "in_progress"
       /\ ~Active(p) => task'[p] # "in_progress"
    \/ pc[p] = "new" /\ pc'[p] = "manual" /\ log'[p] = log[p]

LEMMA StepKeepsRuns ==
  ASSUME TypeOK, LockInv, \E r \in Runs : Steps(r)
  PROVE  RunsIntact
<1> USE DEF TypeOK, Lifecycle!TypeOK, Lifecycle!TaskStates
<1>1. ASSUME NEW r \in Runs,
             \/ \E plan \in TemplatePlans, demo \in BOOLEAN : StartTemplate(r, plan, demo)
             \/ \E plan \in InvoicePlans, demo \in BOOLEAN : StartInvoice(r, plan, demo)
             \/ FailToStart(r) \/ RequestApproval(r) \/ CreateTask(r)
      PROVE  RunsIntact
  <2>1. \A p \in Runs \ {r} : pc'[p] = pc[p] /\ log'[p] = log[p] /\ task'[p] = task[p]
    BY <1>1 DEF StartTemplate, StartInvoice, FailToStart, RequestApproval, CreateTask
  <2>2. \/ pc[r] = "new" /\ pc'[r] \in {"waiting", "screening"} /\ task'[r] = "in_progress"
        \/ /\ pc'[r] = "over" /\ log'[r] # "open" /\ task'[r] # "in_progress"
        \/ pc[r] = "new" /\ pc'[r] = "manual" /\ log'[r] = log[r]
    BY <1>1 DEF StartTemplate, StartInvoice, FailToStart, RequestApproval, CreateTask
  <2>. QED
    BY <2>1, <2>2 DEF RunsIntact
<1>2. ASSUME NEW r \in Runs, ScreenPasses(r) \/ Admit(r) \/ StartTool(r) \/ NextStep(r)
      PROVE  RunsIntact
  BY <1>2 DEF ScreenPasses, Admit, StartTool, NextStep, RunsIntact, Active, ActivePcs
<1>3. ASSUME NEW r \in Runs, ScreenRefuses(r) \/ Leaving(r)
      PROVE  RunsIntact
  <2>1. PICK s \in {"awaiting_approval", "completed", "failed"} : Settle(r, s)
    BY <1>3 DEF ScreenRefuses, Leaving
  <2>2. Active(r)
    BY <1>3 DEF ScreenRefuses, Leaving, Active, ActivePcs
  <2>. QED
    BY <2>1, <2>2, Settled DEF RunsIntact, ActiveRunOwnsTask
<1>4. ASSUME NEW r \in Runs, CancelTask(r) \/ DeleteTask(r)
      PROVE  RunsIntact
  <2>1. task[r] \notin {"in_progress", "absent"}
    BY <1>4 DEF CancelTask, DeleteTask, Lifecycle!AllowedTransitions,
                Lifecycle!Stored, Lifecycle!TerminalStates
  <2>. QED
    BY <1>4, <2>1 DEF CancelTask, DeleteTask, RunsIntact
<1>5. ASSUME NEW r \in Runs, \E verdict \in {"approved", "rejected"} : ResolveTicket(r, verdict)
      PROVE  RunsIntact
  BY <1>5 DEF ResolveTicket, RunsIntact
<1>. QED
  BY <1>1, <1>2, <1>3, <1>4, <1>5 DEF Steps

LEMMA OwnStep ==
  ASSUME TypeOK, LockInv, ActiveRunOwnsTask, [Next]_vars
  PROVE  ActiveRunOwnsTask'
<1>1. CASE \E r \in Runs : Steps(r)
  BY <1>1, StepKeepsRuns DEF RunsIntact, ActiveRunOwnsTask, Active, ActivePcs
<1>2. ASSUME NEW a \in Agents, ReleaseQuarantine(a) PROVE ActiveRunOwnsTask'
  BY <1>2 DEF ReleaseQuarantine, ActiveRunOwnsTask, Active
<1>3. CASE Crash
  BY <1>3 DEF Crash, ActiveRunOwnsTask, Active, ActivePcs, TypeOK
<1>4. CASE UNCHANGED vars
  BY <1>4 DEF vars, ActiveRunOwnsTask, Active
<1>. QED
  BY <1>1, <1>2, <1>3, <1>4, NextCases

LEMMA LogStep ==
  ASSUME TypeOK, LockInv, OpenLogIsLive, [Next]_vars
  PROVE  OpenLogIsLive'
<1>1. CASE \E r \in Runs : Steps(r)
  BY <1>1, StepKeepsRuns DEF RunsIntact, OpenLogIsLive, Active, ActivePcs
<1>2. ASSUME NEW a \in Agents, ReleaseQuarantine(a) PROVE OpenLogIsLive'
  BY <1>2 DEF ReleaseQuarantine, OpenLogIsLive, Active
<1>3. CASE Crash
  BY <1>3 DEF Crash, OpenLogIsLive, Active, ActivePcs, TypeOK
<1>4. CASE UNCHANGED vars
  BY <1>4 DEF vars, OpenLogIsLive, Active
<1>. QED
  BY <1>1, <1>2, <1>3, <1>4, NextCases

LEMMA FreshStep ==
  ASSUME TypeOK, LockInv, FreshInv, [Next]_vars
  PROVE  FreshInv'
<1>1. CASE \E r \in Runs : Steps(r)
  BY <1>1, StepKeepsRuns DEF RunsIntact, FreshInv, Active, ActivePcs
<1>2. ASSUME NEW a \in Agents, ReleaseQuarantine(a) PROVE FreshInv'
  BY <1>2 DEF ReleaseQuarantine, FreshInv
<1>3. CASE Crash
  BY <1>3 DEF Crash, FreshInv, Active, ActivePcs, TypeOK
<1>4. CASE UNCHANGED vars
  BY <1>4 DEF vars, FreshInv
<1>. QED
  BY <1>1, <1>2, <1>3, <1>4, NextCases

-----------------------------------------------------------------------------
LEMMA IInvInit == Init => IInv
<1> SUFFICES ASSUME Init PROVE IInv
  OBVIOUS
<1>1. <<>> \in Seq(Calls) /\ <<>> \in Seq(Runs)
  OBVIOUS
<1>2. TypeOK
  BY <1>1 DEF Init, TypeOK, Lifecycle!TypeOK, Active, ActivePcs
<1>3. LockInv /\ FreshInv /\ ActiveRunOwnsTask /\ OpenLogIsLive
  BY DEF Init, LockInv, FreshInv, ActiveRunOwnsTask, OpenLogIsLive, Active, ActivePcs
<1>. QED
  BY <1>2, <1>3 DEF IInv

LEMMA IInvStep == IInv /\ [Next]_vars => IInv'
BY TypeStep, LockStep, FreshStep, OwnStep, LogStep DEF IInv

LEMMA Inductive == Spec => []IInv
<1>. QED
  BY IInvInit, IInvStep, PTL DEF Spec

\* Every reachable state is well typed: in particular a suspended run always
\* has a gateway call to go on with.
THEOREM TypeCorrect == Spec => []TypeOK
<1>1. IInv => TypeOK
  BY DEF IInv
<1>. QED
  BY <1>1, Inductive, PTL

\* However runs, operators and restarts interleave, no request moves or
\* deletes the record of a run in flight (task_master.py:183-303).
THEOREM ActiveRunsOwnTheirTasks == Spec => []ActiveRunOwnsTask
<1>1. IInv => ActiveRunOwnsTask
  BY DEF IInv
<1>. QED
  BY <1>1, Inductive, PTL

\* No refusal, failure or completion path leaves a run's log open behind it,
\* only a restart under the run does.
THEOREM OpenLogsAreLive == Spec => []OpenLogIsLive
<1>1. IInv => OpenLogIsLive
  BY DEF IInv
<1>. QED
  BY <1>1, Inductive, PTL

\* Where the stores do not fail, no run that is over is left IN_PROGRESS
\* (server.py:3529): the record is always in a state its outcome may move.
LEMMA OrphanStep ==
  ASSUME TypeOK, LockInv, ActiveRunOwnsTask, ~StoreMayFail, NoOrphanedRun, [Next]_vars
  PROVE  NoOrphanedRun'
<1>1. CASE \E r \in Runs : Steps(r)
  BY <1>1, StepKeepsRuns DEF RunsIntact, NoOrphanedRun, Active, ActivePcs
<1>2. ASSUME NEW a \in Agents, ReleaseQuarantine(a) PROVE NoOrphanedRun'
  BY <1>2 DEF ReleaseQuarantine, NoOrphanedRun
<1>3. CASE Crash
  BY <1>3 DEF Crash, NoOrphanedRun, TypeOK
<1>4. CASE UNCHANGED vars
  BY <1>4 DEF vars, NoOrphanedRun
<1>. QED
  BY <1>1, <1>2, <1>3, <1>4, NextCases

\* With stores that do not raise, a record that is IN_PROGRESS has its run:
\* every ending of a run settles its task (routines.py:311-325, 513-527).
THEOREM NoRunIsOrphaned == ASSUME ~StoreMayFail PROVE Spec => []NoOrphanedRun
<1>1. Init => NoOrphanedRun
  BY DEF Init, NoOrphanedRun
<1>2. IInv /\ NoOrphanedRun /\ [Next]_vars => NoOrphanedRun'
  BY OrphanStep DEF IInv
<1>. QED
  BY <1>1, <1>2, Inductive, PTL DEF Spec

-----------------------------------------------------------------------------
(* Tickets.                                                                 *)

\* A ticket opens with the move of its task to AWAITING_APPROVAL; every other
\* end of a run finds its task IN_PROGRESS, where no ticket is pending.
LEMMA TicketStep ==
  ASSUME TypeOK, LockInv, FreshInv, ActiveRunOwnsTask, ~StoreMayFail,
         TicketMatchesTask, [Next]_vars
  PROVE  TicketMatchesTask'
<1> DEFINE Matches(r) ==
      /\ task[r] = "awaiting_approval" => ticket[r] # "none"
      /\ ticket[r] = "pending" => task[r] \in {"awaiting_approval", "cancelled", "deleted"}
<1> USE DEF TypeOK, Lifecycle!TypeOK, Lifecycle!TaskStates
<1>1. ASSUME NEW r \in Runs, Matches(r)',
             \A p \in Runs \ {r} : task'[p] = task[p] /\ ticket'[p] = ticket[p]
      PROVE  TicketMatchesTask'
  BY <1>1 DEF TicketMatchesTask
<1>2. ASSUME NEW r \in Runs, Begin(r) PROVE TicketMatchesTask'
  <2>1. \A p \in Runs \ {r} : task'[p] = task[p] /\ ticket'[p] = ticket[p]
    BY <1>2 DEF Begin, StartTemplate, StartInvoice, FailToStart, RequestApproval, CreateTask
  <2>2. task[r] = "absent" /\ ticket[r] # "pending"
    BY <1>2 DEF Begin, StartTemplate, StartInvoice, FailToStart, RequestApproval, CreateTask,
                FreshInv, TicketMatchesTask
  <2>3. CASE RequestApproval(r)
    BY <1>1, <2>1, <2>3 DEF RequestApproval
  <2>4. CASE ~RequestApproval(r)
    <3>1. task'[r] \in {"in_progress", "failed", "queued"} /\ ticket'[r] = ticket[r]
      BY <1>2, <2>4 DEF Begin, StartTemplate, StartInvoice, FailToStart, CreateTask
    <3>. QED
      BY <1>1, <2>1, <2>2, <3>1
  <2>. QED
    BY <2>3, <2>4
<1>3. ASSUME NEW r \in Runs, Advance(r) PROVE TicketMatchesTask'
  <2>1. Active(r) /\ task[r] = "in_progress" /\ ticket[r] # "pending"
    BY <1>3 DEF Advance, ScreenPasses, ScreenRefuses, Admit, RefuseQuarantined, RefuseUnscoped,
                RefuseArguments, StartTool, AskHuman, ToolFails, FinishRun, NextStep,
                NextStepCannotStart, Active, ActivePcs, ActiveRunOwnsTask, TicketMatchesTask
  <2>2. CASE ScreenPasses(r) \/ Admit(r) \/ StartTool(r) \/ NextStep(r)
    BY <2>2 DEF ScreenPasses, Admit, StartTool, NextStep, TicketMatchesTask
  <2>3. CASE AskHuman(r)
    <3>1. Settle(r, "awaiting_approval") /\ ticket' = [ticket EXCEPT ![r] = "pending"]
      BY <2>3 DEF AskHuman
    <3>2. /\ task'[r] = "awaiting_approval" /\ ticket'[r] = "pending"
          /\ \A p \in Runs \ {r} : task'[p] = task[p] /\ ticket'[p] = ticket[p]
      BY <2>1, <3>1, Settled
    <3>. QED
      BY <1>1, <3>2
  <2>4. CASE \/ ScreenRefuses(r) \/ RefuseQuarantined(r) \/ RefuseUnscoped(r)
             \/ RefuseArguments(r) \/ ToolFails(r) \/ FinishRun(r) \/ NextStepCannotStart(r)
    <3>1. PICK s \in {"failed", "completed"} : Settle(r, s) /\ ticket' = ticket
      BY <2>4 DEF ScreenRefuses, RefuseQuarantined, RefuseUnscoped, RefuseArguments,
                  ToolFails, FinishRun, NextStepCannotStart
    <3>2. task'[r] = s /\ \A p \in Runs \ {r} : task'[p] = task[p]
      BY <2>1, <3>1, Settled
    <3>. QED
      BY <1>1, <2>1, <3>1, <3>2
  <2>. QED
    BY <1>3, <2>2, <2>3, <2>4 DEF Advance
<1>4. ASSUME NEW r \in Runs, Operate(r) PROVE TicketMatchesTask'
  <2>1. CASE CancelTask(r)
    BY <2>1 DEF CancelTask, TicketMatchesTask
  <2>2. CASE DeleteTask(r)
    BY <2>2 DEF DeleteTask, TicketMatchesTask
  <2>3. CASE \E verdict \in {"approved", "rejected"} : ResolveTicket(r, verdict)
    BY <2>3 DEF ResolveTicket, TicketMatchesTask
  <2>. QED
    BY <1>4, <2>1, <2>2, <2>3 DEF Operate
<1>5. ASSUME NEW a \in Agents, ReleaseQuarantine(a) PROVE TicketMatchesTask'
  BY <1>5 DEF ReleaseQuarantine, TicketMatchesTask
<1>6. CASE Crash
  BY <1>6 DEF Crash, TicketMatchesTask
<1>7. CASE UNCHANGED vars
  BY <1>7 DEF vars, TicketMatchesTask
<1>. QED
  BY <1>2, <1>3, <1>4, <1>5, <1>6, <1>7 DEF Next

\* With stores that do not raise, no task waits for a ticket that was never
\* opened, and no ticket is left to decide about a task that went on
\* (routines.py:392-419, 489-511; ticket_master.py:171-221).
THEOREM TicketsMatchTasks == ASSUME ~StoreMayFail PROVE Spec => []TicketMatchesTask
<1>1. Init => TicketMatchesTask
  BY DEF Init, TicketMatchesTask
<1>2. IInv /\ TicketMatchesTask /\ [Next]_vars => TicketMatchesTask'
  BY TicketStep DEF IInv
<1>. QED
  BY <1>1, <1>2, Inductive, PTL DEF Spec

-----------------------------------------------------------------------------
(* Quarantine.                                                              *)

\* The agent's lock makes a scope violation quarantine an idle agent: no
\* other call is past admission on it (gateway.py:73-94).
THEOREM ScopeQuarantineExclusive == Spec => ScopeQuarantineIsExclusive
<1> DEFINE Exclusive ==
      \A r \in Runs :
        pc[r] = "waiting" /\ pc'[r] = "over" =>
          \A a \in quarantined' \ quarantined, q \in Runs \ {r} :
            ~(pc[q] \in {"admitted", "tool"} /\ Call(q).agent = a)
<1>1. ASSUME IInv, Next PROVE Exclusive
  <2>1. TypeOK /\ LockInv
    BY <1>1 DEF IInv
  <2>2. SUFFICES ASSUME NEW r \in Runs, pc[r] = "waiting", pc'[r] = "over",
                        NEW a \in quarantined' \ quarantined, NEW q \in Runs \ {r},
                        pc[q] \in {"admitted", "tool"}, Call(q).agent = a
                 PROVE  FALSE
    OBVIOUS
  <2>3. Leaving(r)
    <3>1. ASSUME NEW b \in Agents, ReleaseQuarantine(b) PROVE FALSE
      BY <2>2, <3>1 DEF ReleaseQuarantine
    <3>2. ~Crash
      BY <2>1, <2>2 DEF Crash, Active, ActivePcs, TypeOK
    <3>3. PICK p \in Runs : Steps(p)
      BY <1>1, <2>1, <3>1, <3>2, NextCases
    <3>4. CASE ScreenRefuses(p) \/ Leaving(p)
      <4>1. p = r
        BY <2>1, <2>2, <3>4 DEF ScreenRefuses, Leaving, Settle, TypeOK
      <4>. QED
        BY <2>2, <3>4, <4>1 DEF ScreenRefuses
    <3>5. CASE \/ \E plan \in TemplatePlans, demo \in BOOLEAN : StartTemplate(p, plan, demo)
               \/ \E plan \in InvoicePlans, demo \in BOOLEAN : StartInvoice(p, plan, demo)
               \/ FailToStart(p) \/ RequestApproval(p) \/ CreateTask(p)
      BY <2>1, <2>2, <3>5 DEF StartTemplate, StartInvoice, FailToStart, RequestApproval,
                              CreateTask, TypeOK
    <3>6. CASE ScreenPasses(p) \/ Admit(p) \/ StartTool(p) \/ NextStep(p)
      BY <2>1, <2>2, <3>6 DEF ScreenPasses, Admit, StartTool, NextStep, TypeOK
    <3>7. CASE \/ CancelTask(p) \/ DeleteTask(p)
               \/ \E verdict \in {"approved", "rejected"} : ResolveTicket(p, verdict)
      BY <2>2, <3>7 DEF CancelTask, DeleteTask, ResolveTicket
    <3>. QED
      BY <3>3, <3>4, <3>5, <3>6, <3>7 DEF Steps
  <2>4. a = Call(r).agent
    BY <2>2, <2>3 DEF Leaving
  <2>5. HoldsLock(r) /\ HoldsLock(q)
    BY <2>1, <2>2, <2>3 DEF Leaving, LockInv
  <2>. QED
    BY <2>2, <2>4, <2>5 DEF HoldsLock
<1>2. IInv /\ [Next]_vars => [Exclusive]_vars
  BY <1>1
<1>. QED
  BY <1>2, Inductive, PTL DEF Spec, ScopeQuarantineIsExclusive

-----------------------------------------------------------------------------
(* The runs implement the task table.                                       *)

LEMMA OneTaskMoves ==
  ASSUME TypeOK, NEW r \in Runs, NEW s,
         s \in Lifecycle!TaskStates, Lifecycle!Stored(r),
         s \in Lifecycle!AllowedTransitions[task[r]],
         task' = [task EXCEPT ![r] = s]
  PROVE  Lifecycle!Next
<1>1. Lifecycle!Move(r, s)
  BY DEF Lifecycle!Move
<1>. QED
  BY <1>1 DEF Lifecycle!Next

LEMMA OneTaskAppears ==
  ASSUME FreshInv, NEW r \in Runs, pc[r] = "new",
         NEW s \in {"queued", "in_progress", "awaiting_approval", "failed"},
         task' = [task EXCEPT ![r] = s]
  PROVE  Lifecycle!Next
<1>1. Lifecycle!Create(r, s)
  BY DEF Lifecycle!Create, FreshInv
<1>2. s \in Lifecycle!TaskStates
  BY DEF Lifecycle!TaskStates
<1>. QED
  BY <1>1, <1>2 DEF Lifecycle!Next

LEMMA SettlingMoves ==
  ASSUME TypeOK, NEW r \in Runs,
         NEW s \in {"awaiting_approval", "completed", "failed"}, Settle(r, s)
  PROVE  Lifecycle!Next \/ task' = task
<1>1. CASE UpdateTask(r, s) /\ Lifecycle!Stored(r) /\ s \in Lifecycle!AllowedTransitions[task[r]]
  <2>1. s \in Lifecycle!TaskStates
    BY DEF Lifecycle!TaskStates
  <2>. QED
    BY <1>1, <2>1, OneTaskMoves DEF UpdateTask
<1>2. CASE UpdateTask(r, s) /\ ~(Lifecycle!Stored(r) /\ s \in Lifecycle!AllowedTransitions[task[r]])
  BY <1>2 DEF UpdateTask, TypeOK, Lifecycle!TypeOK
<1>. QED
  BY <1>1, <1>2 DEF Settle

LEMMA StepImplements ==
  ASSUME TypeOK, LockInv, FreshInv, NEW r \in Runs, Steps(r)
  PROVE  Lifecycle!Next \/ task' = task
<1>1. CASE \/ \E plan \in TemplatePlans, demo \in BOOLEAN : StartTemplate(r, plan, demo)
           \/ \E plan \in InvoicePlans, demo \in BOOLEAN : StartInvoice(r, plan, demo)
  BY <1>1, OneTaskAppears DEF StartTemplate, StartInvoice
<1>2. CASE FailToStart(r) \/ RequestApproval(r) \/ CreateTask(r)
  <2>1. pc[r] = "new" /\ \E s \in {"queued", "awaiting_approval", "failed"} :
                             task' = [task EXCEPT ![r] = s]
    BY <1>2 DEF FailToStart, RequestApproval, CreateTask
  <2>. QED
    BY <2>1, OneTaskAppears
<1>3. CASE ScreenRefuses(r) \/ Leaving(r)
  BY <1>3, SettlingMoves DEF ScreenRefuses, Leaving
<1>4. CASE CancelTask(r)
  <2>1. "cancelled" \in Lifecycle!TaskStates
    BY DEF Lifecycle!TaskStates
  <2>. QED
    BY <1>4, <2>1, OneTaskMoves DEF CancelTask
<1>5. CASE DeleteTask(r)
  BY <1>5 DEF DeleteTask, Lifecycle!Next, Lifecycle!Delete
<1>6. CASE \/ ScreenPasses(r) \/ Admit(r) \/ StartTool(r) \/ NextStep(r)
           \/ \E verdict \in {"approved", "rejected"} : ResolveTicket(r, verdict)
  BY <1>6 DEF ScreenPasses, Admit, StartTool, NextStep, ResolveTicket
<1>. QED
  BY <1>1, <1>2, <1>3, <1>4, <1>5, <1>6 DEF Steps

\* Whatever the coroutines, operators and restarts do, the task table changes
\* as ALLOWED_TASK_TRANSITIONS promises (task_master.py:13-42): the runs are
\* an implementation of TaskLifecycle.
THEOREM RunsImplementLifecycle == Spec => ImplementsLifecycle
<1>1. Init => Lifecycle!Init
  BY DEF Init, Lifecycle!Init
<1>2. IInv /\ [Next]_vars => [Lifecycle!Next]_task
  <2> SUFFICES ASSUME IInv, [Next]_vars PROVE Lifecycle!Next \/ task' = task
    OBVIOUS
  <2>1. CASE UNCHANGED vars
    BY <2>1 DEF vars
  <2>2. CASE Next
    <3>1. TypeOK /\ LockInv /\ FreshInv
      BY DEF IInv
    <3>2. ASSUME NEW a \in Agents, ReleaseQuarantine(a) PROVE task' = task
      BY <3>2 DEF ReleaseQuarantine
    <3>3. CASE Crash
      BY <3>3 DEF Crash
    <3>. QED
      BY <2>2, <3>1, <3>2, <3>3, NextCases, StepImplements
  <2>. QED
    BY <2>1, <2>2
<1>. QED
  BY <1>1, <1>2, Inductive, PTL DEF Spec, ImplementsLifecycle, Lifecycle!Spec

-----------------------------------------------------------------------------
(* The consoles: sequences.                                                 *)

\* What is to be compared with a concatenation.
LEMMA Joining ==
  ASSUME NEW S, NEW s \in Seq(S), NEW t \in Seq(S), NEW u \in Seq(S),
         Len(u) = Len(s) + Len(t),
         \A i \in 1..Len(s) : u[i] = s[i],
         \A i \in 1..Len(t) : u[Len(s) + i] = t[i]
  PROVE  s \o t = u
<1>1. Len(s) \in Nat /\ Len(t) \in Nat
  BY LenProperties
<1>2. s \o t \in Seq(S) /\ Len(s \o t) = Len(s) + Len(t)
  BY ConcatProperties
<1>3. ASSUME NEW i \in 1..Len(s \o t) PROVE (s \o t)[i] = u[i]
  <2>1. CASE i <= Len(s)
    <3>1. (s \o t)[i] = s[i] /\ i \in 1..Len(s)
      BY <1>1, <1>2, <2>1, ConcatProperties
    <3>. QED
      BY <3>1
  <2>2. CASE ~(i <= Len(s))
    <3>1. PICK j \in 1..Len(t) : i = Len(s) + j /\ i - Len(s) = j
      <4>1. i - Len(s) \in 1..Len(t) /\ i = Len(s) + (i - Len(s))
        BY <1>1, <1>2, <2>2
      <4>. QED
        BY <4>1, Zenon
    <3>2. (s \o t)[i] = t[i - Len(s)]
      BY <1>1, <1>2, <2>2, ConcatProperties
    <3>. QED
      BY <3>1, <3>2
  <2>. QED
    BY <2>1, <2>2
<1>. QED
  BY <1>2, <1>3, SeqEqual

\* Concatenation under a name: the provers then use what is cited of it only.
Cat(s, t) == s \o t

LEMMA CatAssociates ==
  ASSUME NEW S, NEW s \in Seq(S), NEW t \in Seq(S), NEW u \in Seq(S)
  PROVE  Cat(Cat(s, t), u) = Cat(s, Cat(t, u))
BY ConcatAssociative DEF Cat

LEMMA CatIsSeq ==
  ASSUME NEW S, NEW s \in Seq(S), NEW t \in Seq(S)
  PROVE  Cat(s, t) \in Seq(S)
BY ConcatProperties DEF Cat

LEMMA CatNothing ==
  ASSUME NEW S, NEW s \in Seq(S)
  PROVE  Cat(s, <<>>) = s /\ Cat(<<>>, s) = s
BY ConcatEmptySeq DEF Cat

\* What is added to the last of three sequences is added to the whole.
LEMMA EndGrows ==
  ASSUME NEW S, NEW s \in Seq(S), NEW t \in Seq(S), NEW u \in Seq(S), NEW w \in Seq(S)
  PROVE  Cat(s, Cat(t, Cat(u, w))) = Cat(Cat(s, Cat(t, u)), w)
<1>1. Cat(t, Cat(u, w)) = Cat(Cat(t, u), w) /\ Cat(t, u) \in Seq(S)
  BY CatAssociates, CatIsSeq
<1>2. Cat(s, Cat(Cat(t, u), w)) = Cat(Cat(s, Cat(t, u)), w)
  BY <1>1, CatAssociates
<1>. QED
  BY <1>1, <1>2

\* Moving the head of the second sequence to the end of the first.
LEMMA HeadMoves ==
  ASSUME NEW S, NEW s \in Seq(S), NEW t \in Seq(S), t # <<>>
  PROVE  Cat(Append(s, Head(t)), Tail(t)) = Cat(s, t)
<1>1. /\ Head(t) \in S /\ Tail(t) \in Seq(S) /\ Len(Tail(t)) = Len(t) - 1
      /\ \A i \in 1..Len(Tail(t)) : Tail(t)[i] = t[i + 1]
  BY HeadTailProperties
<1>2. Head(t) = t[1] /\ Len(t) \in Nat \ {0} /\ Len(s) \in Nat
  BY EmptySeq, LenProperties
<1>3. PICK a : a = Append(s, Head(t))
  OBVIOUS
<1>4. PICK r : r = Tail(t)
  OBVIOUS
<1>5. PICK u : u = s \o t
  OBVIOUS
<1>6. /\ a \in Seq(S) /\ Len(a) = Len(s) + 1 /\ a[Len(s) + 1] = t[1]
      /\ \A i \in 1..Len(s) : a[i] = s[i]
  BY <1>1, <1>2, <1>3, AppendProperties
<1>7. /\ r \in Seq(S) /\ Len(r) = Len(t) - 1 /\ \A i \in 1..Len(r) : r[i] = t[i + 1]
  BY <1>1, <1>4
<1>8. u \in Seq(S) /\ Len(u) = Len(s) + Len(t)
  BY <1>5, ConcatProperties
<1>9. \A i \in 1..Len(s) + Len(t) : u[i] = IF i <= Len(s) THEN s[i] ELSE t[i - Len(s)]
  BY <1>5, ConcatProperties
<1>10. ASSUME NEW i \in 1..Len(a) PROVE u[i] = a[i]
  <2>1. i \in 1..Len(s) + Len(t) /\ (i \in 1..Len(s) \/ i = Len(s) + 1)
    BY <1>2, <1>6
  <2>2. CASE i \in 1..Len(s)
    <3>1. i <= Len(s)
      BY <1>2, <2>2
    <3>2. u[i] = s[i]
      BY <1>9, <2>1, <3>1
    <3>. QED
      BY <1>6, <2>2, <3>2
  <2>3. CASE i = Len(s) + 1
    <3>1. ~(i <= Len(s)) /\ i - Len(s) = 1
      BY <1>2, <2>3
    <3>. QED
      BY <1>6, <1>9, <2>1, <2>3, <3>1
  <2>. QED
    BY <2>1, <2>2, <2>3
<1>11. ASSUME NEW i \in 1..Len(r) PROVE u[Len(a) + i] = r[i]
  <2>1. /\ Len(a) + i \in 1..Len(s) + Len(t) /\ ~(Len(a) + i <= Len(s))
        /\ Len(a) + i - Len(s) = i + 1
    BY <1>2, <1>6, <1>7
  <2>2. u[Len(a) + i] = t[i + 1]
    BY <1>9, <2>1
  <2>. QED
    BY <1>7, <2>2
<1>12. Len(u) = Len(a) + Len(r)
  BY <1>2, <1>6, <1>7, <1>8
<1>13. a \o r = u
  BY <1>6, <1>7, <1>8, <1>10, <1>11, <1>12, Joining
<1>. QED
  BY <1>3, <1>4, <1>5, <1>13 DEF Cat

\* The head of the first of two sequences is the head of both.
LEMMA HeadOfCat ==
  ASSUME NEW S, NEW s \in Seq(S), NEW t \in Seq(S), s # <<>>
  PROVE  /\ Cat(s, t) \in Seq(S) /\ Cat(s, t) # <<>> /\ Head(Cat(s, t)) = Head(s)
         /\ Tail(Cat(s, t)) = Cat(Tail(s), t)
<1>1. PICK u : u = s \o t
  OBVIOUS
<1>2. PICK r : r = Tail(s)
  OBVIOUS
<1>3. /\ Len(s) \in Nat \ {0} /\ Len(t) \in Nat /\ Head(s) = s[1]
      /\ r \in Seq(S) /\ Len(r) = Len(s) - 1
      /\ \A i \in 1..Len(r) : r[i] = s[i + 1]
  BY <1>2, EmptySeq, LenProperties, HeadTailProperties
<1>4. /\ u \in Seq(S) /\ Len(u) = Len(s) + Len(t)
      /\ \A i \in 1..Len(s) + Len(t) : u[i] = IF i <= Len(s) THEN s[i] ELSE t[i - Len(s)]
  BY <1>1, ConcatProperties
<1>5. Len(u) # 0 /\ u # <<>>
  <2>1. Len(u) # 0
    BY <1>3, <1>4
  <2>2. Len(<<>>) = 0
    OBVIOUS
  <2>. QED
    BY <2>1, <2>2, Zenon
<1>6. Head(u) = s[1]
  <2>1. u[1] = s[1]
    BY <1>3, <1>4
  <2>. QED
    BY <1>4, <1>5, <2>1
<1>7. PICK w : w = Tail(u)
  OBVIOUS
<1>8. /\ w \in Seq(S) /\ Len(w) = Len(r) + Len(t)
      /\ \A i \in 1..Len(r) + Len(t) : w[i] = u[i + 1]
  <2>1. /\ w \in Seq(S) /\ Len(w) = Len(u) - 1 /\ \A i \in 1..Len(w) : w[i] = u[i + 1]
    BY <1>4, <1>5, <1>7, HeadTailProperties
  <2>. QED
    BY <1>3, <1>4, <2>1
<1>9. ASSUME NEW i \in 1..Len(r) PROVE w[i] = r[i]
  <2>1. i \in 1..Len(r) + Len(t) /\ i + 1 \in 1..Len(s) + Len(t) /\ i + 1 <= Len(s)
    BY <1>3
  <2>2. w[i] = u[i + 1] /\ r[i] = s[i + 1]
    BY <1>3, <1>8, <2>1
  <2>. QED
    BY <1>4, <2>1, <2>2
<1>10. ASSUME NEW i \in 1..Len(t) PROVE w[Len(r) + i] = t[i]
  <2>1. /\ Len(r) + i \in 1..Len(r) + Len(t) /\ Len(r) + i + 1 = Len(s) + i
        /\ Len(s) + i \in 1..Len(s) + Len(t) /\ ~(Len(s) + i <= Len(s))
        /\ Len(s) + i - Len(s) = i
    BY <1>3
  <2>2. w[Len(r) + i] = u[Len(s) + i]
    BY <1>8, <2>1
  <2>3. u[Len(s) + i] = t[i]
    BY <1>4, <2>1
  <2>. QED
    BY <2>2, <2>3
<1>11. r \o t = w
  BY <1>3, <1>8, <1>9, <1>10, Joining
<1>. QED
  BY <1>1, <1>2, <1>3, <1>4, <1>5, <1>6, <1>7, <1>11 DEF Cat

\* Lines in a row.
LEMMA FromIsLines ==
  ASSUME NEW a \in Nat \ {0}, NEW b \in Nat, NEW m \in Nat, a <= b + 1, b <= m
  PROVE  /\ From(a, b) \in Seq(1..m)
         /\ Len(From(a, b)) = b - a + 1
         /\ \A i \in 1..(b - a + 1) : From(a, b)[i] = a + i - 1
<1> DEFINE n == b - a + 1
           f == From(a, b)
<1>1. n \in Nat /\ \A i \in 1..n : a + i - 1 \in 1..m
  OBVIOUS
<1>2. n = IF b < a THEN 0 ELSE b - a + 1
  OBVIOUS
<1>3. f = [i \in 1..n |-> a + i - 1]
  BY <1>2 DEF From
<1>4. f \in [1..n -> 1..m] /\ DOMAIN f = 1..n /\ \A i \in 1..n : f[i] = a + i - 1
  BY <1>1, <1>3
<1> HIDE DEF n, f
<1>5. f \in Seq(1..m) /\ Len(f) = n
  BY <1>1, <1>4
<1>. QED
  BY <1>4, <1>5 DEF n, f

LEMMA FromJoins ==
  ASSUME NEW a \in Nat \ {0}, NEW b \in Nat, NEW c \in Nat, a <= b + 1, b <= c
  PROVE  Cat(From(a, b), From(b + 1, c)) = From(a, c)
<1>1. PICK s : s = From(a, b)
  OBVIOUS
<1>2. PICK t : t = From(b + 1, c)
  OBVIOUS
<1>3. PICK u : u = From(a, c)
  OBVIOUS
<1>4. s \in Seq(1..c) /\ Len(s) = b - a + 1 /\ \A i \in 1..(b - a + 1) : s[i] = a + i - 1
  BY <1>1, FromIsLines
<1>5. t \in Seq(1..c) /\ Len(t) = c - b /\ \A i \in 1..(c - b) : t[i] = b + i
  <2>1. b + 1 \in Nat \ {0} /\ b + 1 <= c + 1 /\ c <= c
    OBVIOUS
  <2>2. /\ t \in Seq(1..c) /\ Len(t) = c - (b + 1) + 1
        /\ \A i \in 1..(c - (b + 1) + 1) : t[i] = b + 1 + i - 1
    BY <1>2, <2>1, FromIsLines
  <2>. QED
    BY <2>2
<1>6. u \in Seq(1..c) /\ Len(u) = c - a + 1 /\ \A i \in 1..(c - a + 1) : u[i] = a + i - 1
  <2>1. a <= c + 1 /\ c <= c
    OBVIOUS
  <2>. QED
    BY <1>3, <2>1, FromIsLines
<1>7. \A i \in 1..Len(s) : u[i] = s[i]
  BY <1>4, <1>6
<1>8. ASSUME NEW i \in 1..Len(t) PROVE u[Len(s) + i] = t[i]
  <2>1. i \in 1..(c - b) /\ Len(s) + i \in 1..(c - a + 1) /\ a + (Len(s) + i) - 1 = b + i
    BY <1>4, <1>5
  <2>. QED
    BY <1>5, <1>6, <2>1
<1>9. Len(u) = Len(s) + Len(t)
  BY <1>4, <1>5, <1>6
<1>10. s \o t = u
  <2>1. PICK S : S = 1..c
    OBVIOUS
  <2>2. s \in Seq(S) /\ t \in Seq(S) /\ u \in Seq(S)
    BY <1>4, <1>5, <1>6, <2>1
  <2>. QED
    BY <1>7, <1>8, <1>9, <2>2, Joining
<1>. QED
  BY <1>1, <1>2, <1>3, <1>10 DEF Cat

-----------------------------------------------------------------------------
(* The console's invariant.                                                 *)

Start(v) == RingStart(lastSeq[v])

\* Sent, to be replayed and queued are the lines from the snapshot's first on;
\* the sentinel comes when the run is over.
Whole(v) ==
  \E end \in IF writer THEN {<<>>} ELSE {<<>>, <<Closed>>} :
    Cat(seen[v], Cat(replay[v], inbox[v])) = Cat(From(Start(v), seq), end)

\* The snapshot is sent or still to be replayed, so the queue lies beyond it.
JoinsIn(v) ==
  /\ Whole(v)
  /\ lastSeq[v] + 1 <= Start(v) + Len(seen[v]) + Len(replay[v])
  /\ at[v] = "replaying" => replay[v] # <<>>

View(v) ==
  /\ lastSeq[v] <= seq
  /\ \A i \in 1..Len(seen[v]) : seen[v][i] = Start(v) + i - 1
  /\ at[v] \in {"out", "accepted"} => seen[v] = <<>> /\ inbox[v] = <<>>
  /\ Subscribed(v) => JoinsIn(v)

NotYet == record = "absent" => seq = 0 /\ ~writer /\ \A v \in Viewers : at[v] = "out"

ConsoleInv == ConsoleTypeOK /\ NotYet /\ \A v \in Viewers : View(v)

\* What a queue may hold.
Lines == Nat \cup {Closed}

LEMMA RingFacts ==
  ASSUME NEW last \in Nat
  PROVE  RingStart(last) \in Nat \ {0} /\ RingStart(last) <= last + 1
BY LinesAssumption DEF RingStart

LEMMA EndFacts ==
  ASSUME NEW S, Closed \in S, NEW end \in {<<>>, <<Closed>>}
  PROVE  /\ end \in Seq(S) /\ Len(end) \in {0, 1}
         /\ Len(end) = 1 => end[1] = Closed
<1>1. CASE end = <<>>
  <2>1. Len(<<>>) = 0 /\ <<>> \in Seq(S)
    BY EmptySeq
  <2>. QED
    BY <1>1, <2>1
<1>2. CASE end = <<Closed>>
  <2>1. <<Closed>> \in Seq(S) /\ Len(<<Closed>>) = 1 /\ <<Closed>>[1] = Closed
    OBVIOUS
  <2>. QED
    BY <1>2, <2>1
<1>. QED
  BY <1>1, <1>2

\* What follows the lines sent is the next line, unless it is the sentinel.
LEMMA NextLine ==
  ASSUME NEW s \in Seq(Lines), NEW t \in Seq(Lines), t # <<>>, NEW f \in Seq(Lines),
         NEW end \in {<<>>, <<Closed>>},
         Cat(s, t) = Cat(f, end), t[1] # Closed
  PROVE  Len(s) + 1 \in 1..Len(f) /\ t[1] = f[Len(s) + 1]
<1>1. Len(s) \in Nat /\ Len(t) \in Nat \ {0} /\ Len(f) \in Nat
  BY EmptySeq, LenProperties
<1>2. end \in Seq(Lines) /\ Len(end) \in {0, 1} /\ (Len(end) = 1 => end[1] = Closed)
  BY EndFacts DEF Lines
<1>3. (s \o t)[Len(s) + 1] = t[1] /\ Len(s \o t) = Len(s) + Len(t)
  BY <1>1, ConcatProperties
<1>4. /\ Len(f \o end) = Len(f) + Len(end)
      /\ \A i \in 1..Len(f) + Len(end) :
           (f \o end)[i] = IF i <= Len(f) THEN f[i] ELSE end[i - Len(f)]
  BY <1>2, ConcatProperties
<1>5. s \o t = f \o end
  BY DEF Cat
<1>6. Len(s) + 1 \in 1..Len(f) + Len(end)
  <2>1. Len(s) + Len(t) = Len(f) + Len(end)
    BY <1>3, <1>4, <1>5
  <2>2. \A a, c, d \in Nat : \A b \in Nat \ {0} : a + b = c + d => a + 1 \in 1..c + d
    OBVIOUS
  <2>3. Len(end) \in Nat
    BY <1>2
  <2>. QED
    BY <1>1, <2>1, <2>2, <2>3
<1>7. Len(s) + 1 <= Len(f)
  <2> SUFFICES ASSUME ~(Len(s) + 1 <= Len(f)) PROVE FALSE
    OBVIOUS
  <2>1. \A a, c \in Nat : \A d \in {0, 1} :
          a + 1 \in 1..c + d /\ ~(a + 1 <= c) => d = 1 /\ a + 1 - c = 1
    OBVIOUS
  <2>2. Len(end) = 1 /\ Len(s) + 1 - Len(f) = 1
    BY <1>1, <1>2, <1>6, <2>1
  <2>3. (f \o end)[Len(s) + 1] = end[1]
    BY <1>4, <1>6, <2>2
  <2>. QED
    BY <1>2, <1>3, <1>5, <2>2, <2>3
<1>. QED
  BY <1>1, <1>3, <1>4, <1>5, <1>6, <1>7

\* What the types say of a console.
LEMMA ViewTypes ==
  ASSUME ConsoleTypeOK, NEW v \in Viewers
  PROVE  /\ seen[v] \in Seq(Lines) /\ replay[v] \in Seq(Lines)
         /\ inbox[v] \in Seq(Lines)
         /\ seen[v] \in Seq(1..MaxLines) /\ replay[v] \in Seq(1..MaxLines)
         /\ inbox[v] \in Seq(Entries)
         /\ lastSeq[v] \in Nat /\ lastSeq[v] <= MaxLines /\ seq \in Nat /\ seq <= MaxLines
         /\ Len(seen[v]) \in Nat /\ Len(replay[v]) \in Nat
         /\ Start(v) \in Nat \ {0} /\ Start(v) <= lastSeq[v] + 1
<1>1. /\ seen[v] \in Seq(1..MaxLines) /\ replay[v] \in Seq(1..MaxLines)
      /\ inbox[v] \in Seq(Entries)
      /\ lastSeq[v] \in Nat /\ lastSeq[v] <= MaxLines /\ seq \in Nat /\ seq <= MaxLines
  BY LinesAssumption DEF ConsoleTypeOK
<1>2. 1..MaxLines \subseteq Lines /\ Entries \subseteq Lines
  BY LinesAssumption DEF Entries, Lines
<1>3. /\ seen[v] \in Seq(Lines) /\ replay[v] \in Seq(Lines)
      /\ inbox[v] \in Seq(Lines)
  BY <1>1, <1>2, SeqMonotonic
<1>4. Start(v) \in Nat \ {0} /\ Start(v) <= lastSeq[v] + 1
  BY <1>1, RingFacts DEF Start
<1>5. Len(seen[v]) \in Nat /\ Len(replay[v]) \in Nat
  BY <1>3, LenProperties
<1>. QED
  BY <1>1, <1>3, <1>4, <1>5

-----------------------------------------------------------------------------
(* Steps that leave a console alone, or end it.                             *)

LEMMA ViewStays ==
  ASSUME NEW v \in Viewers, View(v), seq' = seq, writer' => writer, writer \in BOOLEAN,
         at'[v] = at[v], inbox'[v] = inbox[v], replay'[v] = replay[v],
         lastSeq'[v] = lastSeq[v], seen'[v] = seen[v]
  PROVE  View(v)'
<1>1. Whole(v) => Whole(v)'
  BY DEF Whole, Start
<1>. QED
  BY <1>1 DEF View, JoinsIn, Start, Subscribed

LEMMA ViewEnds ==
  ASSUME NEW v \in Viewers, View(v), ConsoleTypeOK, seq' \in Nat,
         seq <= seq',
         lastSeq'[v] = lastSeq[v], seen'[v] = seen[v],
         \/ at'[v] \notin {"out", "accepted", "replaying", "live"}
         \/ /\ at'[v] \in {"out", "accepted"} /\ at[v] \in {"out", "accepted"}
            /\ inbox'[v] = inbox[v]
  PROVE  View(v)'
<1>1. lastSeq[v] \in Nat /\ seq \in Nat
  BY ViewTypes
<1>. QED
  BY <1>1 DEF View, Start, Subscribed

-----------------------------------------------------------------------------
(* The run.                                                                 *)

\* A burst reaches everybody who is subscribed, with the sentinel or without.
LEMMA BurstKeepsViews ==
  ASSUME ConsoleTypeOK, \A v \in Viewers : View(v), writer,
         NEW k \in 1..MaxBurst,
         seq + k <= MaxLines, seq' = seq + k, NEW end \in {<<>>, <<Closed>>},
         end # <<>> => ~writer', FanOut(From(seq + 1, seq + k) \o end),
         UNCHANGED <<at, replay, lastSeq, seen>>
  PROVE  inbox' \in [Viewers -> Seq(Entries)] /\ \A v \in Viewers : View(v)'
<1>1. PICK burst : burst = From(seq + 1, seq + k)
  OBVIOUS
<1>2. seq \in Nat /\ k \in Nat \ {0} /\ seq + k \in Nat /\ MaxLines \in Nat
  BY LinesAssumption DEF ConsoleTypeOK
<1>3. burst \in Seq(1..MaxLines)
  <2>1. /\ seq + 1 \in Nat \ {0} /\ seq + k \in Nat /\ MaxLines \in Nat
        /\ seq + 1 <= seq + k + 1
    BY <1>2
  <2>. QED
    BY <1>1, <2>1, FromIsLines
<1>4. /\ burst \in Seq(Entries) /\ end \in Seq(Entries)
      /\ burst \in Seq(Lines) /\ end \in Seq(Lines)
      /\ burst \o end \in Seq(Entries) /\ burst \o end \in Seq(Lines)
  <2>1. /\ 1..MaxLines \subseteq Entries /\ 1..MaxLines \subseteq Lines
        /\ Closed \in Entries \cap Lines
    BY LinesAssumption DEF Entries, Lines
  <2>2. burst \in Seq(Entries) /\ burst \in Seq(Lines)
    BY <1>3, <2>1, SeqMonotonic
  <2>3. end \in Seq(Entries) /\ end \in Seq(Lines)
    BY <2>1, EndFacts
  <2>. QED
    BY <2>2, <2>3, ConcatProperties
<1>5. inbox' = [v \in Viewers |->
                  IF Subscribed(v) THEN inbox[v] \o (burst \o end) ELSE inbox[v]]
  BY <1>1 DEF FanOut
<1>6. inbox' \in [Viewers -> Seq(Entries)]
  <2>1. ASSUME NEW v \in Viewers PROVE inbox'[v] \in Seq(Entries)
    <3>1. inbox[v] \in Seq(Entries) /\ inbox[v] \o (burst \o end) \in Seq(Entries)
      BY <1>4, ViewTypes, ConcatProperties
    <3>. QED
      BY <1>5, <3>1
  <2>. QED
    BY <1>5, <2>1
<1>7. ASSUME NEW v \in Viewers, Subscribed(v) PROVE Whole(v)'
  <2>1. Whole(v)
    BY <1>7 DEF View, JoinsIn
  <2>2. seen[v] \in Seq(Lines) /\ replay[v] \in Seq(Lines) /\ inbox[v] \in Seq(Lines)
    BY ViewTypes
  <2>3. Start(v) \in Nat \ {0} /\ Start(v) <= seq + 1
    <3>1. lastSeq[v] \in Nat /\ Start(v) \in Nat \ {0} /\ Start(v) <= lastSeq[v] + 1
      BY ViewTypes
    <3>2. lastSeq[v] <= seq
      BY DEF View
    <3>. QED
      BY <1>2, <3>1, <3>2
  <2>4. PICK text : text = From(Start(v), seq)
    OBVIOUS
  <2>5. text \in Seq(Lines)
    <3>0. seq <= seq
      BY <1>2
    <3>1. text \in Seq(1..seq)
      BY <1>2, <2>3, <2>4, <3>0, FromIsLines
    <3>2. 1..seq \subseteq Lines
      BY <1>2 DEF Lines
    <3>. QED
      BY <3>1, <3>2, SeqMonotonic
  <2>6. Cat(seen[v], Cat(replay[v], inbox[v])) = text
    BY <2>1, <2>4, <2>5, CatNothing DEF Whole
  <2>7. Cat(seen[v], Cat(replay[v], Cat(inbox[v], Cat(burst, end)))) =
          Cat(text, Cat(burst, end))
    <3>1. Cat(burst, end) \in Seq(Lines)
      BY <1>4, CatIsSeq
    <3>. QED
      BY <2>2, <2>6, <3>1, EndGrows
  <2>8. Cat(text, Cat(burst, end)) = Cat(From(Start(v), seq + k), end)
    <3>1. Cat(text, Cat(burst, end)) = Cat(Cat(text, burst), end)
      BY <1>4, <2>5, CatAssociates
    <3>2. seq <= seq + k
      BY <1>2
    <3>3. Cat(text, burst) = From(Start(v), seq + k)
      BY <1>1, <1>2, <2>3, <2>4, <3>2, FromJoins
    <3>. QED
      BY <3>1, <3>3
  <2>9. inbox'[v] = Cat(inbox[v], Cat(burst, end)) /\ Start(v)' = Start(v)
    BY <1>5, <1>7 DEF Start, Cat
  <2>10. Cat(seen[v], Cat(replay[v], inbox[v]))' = Cat(From(Start(v), seq), end)'
    BY <2>7, <2>8, <2>9 DEF Cat
  <2>11. end \in IF writer' THEN {<<>>} ELSE {<<>>, <<Closed>>}
    OBVIOUS
  <2>. QED
    BY <2>10, <2>11 DEF Whole
<1>8. ASSUME NEW v \in Viewers, Subscribed(v) PROVE View(v)'
  <2>1. View(v) /\ lastSeq[v] \in Nat
    BY ViewTypes
  <2>. QED
    BY <1>2, <1>7, <1>8, <2>1 DEF View, JoinsIn, Start, Subscribed
<1>9. ASSUME NEW v \in Viewers, ~Subscribed(v) PROVE View(v)'
  <2>1. /\ inbox'[v] = inbox[v] /\ at'[v] = at[v]
        /\ lastSeq'[v] = lastSeq[v] /\ seen'[v] = seen[v]
    BY <1>5, <1>9
  <2>2. seq <= seq' /\ seq' \in Nat
    BY <1>2
  <2>. QED
    BY <1>9, <2>1, <2>2, ViewEnds DEF Subscribed
<1>. QED
  BY <1>6, <1>8, <1>9

LEMMA BurstStep ==
  ASSUME ConsoleInv, NEW k \in 1..MaxBurst,
         Progress(k) \/ Finish(k)
  PROVE  ConsoleInv'
<1>1. ConsoleTypeOK /\ NotYet /\ \A v \in Viewers : View(v)
  BY DEF ConsoleInv
<1>2. /\ writer /\ seq + k <= MaxLines /\ seq' = seq + k
      /\ UNCHANGED <<kind, at, replay, lastSeq, sawClosed, seen>>
  BY DEF Progress, Finish, Emit
<1>3. PICK end \in {<<>>, <<Closed>>} :
        (end # <<>> => ~writer') /\ FanOut(From(seq + 1, seq + k) \o end)
  <2>1. CASE Finish(k)
    BY <2>1 DEF Finish
  <2>2. CASE Progress(k)
    <3>1. From(seq + 1, seq + k) \in Seq(1..MaxLines)
      <4>1. /\ seq + 1 \in Nat \ {0} /\ seq + k \in Nat /\ MaxLines \in Nat
            /\ seq + 1 <= seq + k + 1
        BY <1>1, LinesAssumption DEF ConsoleTypeOK
      <4>. QED
        BY <1>2, <4>1, FromIsLines
    <3>2. From(seq + 1, seq + k) \o <<>> = From(seq + 1, seq + k)
      BY <3>1, ConcatEmptySeq
    <3>. QED
      BY <2>2, <3>2 DEF Progress
  <2>. QED
    BY <2>1, <2>2
<1>4. inbox' \in [Viewers -> Seq(Entries)] /\ \A v \in Viewers : View(v)'
  BY <1>1, <1>2, <1>3, BurstKeepsViews
<1>5. /\ seq' \in 0..MaxLines /\ closed' \in BOOLEAN /\ writer' \in BOOLEAN
      /\ record' \in {"open", "ended", "awaiting_approval", "cancelled", "deleted"}
  <2>1. /\ record \in {"open", "ended", "awaiting_approval", "cancelled", "deleted"}
        /\ seq \in 0..MaxLines /\ closed \in BOOLEAN /\ writer \in BOOLEAN
    BY <1>1, <1>2 DEF ConsoleTypeOK, NotYet
  <2>2. seq' \in 0..MaxLines
    BY <1>2, <2>1, LinesAssumption
  <2>3. CASE Progress(k)
    BY <2>1, <2>2, <2>3 DEF Progress
  <2>4. CASE Finish(k)
    BY <2>1, <2>2, <2>4 DEF Finish
  <2>. QED
    BY <2>3, <2>4
<1>6. ConsoleTypeOK'
  BY <1>1, <1>2, <1>4, <1>5 DEF ConsoleTypeOK
<1>. QED
  BY <1>4, <1>5, <1>6 DEF ConsoleInv, NotYet

\* The run's other steps send nothing.
LEMMA RunStep ==
  ASSUME ConsoleInv,
         \/ \E k \in 1..MaxBurst : StartRun(k)
         \/ FinishUnlogged \/ Cancel \/ Delete \/ Restart
  PROVE  ConsoleInv'
<1>1. ConsoleTypeOK /\ NotYet /\ \A v \in Viewers : View(v)
  BY DEF ConsoleInv
<1>2. CASE \E k \in 1..MaxBurst : StartRun(k)
  <2>1. /\ record = "absent" /\ record' = "open" /\ writer' \in BOOLEAN
        /\ UNCHANGED <<kind, closed, at, inbox, replay, lastSeq, sawClosed, seen>>
    BY <1>2 DEF StartRun, consoles
  <2>2. seq = 0 /\ seq' \in 0..MaxLines
    BY <1>1, <1>2, <2>1, LinesAssumption DEF StartRun, NotYet, Emit
  <2>3. ConsoleTypeOK' /\ NotYet'
    BY <1>1, <2>1, <2>2 DEF ConsoleTypeOK, NotYet
  <2>4. ASSUME NEW v \in Viewers PROVE View(v)'
    <3>1. at[v] = "out" /\ View(v)
      BY <1>1, <2>1 DEF NotYet
    <3>2. /\ at'[v] = at[v] /\ inbox'[v] = inbox[v] /\ lastSeq'[v] = lastSeq[v]
          /\ seen'[v] = seen[v] /\ seq' \in Nat /\ seq <= seq'
      BY <2>1, <2>2
    <3>. QED
      BY <1>1, <3>1, <3>2, ViewEnds
  <2>. QED
    BY <2>3, <2>4 DEF ConsoleInv
<1>3. CASE FinishUnlogged \/ Cancel \/ Delete
  <2>1. /\ record # "absent" \/ writer
        /\ record' \in {"ended", "awaiting_approval", "cancelled", "deleted"}
        /\ writer' \in BOOLEAN /\ (writer' => writer)
        /\ UNCHANGED <<kind, seq, closed, at, inbox, replay, lastSeq, sawClosed, seen>>
    <3>1. CASE FinishUnlogged
      BY <3>1 DEF FinishUnlogged, consoles
    <3>2. CASE Cancel \/ Delete
      <4>1. /\ record # "absent" /\ record' \in {"cancelled", "deleted"} /\ writer' = writer
            /\ UNCHANGED <<kind, seq, closed, at, inbox, replay, lastSeq, sawClosed, seen>>
        BY <3>2 DEF Cancel, Delete, consoles
      <4>2. writer \in BOOLEAN
        BY <1>1 DEF ConsoleTypeOK
      <4>3. writer' \in BOOLEAN /\ (writer' => writer)
        BY <4>1, <4>2, Zenon
      <4>. QED
        BY <4>1, <4>3
    <3>. QED
      BY <1>3, <3>1, <3>2
  <2>2. ConsoleTypeOK' /\ NotYet'
    BY <1>1, <2>1 DEF ConsoleTypeOK, NotYet
  <2>3. \A v \in Viewers : View(v)'
    BY <1>1, <2>1, ViewStays DEF ConsoleTypeOK
  <2>. QED
    BY <2>2, <2>3 DEF ConsoleInv
<1>4. CASE Restart
  <2>1. /\ writer /\ writer' = FALSE
        /\ at' = [v \in Viewers |-> IF at[v] = "out" THEN "out" ELSE "gone"]
        /\ replay' = [v \in Viewers |-> <<>>]
        /\ UNCHANGED <<kind, record, seq, closed, inbox, lastSeq, sawClosed, seen>>
    BY <1>4 DEF Restart
  <2>2. replay' \in [Viewers -> Seq(1..MaxLines)] /\ \A v \in Viewers : replay'[v] = <<>>
    BY <2>1
  <2>3. /\ at' \in [Viewers -> {"out", "accepted", "replaying", "live", "done", "gone"}]
        /\ \A v \in Viewers : at'[v] \in {"out", "gone"} /\ (at'[v] = "out" => at[v] = "out")
    BY <2>1
  <2>4. ConsoleTypeOK' /\ NotYet'
    BY <1>1, <2>1, <2>2, <2>3 DEF ConsoleTypeOK, NotYet
  <2>5. ASSUME NEW v \in Viewers PROVE View(v)'
    <3>1. View(v) /\ seq' \in Nat /\ seq <= seq'
      BY <1>1, <2>1, ViewTypes
    <3>2. inbox'[v] = inbox[v] /\ lastSeq'[v] = lastSeq[v] /\ seen'[v] = seen[v]
      BY <2>1
    <3>. QED
      BY <1>1, <2>3, <3>1, <3>2, ViewEnds
  <2>. QED
    BY <2>4, <2>5 DEF ConsoleInv
<1>. QED
  BY <1>2, <1>3, <1>4

-----------------------------------------------------------------------------
(* A console's steps.                                                       *)

\* The other consoles see nothing of it.
LEMMA OthersStay ==
  ASSUME ConsoleInv, NEW v \in Viewers, seq' = seq, writer' = writer,
         \A w \in Viewers \ {v} :
           /\ at'[w] = at[w] /\ inbox'[w] = inbox[w] /\ replay'[w] = replay[w]
           /\ lastSeq'[w] = lastSeq[w] /\ seen'[w] = seen[w],
         View(v)'
  PROVE  \A w \in Viewers : View(w)'
<1>1. writer \in BOOLEAN
  BY DEF ConsoleInv, ConsoleTypeOK
<1>2. writer' => writer
  BY <1>1, Zenon
<1>3. ASSUME NEW w \in Viewers, w # v PROVE View(w)'
  BY <1>1, <1>2, <1>3, ViewStays DEF ConsoleInv
<1>. QED
  BY <1>3

LEMMA AcceptStep ==
  ASSUME ConsoleInv, NEW v \in Viewers, Accept(v)
  PROVE  ConsoleInv'
<1>1. /\ at[v] = "out" /\ record # "absent" /\ at' = [at EXCEPT ![v] = "accepted"]
      /\ UNCHANGED <<kind, record, writer, seq, closed, inbox, replay, lastSeq, sawClosed, seen>>
  BY DEF Accept
<1>2. /\ at' \in [Viewers -> {"out", "accepted", "replaying", "live", "done", "gone"}]
      /\ at'[v] = "accepted" /\ \A w \in Viewers \ {v} : at'[w] = at[w]
  BY <1>1 DEF ConsoleInv, ConsoleTypeOK
<1>3. ConsoleTypeOK' /\ NotYet'
  BY <1>1, <1>2 DEF ConsoleInv, ConsoleTypeOK, NotYet
<1>4. View(v)'
  BY <1>1, <1>2, ViewEnds, ViewTypes DEF ConsoleInv
<1>5. \A w \in Viewers : View(w)'
  BY <1>1, <1>2, <1>4, OthersStay
<1>. QED
  BY <1>3, <1>5 DEF ConsoleInv

LEMMA DisconnectStep ==
  ASSUME ConsoleInv, NEW v \in Viewers, Disconnect(v)
  PROVE  ConsoleInv'
<1>1. /\ at[v] # "out" /\ at' = [at EXCEPT ![v] = "gone"]
      /\ replay' = [replay EXCEPT ![v] = <<>>]
      /\ UNCHANGED <<kind, record, writer, seq, closed, inbox, lastSeq, sawClosed, seen>>
  BY DEF Disconnect
<1>2. /\ at' \in [Viewers -> {"out", "accepted", "replaying", "live", "done", "gone"}]
      /\ at'[v] = "gone" /\ \A w \in Viewers \ {v} : at'[w] = at[w]
  BY <1>1 DEF ConsoleInv, ConsoleTypeOK
<1>3. /\ replay' \in [Viewers -> Seq(1..MaxLines)] /\ replay'[v] = <<>>
      /\ \A w \in Viewers \ {v} : replay'[w] = replay[w]
  BY <1>1 DEF ConsoleInv, ConsoleTypeOK
<1>4. ConsoleTypeOK' /\ NotYet'
  BY <1>1, <1>2, <1>3 DEF ConsoleInv, ConsoleTypeOK, NotYet
<1>5. View(v)'
  <2>1. seq' \in Nat /\ seq <= seq' /\ lastSeq'[v] = lastSeq[v] /\ seen'[v] = seen[v]
    BY <1>1, ViewTypes DEF ConsoleInv
  <2>. QED
    BY <1>2, <2>1, ViewEnds DEF ConsoleInv
<1>6. \A w \in Viewers : View(w)'
  BY <1>1, <1>2, <1>3, <1>5, OthersStay
<1>. QED
  BY <1>4, <1>6 DEF ConsoleInv

LEMMA SubscribeStep ==
  ASSUME ConsoleInv, NEW v \in Viewers, Subscribe(v)
  PROVE  ConsoleInv'
<1>1. PICK text : text = From(RingStart(seq), seq)
  OBVIOUS
<1>2. /\ at[v] = "accepted" /\ replay' = [replay EXCEPT ![v] = text]
      /\ lastSeq' = [lastSeq EXCEPT ![v] = seq] /\ sawClosed' = [sawClosed EXCEPT ![v] = closed]
      /\ at' = [at EXCEPT ![v] = IF text = <<>> THEN Decided(closed) ELSE "replaying"]
      /\ UNCHANGED <<kind, record, writer, seq, closed, inbox, seen>>
  BY <1>1 DEF Subscribe, Snapshot
<1>3. /\ seq \in Nat /\ seq \in 0..MaxLines /\ MaxLines \in Nat /\ closed \in BOOLEAN
      /\ RingStart(seq) \in Nat \ {0} /\ RingStart(seq) <= seq + 1
      /\ Decided(closed) \in {"live", "done"}
  <2>1. seq \in Nat /\ seq \in 0..MaxLines /\ MaxLines \in Nat /\ closed \in BOOLEAN
    BY LinesAssumption DEF ConsoleInv, ConsoleTypeOK
  <2>2. Decided(closed) \in {"live", "done"}
    BY DEF Decided
  <2>. QED
    BY <2>1, <2>2, RingFacts
<1>4. /\ text \in Seq(1..MaxLines) /\ text \in Seq(Nat)
      /\ Len(text) = seq - RingStart(seq) + 1
  <2>1. text \in Seq(1..MaxLines) /\ Len(text) = seq - RingStart(seq) + 1
    <3>1. seq <= MaxLines
      BY <1>3
    <3>. QED
      BY <1>1, <1>3, <3>1, FromIsLines
  <2>2. 1..MaxLines \subseteq Nat
    BY <1>3
  <2>. QED
    BY <2>1, <2>2, SeqMonotonic
<1>5. /\ replay' \in [Viewers -> Seq(1..MaxLines)] /\ replay'[v] = text
      /\ lastSeq' \in [Viewers -> 0..MaxLines] /\ lastSeq'[v] = seq
      /\ sawClosed' \in [Viewers -> BOOLEAN]
      /\ \A w \in Viewers \ {v} : replay'[w] = replay[w] /\ lastSeq'[w] = lastSeq[w]
  BY <1>2, <1>3, <1>4 DEF ConsoleInv, ConsoleTypeOK
<1>6. /\ at' \in [Viewers -> {"out", "accepted", "replaying", "live", "done", "gone"}]
      /\ at'[v] \in {"replaying", "live", "done"}
      /\ at'[v] = "replaying" <=> text # <<>>
      /\ \A w \in Viewers \ {v} : at'[w] = at[w]
  BY <1>2, <1>3 DEF ConsoleInv, ConsoleTypeOK
<1>7. ConsoleTypeOK'
  BY <1>2, <1>5, <1>6 DEF ConsoleInv, ConsoleTypeOK
<1>8. NotYet'
  BY <1>2 DEF ConsoleInv, NotYet
<1>9. View(v)'
  <2>1. seen[v] = <<>> /\ inbox[v] = <<>> /\ Len(seen[v]) = 0
    BY <1>2, EmptySeq DEF ConsoleInv, View
  <2>2. Start(v)' = RingStart(seq)
    BY <1>5 DEF Start
  <2>3. Cat(seen[v], Cat(replay[v], inbox[v]))' = Cat(From(Start(v), seq), <<>>)'
    <3>1. Cat(text, <<>>) = text /\ Cat(<<>>, text) = text
      BY <1>4, CatNothing
    <3>2. Cat(seen[v], Cat(replay[v], inbox[v]))' = Cat(<<>>, Cat(text, <<>>))
      BY <1>2, <1>5, <2>1 DEF Cat
    <3>3. Cat(From(Start(v), seq), <<>>)' = Cat(text, <<>>)
      BY <1>1, <1>2, <2>2 DEF Cat
    <3>. QED
      BY <3>1, <3>2, <3>3
  <2>4. Whole(v)'
    BY <2>3 DEF Whole
  <2>5. lastSeq'[v] + 1 <= Start(v)' + Len(seen'[v]) + Len(replay'[v])
    BY <1>2, <1>3, <1>4, <1>5, <2>1, <2>2
  <2>6. lastSeq'[v] <= seq' /\ 1..Len(seen'[v]) = {}
    BY <1>2, <1>3, <1>5, <2>1
  <2>. QED
    BY <1>5, <1>6, <2>4, <2>5, <2>6 DEF View, JoinsIn
<1>10. \A w \in Viewers : View(w)'
  BY <1>2, <1>5, <1>6, <1>9, OthersStay
<1>. QED
  BY <1>7, <1>8, <1>10 DEF ConsoleInv

\* A line sent is the next one, from the replay or from the queue.
LEMMA LineSent ==
  ASSUME ConsoleInv, NEW v \in Viewers, Subscribed(v),
         NEW left \in Seq(Lines), left = Cat(replay[v], inbox[v]), left # <<>>,
         Head(left) \in Nat
  PROVE  /\ Head(left) = Start(v) + Len(seen[v])
         /\ Head(left) \in 1..seq
         /\ Cat(Append(seen[v], Head(left)), Tail(left)) = Cat(seen[v], left)
<1>1. PICK end \in {<<>>, <<Closed>>} : Cat(seen[v], left) = Cat(From(Start(v), seq), end)
  BY DEF ConsoleInv, View, JoinsIn, Whole
<1>2. /\ seen[v] \in Seq(Lines) /\ seq \in Nat /\ lastSeq[v] \in Nat
      /\ Len(seen[v]) \in Nat /\ Start(v) \in Nat \ {0} /\ Start(v) <= lastSeq[v] + 1
  BY ViewTypes DEF ConsoleInv
<1>3. Start(v) <= seq + 1
  <2>1. lastSeq[v] <= seq
    BY DEF ConsoleInv, View
  <2>. QED
    BY <1>2, <2>1
<1>4. PICK text : text = From(Start(v), seq)
  OBVIOUS
<1>5. /\ text \in Seq(1..seq) /\ Len(text) = seq - Start(v) + 1
      /\ \A i \in 1..(seq - Start(v) + 1) : text[i] = Start(v) + i - 1
  <2>1. seq <= seq
    BY <1>2
  <2>. QED
    BY <1>2, <1>3, <1>4, <2>1, FromIsLines
<1>6. text \in Seq(Lines)
  <2>1. 1..seq \subseteq Lines
    BY <1>2 DEF Lines
  <2>. QED
    BY <1>5, <2>1, SeqMonotonic
<1>7. Head(left) = left[1] /\ left[1] # Closed
  BY LinesAssumption
<1>8. Len(seen[v]) + 1 \in 1..Len(text) /\ left[1] = text[Len(seen[v]) + 1]
  <2>1. PICK s : s = seen[v]
    OBVIOUS
  <2>2. s \in Seq(Lines)
    BY <1>2, <2>1
  <2>3. Cat(s, left) = Cat(text, end)
    BY <1>1, <1>4, <2>1
  <2>4. Len(s) + 1 \in 1..Len(text) /\ left[1] = text[Len(s) + 1]
    BY <1>6, <1>7, <2>2, <2>3, NextLine
  <2>. QED
    BY <2>1, <2>4
<1>9. Head(left) = Start(v) + Len(seen[v]) /\ Head(left) \in 1..seq
  <2>1. \A a \in Nat \ {0} : \A b, n \in Nat :
          n + 1 \in 1..(b - a + 1) => a + (n + 1) - 1 = a + n /\ a + n \in 1..b
    OBVIOUS
  <2>2. Len(seen[v]) + 1 \in 1..(seq - Start(v) + 1)
    BY <1>5, <1>8
  <2>3. Head(left) = Start(v) + (Len(seen[v]) + 1) - 1
    BY <1>5, <1>7, <1>8, <2>2
  <2>. QED
    BY <1>2, <2>1, <2>2, <2>3
<1>10. Cat(Append(seen[v], Head(left)), Tail(left)) = Cat(seen[v], left)
  BY <1>2, HeadMoves
<1>. QED
  BY <1>9, <1>10

\* What sending a line does to the view of the console.
LEMMA ViewAfterLine ==
  ASSUME ConsoleInv, NEW v \in Viewers, Subscribed(v),
         NEW left \in Seq(Lines), left = Cat(replay[v], inbox[v]), left # <<>>,
         Head(left) \in Nat,
         seen' = [seen EXCEPT ![v] = Append(@, Head(left))],
         Tail(left) = Cat(replay'[v], inbox'[v]),
         Len(replay'[v]) \in Nat, Len(replay[v]) <= Len(replay'[v]) + 1,
         seq' = seq, writer' = writer, lastSeq' = lastSeq,
         at'[v] \in {"replaying", "live", "done"},
         at'[v] = "replaying" => replay'[v] # <<>>
  PROVE  seen' \in [Viewers -> Seq(1..MaxLines)] /\ View(v)'
<1>1. /\ seen[v] \in Seq(1..MaxLines) /\ seq \in Nat /\ seq <= MaxLines /\ lastSeq[v] \in Nat
      /\ Len(seen[v]) \in Nat /\ Len(replay[v]) \in Nat /\ Start(v) \in Nat \ {0}
  BY ViewTypes DEF ConsoleInv
<1>2. /\ Head(left) = Start(v) + Len(seen[v]) /\ Head(left) \in 1..seq
      /\ Cat(Append(seen[v], Head(left)), Tail(left)) = Cat(seen[v], left)
  BY LineSent
<1>3. PICK s \in Seq(1..MaxLines) : s = seen[v]
  BY <1>1
<1>4. PICK line \in 1..MaxLines : line = Head(left)
  <2>1. Head(left) \in 1..MaxLines
    BY <1>1, <1>2, LinesAssumption
  <2>. QED
    BY <2>1, Zenon
<1>5. /\ Append(s, line) \in Seq(1..MaxLines) /\ Len(Append(s, line)) = Len(s) + 1
      /\ \A i \in 1..Len(s) : Append(s, line)[i] = s[i]
      /\ Append(s, line)[Len(s) + 1] = line
  BY <1>3, <1>4, AppendProperties
<1>6. seen' \in [Viewers -> Seq(1..MaxLines)] /\ seen'[v] = Append(s, line)
  BY <1>3, <1>4, <1>5 DEF ConsoleInv, ConsoleTypeOK
<1>7. Start(v)' = Start(v) /\ lastSeq'[v] = lastSeq[v]
  BY DEF Start
<1>8. Whole(v)'
  <2>1. PICK end \in IF writer THEN {<<>>} ELSE {<<>>, <<Closed>>} :
          Cat(seen[v], left) = Cat(From(Start(v), seq), end)
    BY DEF ConsoleInv, View, JoinsIn, Whole
  <2>2. Cat(seen'[v], Cat(replay'[v], inbox'[v])) = Cat(seen[v], left)
    BY <1>2, <1>3, <1>4, <1>6
  <2>3. Cat(seen[v], Cat(replay[v], inbox[v]))' = Cat(From(Start(v), seq), end)'
    BY <1>7, <2>1, <2>2 DEF Cat
  <2>4. end \in IF writer' THEN {<<>>} ELSE {<<>>, <<Closed>>}
    BY <2>1
  <2>. QED
    BY <2>3, <2>4 DEF Whole
<1>9. \A i \in 1..Len(seen'[v]) : seen'[v][i] = Start(v)' + i - 1
  <2>1. \A i \in 1..Len(s) : s[i] = Start(v) + i - 1
    BY <1>3 DEF ConsoleInv, View
  <2>2. line = Start(v) + Len(s) /\ Len(s) \in Nat
    BY <1>1, <1>2, <1>3, <1>4
  <2>3. ASSUME NEW i \in 1..(Len(s) + 1) PROVE Append(s, line)[i] = Start(v) + i - 1
    <3>1. CASE i = Len(s) + 1
      BY <1>1, <1>5, <2>2, <3>1
    <3>2. CASE i \in 1..Len(s)
      BY <1>5, <2>1, <3>2
    <3>. QED
      BY <2>2, <3>1, <3>2
  <2>. QED
    BY <1>5, <1>6, <1>7, <2>3
<1>10. lastSeq'[v] + 1 <= Start(v)' + Len(seen'[v]) + Len(replay'[v])
  <2>1. lastSeq[v] + 1 <= Start(v) + Len(seen[v]) + Len(replay[v])
    BY DEF ConsoleInv, View, JoinsIn
  <2>2. Len(seen'[v]) = Len(seen[v]) + 1
    BY <1>3, <1>5, <1>6
  <2>3. \A a, b, c, d, e \in Nat : a + 1 <= b + c + d /\ d <= e + 1 => a + 1 <= b + (c + 1) + e
    OBVIOUS
  <2>4. lastSeq[v] + 1 <= Start(v) + (Len(seen[v]) + 1) + Len(replay'[v])
    BY <1>1, <2>1, <2>3
  <2>. QED
    BY <1>7, <2>2, <2>4
<1>11. lastSeq'[v] <= seq'
  BY <1>7 DEF ConsoleInv, View
<1>. QED
  BY <1>6, <1>8, <1>9, <1>10, <1>11 DEF View, JoinsIn

LEMMA SendStep ==
  ASSUME ConsoleInv, NEW v \in Viewers, Send(v)
  PROVE  ConsoleInv'
<1>1. /\ at[v] = "replaying" /\ replay[v] # <<>> /\ Subscribed(v)
      /\ seen' = [seen EXCEPT ![v] = Append(@, Head(replay[v]))]
      /\ replay' = [replay EXCEPT ![v] = Tail(@)]
      /\ at' = [at EXCEPT ![v] = IF Len(replay[v]) > 1 THEN @ ELSE Decided(sawClosed[v])]
      /\ UNCHANGED <<kind, record, writer, seq, closed, inbox, lastSeq, sawClosed>>
  BY DEF Send, ConsoleInv, View, JoinsIn, Subscribed
<1>2. /\ replay[v] \in Seq(1..MaxLines) /\ replay[v] \in Seq(Lines)
      /\ inbox[v] \in Seq(Lines)
  BY ViewTypes DEF ConsoleInv
<1>3. /\ Head(replay[v]) \in 1..MaxLines /\ Tail(replay[v]) \in Seq(1..MaxLines)
      /\ Len(Tail(replay[v])) = Len(replay[v]) - 1 /\ Len(replay[v]) \in Nat \ {0}
      /\ Len(replay[v]) > 1 => Tail(replay[v]) # <<>>
      /\ ~(Len(replay[v]) > 1) => Tail(replay[v]) = <<>>
  <2>1. /\ Head(replay[v]) \in 1..MaxLines /\ Tail(replay[v]) \in Seq(1..MaxLines)
        /\ Len(Tail(replay[v])) = Len(replay[v]) - 1
    BY <1>1, <1>2, HeadTailProperties
  <2>2. Len(replay[v]) \in Nat \ {0} /\ Len(<<>>) = 0
    BY <1>1, <1>2, EmptySeq
  <2>3. Len(Tail(replay[v])) = 0 <=> Tail(replay[v]) = <<>>
    BY <2>1, EmptySeq
  <2>4. \A m, n : m \in Nat \ {0} /\ n = m - 1 => (m > 1 <=> n # 0)
    OBVIOUS
  <2>5. Len(replay[v]) > 1 <=> Tail(replay[v]) # <<>>
    BY <2>1, <2>2, <2>3, <2>4
  <2>. QED
    BY <2>1, <2>2, <2>5
<1>4. /\ replay' \in [Viewers -> Seq(1..MaxLines)] /\ replay'[v] = Tail(replay[v])
      /\ \A w \in Viewers \ {v} : replay'[w] = replay[w]
  BY <1>1, <1>3 DEF ConsoleInv, ConsoleTypeOK
<1>5. /\ at' \in [Viewers -> {"out", "accepted", "replaying", "live", "done", "gone"}]
      /\ \A w \in Viewers \ {v} : at'[w] = at[w]
      /\ at'[v] \in {"replaying", "live", "done"}
      /\ at'[v] = "replaying" <=> Len(replay[v]) > 1
  <2>1. Decided(sawClosed[v]) \in {"live", "done"}
    BY DEF Decided
  <2>. QED
    BY <1>1, <2>1 DEF ConsoleInv, ConsoleTypeOK
<1>6. PICK left : left = Cat(replay[v], inbox[v])
  OBVIOUS
<1>7. /\ left \in Seq(Lines) /\ left # <<>> /\ Head(left) = Head(replay[v])
      /\ Tail(left) = Cat(Tail(replay[v]), inbox[v])
  <2>1. PICK s : s = replay[v]
    OBVIOUS
  <2>2. PICK t : t = inbox[v]
    OBVIOUS
  <2>3. s \in Seq(Lines) /\ t \in Seq(Lines) /\ s # <<>> /\ left = Cat(s, t)
    BY <1>1, <1>2, <1>6, <2>1, <2>2
  <2>4. /\ left \in Seq(Lines) /\ left # <<>> /\ Head(left) = Head(s)
        /\ Tail(left) = Cat(Tail(s), t)
    BY <2>3, HeadOfCat
  <2>. QED
    BY <2>1, <2>2, <2>4
<1>8. seen' \in [Viewers -> Seq(1..MaxLines)] /\ View(v)'
  <2>1. Head(left) \in Nat /\ seen' = [seen EXCEPT ![v] = Append(@, Head(left))]
    <3>1. \A n \in 1..MaxLines : n \in Nat
      OBVIOUS
    <3>2. Head(left) \in Nat
      BY <1>3, <1>7, <3>1
    <3>. QED
      BY <1>1, <1>7, <3>2
  <2>2. Tail(left) = Cat(replay'[v], inbox'[v])
    BY <1>1, <1>4, <1>7
  <2>3. Len(replay'[v]) \in Nat /\ Len(replay[v]) <= Len(replay'[v]) + 1
    BY <1>3, <1>4
  <2>4. at'[v] = "replaying" => replay'[v] # <<>>
    BY <1>3, <1>4, <1>5
  <2>. QED
    BY <1>1, <1>5, <1>6, <1>7, <2>1, <2>2, <2>3, <2>4, ViewAfterLine
<1>9. \A w \in Viewers \ {v} : seen'[w] = seen[w]
  BY <1>1 DEF ConsoleInv, ConsoleTypeOK
<1>10. \A w \in Viewers : View(w)'
  BY <1>1, <1>4, <1>5, <1>8, <1>9, OthersStay
<1>11. ConsoleTypeOK' /\ NotYet'
  BY <1>1, <1>3, <1>4, <1>5, <1>8 DEF ConsoleInv, ConsoleTypeOK, NotYet
<1>. QED
  BY <1>10, <1>11 DEF ConsoleInv

LEMMA ReceiveStep ==
  ASSUME ConsoleInv, NEW v \in Viewers, Receive(v)
  PROVE  ConsoleInv'
<1>1. /\ at[v] = "live" /\ inbox[v] # <<>> /\ Subscribed(v) /\ replay[v] = <<>>
      /\ inbox' = [inbox EXCEPT ![v] = Tail(@)]
      /\ UNCHANGED <<kind, record, writer, seq, closed, replay, lastSeq, sawClosed>>
  BY DEF Receive, Subscribed, ConsoleInv, ConsoleTypeOK
<1>2. /\ inbox[v] \in Seq(Entries) /\ inbox[v] \in Seq(Lines)
      /\ Head(inbox[v]) \in Entries /\ Tail(inbox[v]) \in Seq(Entries)
      /\ Tail(inbox[v]) \in Seq(Lines) /\ Len(replay[v]) = 0
  BY <1>1, ViewTypes, HeadTailProperties, EmptySeq DEF ConsoleInv
<1>3. /\ inbox' \in [Viewers -> Seq(Entries)] /\ inbox'[v] = Tail(inbox[v])
      /\ \A w \in Viewers \ {v} : inbox'[w] = inbox[w]
  BY <1>1, <1>2 DEF ConsoleInv, ConsoleTypeOK
<1>4. CASE Head(inbox[v]) = Closed
  <2>1. at' = [at EXCEPT ![v] = "done"] /\ seen' = seen
    BY <1>4 DEF Receive
  <2>2. /\ at' \in [Viewers -> {"out", "accepted", "replaying", "live", "done", "gone"}]
        /\ at'[v] = "done" /\ \A w \in Viewers \ {v} : at'[w] = at[w]
    BY <2>1 DEF ConsoleInv, ConsoleTypeOK
  <2>3. seq' \in Nat /\ seq <= seq'
    BY <1>1, ViewTypes DEF ConsoleInv
  <2>4. View(v)'
    BY <1>1, <2>1, <2>2, <2>3, ViewEnds DEF ConsoleInv
  <2>5. \A w \in Viewers : View(w)'
    BY <1>1, <1>3, <2>1, <2>2, <2>4, OthersStay
  <2>6. ConsoleTypeOK' /\ NotYet'
    BY <1>1, <1>3, <2>1, <2>2 DEF ConsoleInv, ConsoleTypeOK, NotYet
  <2>. QED
    BY <2>5, <2>6 DEF ConsoleInv
<1>5. CASE Head(inbox[v]) # Closed
  <2>1. PICK left : left = inbox[v]
    OBVIOUS
  <2>2. left \in Seq(Lines) /\ left # <<>> /\ Head(left) \in Nat
    BY <1>1, <1>2, <1>5, <2>1, LinesAssumption DEF Entries, Lines
  <2>3. left = Cat(replay[v], inbox[v]) /\ Tail(left) = Cat(replay'[v], inbox'[v])
    BY <1>1, <1>2, <1>3, <2>1, CatNothing
  <2>4. Head(left) > lastSeq[v]
    <3>1. Head(left) = Start(v) + Len(seen[v])
      BY <1>1, <2>2, <2>3, LineSent
    <3>2. lastSeq[v] + 1 <= Start(v) + Len(seen[v]) + Len(replay[v])
      BY <1>1 DEF ConsoleInv, View, JoinsIn
    <3>3. lastSeq[v] \in Nat /\ Start(v) \in Nat /\ Len(seen[v]) \in Nat
      BY ViewTypes DEF ConsoleInv
    <3>. QED
      BY <1>2, <3>1, <3>2, <3>3
  <2>5. seen' = [seen EXCEPT ![v] = Append(@, Head(left))] /\ at' = at
    BY <1>5, <2>1, <2>4 DEF Receive
  <2>6. /\ Len(replay'[v]) \in Nat /\ Len(replay[v]) <= Len(replay'[v]) + 1
        /\ at'[v] \in {"replaying", "live", "done"} /\ at'[v] # "replaying"
    BY <1>1, <1>2, <2>5
  <2>7. seen' \in [Viewers -> Seq(1..MaxLines)] /\ View(v)'
    BY <1>1, <2>2, <2>3, <2>5, <2>6, ViewAfterLine
  <2>8. \A w \in Viewers \ {v} : seen'[w] = seen[w]
    BY <2>5 DEF ConsoleInv, ConsoleTypeOK
  <2>9. \A w \in Viewers : View(w)'
    BY <1>1, <1>3, <2>5, <2>7, <2>8, OthersStay
  <2>10. ConsoleTypeOK' /\ NotYet'
    BY <1>1, <1>3, <2>5, <2>7 DEF ConsoleInv, ConsoleTypeOK, NotYet
  <2>. QED
    BY <2>9, <2>10 DEF ConsoleInv
<1>. QED
  BY <1>4, <1>5

-----------------------------------------------------------------------------
(* The theorems.                                                            *)

LEMMA ConsoleInductive == ConsoleSpec => []ConsoleInv
<1>1. ConsoleInit => ConsoleInv
  <2> SUFFICES ASSUME ConsoleInit PROVE ConsoleInv
    OBVIOUS
  <2>1. ConsoleTypeOK
    <3>1. 0 \in 0..MaxLines /\ <<>> \in Seq(Entries) /\ <<>> \in Seq(1..MaxLines)
      BY LinesAssumption
    <3>. QED
      BY <3>1 DEF ConsoleInit, ConsoleTypeOK
  <2>2. NotYet
    BY DEF ConsoleInit, NotYet
  <2>3. ASSUME NEW v \in Viewers PROVE View(v)
    <3>1. /\ seen[v] = <<>> /\ inbox[v] = <<>> /\ at[v] = "out" /\ lastSeq[v] = 0 /\ seq = 0
          /\ Len(seen[v]) = 0
      BY DEF ConsoleInit
    <3>. QED
      BY <3>1 DEF View, Subscribed
  <2>. QED
    BY <2>1, <2>2, <2>3 DEF ConsoleInv
<1>2. ConsoleInv /\ [ConsoleNext]_consoleVars => ConsoleInv'
  <2> SUFFICES ASSUME ConsoleInv, [ConsoleNext]_consoleVars PROVE ConsoleInv'
    OBVIOUS
  <2>1. CASE Run
    BY <2>1, BurstStep, RunStep DEF Run
  <2>2. CASE \E v \in Viewers : Accept(v) \/ Console(v) \/ Disconnect(v)
    BY <2>2, AcceptStep, SubscribeStep, SendStep, ReceiveStep, DisconnectStep DEF Console
  <2>3. CASE UNCHANGED consoleVars
    <3>1. ConsoleTypeOK' /\ NotYet'
      BY <2>3 DEF consoleVars, consoles, ConsoleInv, ConsoleTypeOK, NotYet
    <3>2. writer \in BOOLEAN /\ writer' = writer
      BY <2>3 DEF consoleVars, ConsoleInv, ConsoleTypeOK
    <3>3. writer' => writer
      BY <3>2, Zenon
    <3>4. \A v \in Viewers : View(v)'
      BY <2>3, <3>2, <3>3, ViewStays DEF consoleVars, consoles, ConsoleInv
    <3>. QED
      BY <3>1, <3>4 DEF ConsoleInv
  <2>. QED
    BY <2>1, <2>2, <2>3 DEF ConsoleNext
<1>. QED
  BY <1>1, <1>2, PTL DEF ConsoleSpec

\* Console queues, replays and snapshots hold lines of the log, and a replay
\* lasts only while the console is replaying (server.py:3024-3031).
THEOREM ConsolesAreWellTyped == ConsoleSpec => []ConsoleTypeOK
<1>1. ConsoleInv => ConsoleTypeOK
  BY DEF ConsoleInv
<1>. QED
  BY <1>1, ConsoleInductive, PTL

\* What a console shows is a gapless piece of the log, each line once and in
\* order, over any number of consoles, lines and bursts, and for any size of
\* the ring (server.py:3024-3058, run_log.py:114-121).
THEOREM ConsolesShowNoGap == ConsoleSpec => []SeenIsGapless
<1>1. ASSUME ConsoleInv PROVE SeenIsGapless
  <2> SUFFICES ASSUME NEW v \in Viewers, NEW i \in 1..Len(seen[v]) - 1
               PROVE  seen[v][i + 1] = seen[v][i] + 1
    BY DEF SeenIsGapless
  <2>1. Len(seen[v]) \in Nat /\ Start(v) \in Nat
    BY <1>1, ViewTypes DEF ConsoleInv
  <2>2. \A j \in 1..Len(seen[v]) : seen[v][j] = Start(v) + j - 1
    BY <1>1 DEF ConsoleInv, View
  <2>3. i \in 1..Len(seen[v]) /\ i + 1 \in 1..Len(seen[v])
    BY <2>1
  <2>. QED
    BY <2>1, <2>2, <2>3
<1>. QED
  BY <1>1, ConsoleInductive, PTL

\* As long as a console is subscribed, nothing is lost between replay and
\* queue: together with what it sent they are the log from the snapshot on.
THEOREM ConsolesMissNothing == ConsoleSpec => []NothingMissedWhileOpen
<1>1. ASSUME ConsoleInv PROVE NothingMissedWhileOpen
  <2> SUFFICES ASSUME NEW v \in Viewers, Subscribed(v)
               PROVE  \E end \in {<<>>, <<Closed>>} :
                        seen[v] \o replay[v] \o inbox[v] =
                          From(RingStart(lastSeq[v]), seq) \o end
    BY DEF NothingMissedWhileOpen
  <2>1. PICK end \in {<<>>, <<Closed>>} :
          Cat(seen[v], Cat(replay[v], inbox[v])) = Cat(From(Start(v), seq), end)
    BY <1>1 DEF ConsoleInv, View, JoinsIn, Whole
  <2>2. Cat(Cat(seen[v], replay[v]), inbox[v]) = Cat(seen[v], Cat(replay[v], inbox[v]))
    BY <1>1, ViewTypes, CatAssociates DEF ConsoleInv
  <2>3. Cat(Cat(seen[v], replay[v]), inbox[v]) = Cat(From(Start(v), seq), end)
    BY <2>1, <2>2
  <2>. QED
    BY <2>3 DEF Cat, Start
<1>. QED
  BY <1>1, ConsoleInductive, PTL
=============================================================================
