-------------------------- MODULE WorkflowHistory --------------------------
(***************************************************************************)
(* Durable workflows: the handlers of workflow.rs on the control lane and  *)
(* the replay of a history by a worker (runtime.py, workflow_runner.py,    *)
(* rust_worker.py).                                                        *)
(*                                                                         *)
(* A worker polls a task with the history of that moment, replays it, and  *)
(* completes the task with the commands the replay ended in; events keep   *)
(* being appended meanwhile.  Each handler is one transaction: an operator *)
(* takes the keys of the control lane to what the transaction leaves.      *)
(*                                                                         *)
(* A token names the worker it was given to: a worker holds one task at a  *)
(* time.  Times are left out: a timer may fire, a deadline may pass and a  *)
(* lease may expire at any moment.  (Watermark timers and the executions   *)
(* of processes, which are workflows too, belong to other components.)     *)
(***************************************************************************)
EXTENDS Naturals, Sequences, FiniteSets, FiniteSetsExt, Lists

CONSTANTS
  Workflows, NoWorkflow,
  Parent,          \* [Workflows -> the workflow that starts it, NoWorkflow]
  Programs,        \* [Workflows -> its commands: "activity", "timer", a child]
  Runs,            \* [Workflows -> runs before it does not continue as new]
  ChildPolicies,   \* parent_close_policy
  Workers, NoWorker,
  MaxAttempts,     \* attempts of an activity: 3 by default
  ExternalKinds,   \* "signal", "cancel", "update": what clients send
  MaxDisturbances  \* bound: requests of clients after the start, failures,
                   \* expired leases and deadlines, lost workers

ASSUME WorkflowAssumption ==
  /\ IsFiniteSet(Workflows) /\ {"activity", "timer", NoWorkflow} \cap Workflows = {}
  /\ NoWorker \notin Workers
  /\ Parent \in [Workflows -> Workflows \cup {NoWorkflow}]
  /\ Programs \in [Workflows -> Seq({"activity", "timer"} \cup Workflows)]
  /\ \A v, w \in Workflows :
       Parent[v] = w <=> \E c \in 1 .. Len(Programs[w]) : Programs[w][c] = v
  /\ Runs \in [Workflows -> Nat] /\ MaxAttempts \in Nat \ {0} /\ MaxDisturbances \in Nat
  /\ ChildPolicies \subseteq {"REQUEST_CANCEL", "TERMINATE", "ABANDON"}
  /\ ExternalKinds \subseteq {"signal", "cancel", "update"}

VARIABLES
  lane,            \* the workflow keys of the control lane
  job,             \* [Workers -> what each worker is busy with]
  policy,          \* the parent_close_policy of all children
  disturbances

workflowVars == <<lane, job, policy, disturbances>>

Roots == {w \in Workflows : Parent[w] = NoWorkflow}
Statuses == {"none", "RUNNING", "COMPLETED", "FAILED", "CANCELLED", "TERMINATED", "TIMED_OUT"}
Closed(w) == lane.status[w] \notin {"none", "RUNNING"}

EventTypes == {"started", "signal", "update", "updated", "cancel", "taskFailed",
               "scheduled", "retry", "done", "failed", "closed"}
Event == [type : EventTypes, command : Nat]
E(type, command) == [type |-> type, command |-> command]

NoTask == [lease |-> "absent", token |-> NoWorker]
FreshTask == [lease |-> "none", token |-> NoWorker]
Leases == {"none", "held", "expired"}

NoJob == [kind |-> "none"]
WorkflowJob == [kind : {"workflow"}, workflow : Workflows, seen : Nat]
ActivityJob == [kind : {"activity"}, workflow : Workflows, command : Nat]

WorkflowTypeOK ==
  /\ lane.status \in [Workflows -> Statuses]
  /\ lane.run \in [Workflows -> Nat]
  /\ \A w \in Workflows : lane.history[w] \in Seq(Event)
  /\ lane.task \in [Workflows -> [lease : Leases \cup {"absent"}, token : Workers \cup {NoWorker}]]
  /\ lane.timers \subseteq Workflows \X Nat
  /\ lane.activities \subseteq [workflow : Workflows, command : Nat, attempt : 1 .. MaxAttempts,
                                lease : Leases, token : Workers \cup {NoWorker}]
  /\ job \in [Workers -> {NoJob} \cup WorkflowJob \cup ActivityJob]
  /\ policy \in ChildPolicies
  /\ disturbances \in 0 .. MaxDisturbances

WorkflowInit ==
  /\ lane = [status     |-> [w \in Workflows |-> "none"],
             run        |-> [w \in Workflows |-> 0],
             history    |-> [w \in Workflows |-> <<>>],
             task       |-> [w \in Workflows |-> NoTask],
             timers     |-> {},
             activities |-> {}]
  /\ job = [x \in Workers |-> NoJob]
  /\ policy \in ChildPolicies
  /\ disturbances = 0

Disturbance == disturbances < MaxDisturbances /\ disturbances' = disturbances + 1

-----------------------------------------------------------------------------
(* Replay: the commands a history ends in. *)

\* _dispatch_external handles the external events of h from i on; the
\* completion of an update counts when it follows its request at once.
IsExternal(event) == event.type \in {"signal", "update", "cancel", "taskFailed"}
Completes(h, k) == k \in 2 .. Len(h) /\ h[k].type = "updated" /\ h[k - 1].type = "update"

AfterExternals(h, i) ==
  CHOOSE j \in i .. Len(h) + 1 :
    /\ \A k \in i .. j - 1 : IsExternal(h[k]) \/ (k > i /\ Completes(h, k))
    /\ j <= Len(h) => ~IsExternal(h[j]) /\ ~(j > i /\ Completes(h, j))

Cancelled(h, i) == \E k \in i .. AfterExternals(h, i) - 1 : h[k].type = "cancel"

Matched(h, i) ==
  \A k \in i + 1 .. AfterExternals(h, i) - 1 :
    Completes(h, k) => h[k].command = h[k - 1].command

\* The requests without a completion behind them are completed now, in order.
Updates(h, i) ==
  LET open == {k \in i .. AfterExternals(h, i) - 1 : h[k].type = "update" /\ ~Completes(h, k + 1)}
      order == Among([k \in 1 .. Len(h) |-> k], open)
  IN  [n \in 1 .. Len(order) |-> E("updated", h[order[n]].command)]

\* The retries of command c from i on are skipped.
AfterRetries(h, i, c) ==
  CHOOSE j \in i .. Len(h) + 1 :
    /\ \A k \in i .. j - 1 : h[k] = E("retry", c)
    /\ j <= Len(h) => h[j] # E("retry", c)

\* An answer: the completions of updates, and what the workflow's code decided.
Answer(decision, c) == [ok |-> TRUE, updates |-> <<>>, decision |-> E(decision, c)]
Waiting == Answer("none", 0)
Failure == [Waiting EXCEPT !.ok = FALSE]

\* _dispatch_external from i on, where the events behind the external ones make
\* the code answer Then.
Dispatch(h, i, Then) ==
  LET answer == IF ~Matched(h, i) THEN Failure
                ELSE IF Cancelled(h, i) THEN Answer("cancelled", 0) ELSE Then
  IN  [answer EXCEPT !.updates = Updates(h, i) \o @]

\* _completion: the result of command c, at j or awaited; rest answers what follows.
Completion(h, j, c, rest) ==
  IF j > Len(h) THEN Waiting
  ELSE IF h[j] = E("done", c) THEN rest[j + 1]
  ELSE IF h[j] = E("failed", c) THEN Answer("fail", 0)
  ELSE IF h[j].type \in {"done", "failed"} THEN Failure ELSE Waiting

\* resolve: the code asks for command c, with the events before i consumed. The
\* retry of another command where an activity's result is due is an error.
Resolve(w, h, i, c, rest) ==
  LET activity == Programs[w][c] = "activity"
      scheduled == AfterExternals(h, i)
      behind == AfterExternals(h, scheduled + 1)
      j == IF activity THEN AfterRetries(h, behind, c) ELSE behind
      stray == activity /\ j <= Len(h) /\ h[j].type = "retry"
  IN  Dispatch(h, i,
        IF scheduled > Len(h) THEN Answer("schedule", c)
        ELSE IF h[scheduled] # E("scheduled", c) THEN Failure
        ELSE Dispatch(h, scheduled + 1, IF stray THEN Failure ELSE Completion(h, j, c, rest)))

\* activate: the answer of a replay of the first n events of the run.
Replay(w, n) ==
  LET h == SubSeq(lane.history[w], 1, n)
      last == Len(Programs[w])
      ends == Answer(IF lane.run[w] < Runs[w] THEN "continue" ELSE "complete", 0)
      \* The answers with so many commands left, from any event on.
      answers[left \in 0 .. last] ==
        [i \in 2 .. n + 1 |->
           IF left = 0 THEN ends ELSE Resolve(w, h, i, last + 1 - left, answers[left - 1])]
  IN  answers[last][2]

-----------------------------------------------------------------------------
(* What transactions are made of *)

AppendEvent(S, w, event) == [S EXCEPT !.history[w] = Append(@, event)]

\* enqueue_workflow: a task that exists keeps its lease and its token.
Enqueue(S, w) == IF S.task[w] = NoTask THEN [S EXCEPT !.task[w] = FreshTask] ELSE S
DropTask(S, w) == [S EXCEPT !.task[w] = NoTask]
Wake(S, w, event) == Enqueue(AppendEvent(S, w, event), w)

\* Mutant: the activities stay.
ForgetTimersOnly(S, ws) == [S EXCEPT !.timers = {t \in @ : t[1] \notin ws}]

\* Activities and timers of the workflows are deleted.
Forget(S, ws) == [S EXCEPT !.timers = {t \in @ : t[1] \notin ws},
                           !.activities = {a \in @ : a.workflow \notin ws}]

\* The command that started w, the first of its parent's to name it: another that
\* names it is refused (ChildExists).
CommandOf(w) ==
  CHOOSE c \in 1 .. Len(Programs[Parent[w]]) :
    Programs[Parent[w]][c] = w /\ \A d \in 1 .. c - 1 : Programs[Parent[w]][d] # w

RunningChildren(S, ws) == {v \in Workflows : Parent[v] \in ws /\ S.status[v] = "RUNNING"}

\* The workflows that close with w: what close_workflow reaches by calling itself.
ClosingWith(S, w) ==
  IF policy # "TERMINATE" THEN {w}
  ELSE {v \in Workflows : \A ws \in SUBSET Workflows :
          w \in ws /\ RunningChildren(S, ws) \subseteq ws => v \in ws}

\* close_workflow: w and the workflows that close with it, or the requests to
\* the children to cancel.
CloseDown(S, w, status) ==
  LET closing   == ClosingWith(S, w)
      cancelled == IF policy = "REQUEST_CANCEL" THEN RunningChildren(S, {w}) \ {w} ELSE {}
  IN  [Forget(S, closing) EXCEPT
        !.status  = [v \in Workflows |-> IF v = w THEN status
                                         ELSE IF v \in closing THEN "TERMINATED" ELSE @[v]],
        !.history = [v \in Workflows |-> IF v \in closing THEN Append(@[v], E("closed", 0))
                                         ELSE IF v \in cancelled THEN Append(@[v], E("cancel", 0))
                                         ELSE @[v]],
        !.task    = [v \in Workflows |-> IF v \in closing \ {w} THEN NoTask
                                         ELSE IF v \in cancelled /\ @[v] = NoTask THEN FreshTask
                                         ELSE @[v]]]

\* close_workflow, with the news for the parent.
Close(S, w, status) ==
  LET closed == CloseDown(S, w, status)
  IN  IF w \notin Roots /\ closed.status[Parent[w]] = "RUNNING"
      THEN Wake(closed, Parent[w],
                E(IF status = "COMPLETED" THEN "done" ELSE "failed", CommandOf(w)))
      ELSE closed

\* start_workflow, and the child that START_CHILD makes.
Start(S, w) ==
  Wake([S EXCEPT !.status[w] = "RUNNING", !.run[w] = 1], w, E("started", 1))

\* CONTINUE_AS_NEW archives the history, whatever has arrived in it.
ContinueAsNew(S, w) ==
  LET renewed == [Forget(S, {w}) EXCEPT !.history[w] = <<>>, !.run[w] = @ + 1]
  IN  Wake(renewed, w, E("started", renewed.run[w]))

Schedule(S, w, c) ==
  LET scheduled == AppendEvent(S, w, E("scheduled", c))
  IN  CASE Programs[w][c] = "timer"    -> [scheduled EXCEPT !.timers = @ \cup {<<w, c>>}]
        [] Programs[w][c] = "activity" ->
             [scheduled EXCEPT !.activities = @ \cup
               {[workflow |-> w, command |-> c, attempt |-> 1, lease |-> "none", token |-> NoWorker]}]
        [] OTHER -> Start(scheduled, Programs[w][c])

\* apply_command for the completions of updates, which come first, and for what
\* the code decided.
Apply(S, w, answer) ==
  LET updated == [S EXCEPT !.history[w] = @ \o answer.updates]
      decision == answer.decision
  IN  CASE decision.type = "complete"  -> Close(updated, w, "COMPLETED")
        [] decision.type = "fail"      -> Close(updated, w, "FAILED")
        [] decision.type = "cancelled" -> Close(updated, w, "CANCELLED")
        [] decision.type = "continue"  -> ContinueAsNew(updated, w)
        [] decision.type = "schedule"  -> Schedule(updated, w, decision.command)
        [] OTHER                       -> updated

\* START_CHILD fails, and the transaction with it, when the child exists.
ChildExists(S, w, decision) ==
  /\ decision.type = "schedule" /\ Programs[w][decision.command] \in Workflows
  /\ S.status[Programs[w][decision.command]] # "none"

-----------------------------------------------------------------------------
(* Clients *)

StartWorkflow(w) ==
  /\ w \in Roots /\ lane.status[w] = "none"
  /\ lane' = Start(lane, w)
  /\ UNCHANGED <<job, policy, disturbances>>

\* external_event: a signal, an update (with a new id) or a cancel request.
Send(w, kind) ==
  /\ lane.status[w] = "RUNNING"
  /\ Disturbance
  /\ lane' = Wake(lane, w, E(kind, IF kind = "update" THEN disturbances' ELSE 0))
  /\ UNCHANGED <<job, policy>>

Terminate(w) ==
  /\ lane.status[w] = "RUNNING"
  /\ lane' = DropTask(Close(lane, w, "TERMINATED"), w)
  /\ Disturbance
  /\ UNCHANGED <<job, policy>>

-----------------------------------------------------------------------------
(* Workflow tasks *)

Fire(t, S) == Wake(S, t[1], E("done", t[2]))
FireTimers(S, due) == FoldSet(Fire, [S EXCEPT !.timers = @ \ due], due)

\* expire_workflows: children have no deadline.
Expire(w, S) == DropTask(Close(S, w, "TIMED_OUT"), w)
ExpireWorkflows(S, late) == FoldSet(Expire, S, late)

Available(S) == {w \in Workflows : S.task[w].lease \in {"none", "expired"}}

\* poll_workflow: timers fire, deadlines pass, and the worker gets a task, if
\* there is one, with the history as it is now.
PollWorkflow(x, due, late) ==
  /\ UNCHANGED policy
  /\ job[x] = NoJob
  /\ IF late = {} THEN UNCHANGED disturbances ELSE Disturbance
  /\ \E S \in {ExpireWorkflows(FireTimers(lane, due), late)} :
       IF Available(S) = {} THEN lane' = S /\ UNCHANGED job
       ELSE \E w \in Available(S) :
              /\ job' = [job EXCEPT ![x] = [kind |-> "workflow", workflow |-> w,
                                            seen |-> Len(S.history[w])]]
              /\ lane' = [S EXCEPT !.task[w] = [lease |-> "held", token |-> x]]

HasTask(x) == job[x].kind = "workflow" /\ lane.task[job[x].workflow].token = x
Done(x) == job' = [job EXCEPT ![x] = NoJob]

\* Mutant: the task is not made anew for events the activation did not see.
CompleteWorkflowBlindly(x) ==
  /\ HasTask(x)
  /\ Done(x)
  /\ UNCHANGED <<policy, disturbances>>
  /\ LET w == job[x].workflow IN
     \E answer \in {Replay(w, job[x].seen)} :
       /\ answer.ok /\ ~ChildExists(lane, w, answer.decision)
       /\ lane' = Apply(DropTask(lane, w), w, answer)

\* complete_workflow
CompleteWorkflow(x) ==
  /\ HasTask(x)
  /\ Done(x)
  /\ UNCHANGED <<policy, disturbances>>
  /\ LET w == job[x].workflow IN
     \E answer \in {Replay(w, job[x].seen)} :
       /\ answer.ok /\ ~ChildExists(lane, w, answer.decision)
       /\ \E applied \in {Apply(DropTask(lane, w), w, answer)} :
            lane' = IF Len(lane.history[w]) > job[x].seen /\ applied.status[w] = "RUNNING"
                    THEN Enqueue(applied, w) ELSE applied

\* The replay, or the workflow's code, failed: the task is tried again.
FailTask(x) ==
  /\ HasTask(x)
  /\ Disturbance
  /\ Done(x)
  /\ UNCHANGED policy
  /\ lane' = [AppendEvent(lane, job[x].workflow, E("taskFailed", 0))
                EXCEPT !.task[job[x].workflow] = FreshTask]

-----------------------------------------------------------------------------
(* Activities *)

\* Mutant: the workflow is not told to look.
OverdueUnannounced(a, S) == AppendEvent(S, a.workflow, E("failed", a.command))

\* Those past their schedule-to-close deadline fail.
Overdue(a, S) == Wake(S, a.workflow, E("failed", a.command))
FailOverdue(S, late) == FoldSet(Overdue, [S EXCEPT !.activities = @ \ late], late)

\* poll_activity: the overdue activities fail, and the worker gets one of the others.
PollActivity(x, late) ==
  LET open == {a \in lane.activities \ late : a.lease # "held"} IN
  /\ UNCHANGED policy
  /\ job[x] = NoJob
  /\ IF late = {} THEN UNCHANGED disturbances ELSE Disturbance
  /\ \E S \in {FailOverdue(lane, late)} :
       IF open = {} THEN lane' = S /\ UNCHANGED job
       ELSE \E a \in open :
              /\ job' = [job EXCEPT ![x] = [kind |-> "activity", workflow |-> a.workflow,
                                            command |-> a.command]]
              /\ lane' = [S EXCEPT !.activities =
                            (@ \ {a}) \cup {[a EXCEPT !.lease = "held", !.token = x]}]

Held(x) ==
  {a \in lane.activities : a.token = x /\ job[x].kind = "activity"
                           /\ a.workflow = job[x].workflow /\ a.command = job[x].command}

\* Mutant: the activity is found by its command, whoever was given it last.
CompleteActivityByCommand(x, result) ==
  /\ IF result = "failed" THEN Disturbance ELSE UNCHANGED disturbances
  /\ Done(x)
  /\ UNCHANGED policy
  /\ job[x].kind = "activity"
  /\ lane' = Wake([lane EXCEPT !.activities =
                     {a \in @ : ~(a.workflow = job[x].workflow /\ a.command = job[x].command)}],
                  job[x].workflow, E(result, job[x].command))

\* complete_activity with a result, or with an error that is not retried: it
\* is not retryable, or the attempts or the time are used up.
CompleteActivity(x, result) ==
  /\ IF result = "failed" THEN Disturbance ELSE UNCHANGED disturbances
  /\ Done(x)
  /\ UNCHANGED policy
  /\ \E a \in Held(x) :
       lane' = Wake([lane EXCEPT !.activities = @ \ {a}], a.workflow, E(result, a.command))

\* Mutant: the attempts are not limited.
RetryActivityEndlessly(x) ==
  /\ \E a \in Held(x) :
       lane' = [AppendEvent(lane, a.workflow, E("retry", a.command)) EXCEPT !.activities =
                  (@ \ {a}) \cup {[a EXCEPT !.attempt = @ + 1, !.lease = "none",
                                            !.token = NoWorker]}]
  /\ Disturbance
  /\ Done(x)
  /\ UNCHANGED policy

\* complete_activity with an error that is retried; it wakes nobody.
RetryActivity(x) ==
  /\ \E a \in Held(x) :
       /\ a.attempt < MaxAttempts
       /\ lane' = [AppendEvent(lane, a.workflow, E("retry", a.command)) EXCEPT !.activities =
                     (@ \ {a}) \cup {[a EXCEPT !.attempt = @ + 1, !.lease = "none",
                                               !.token = NoWorker]}]
  /\ Disturbance
  /\ Done(x)
  /\ UNCHANGED policy

Heartbeat(x) ==
  /\ \E a \in Held(x) :
       /\ a.lease = "expired"
       /\ lane' = [lane EXCEPT !.activities = (@ \ {a}) \cup {[a EXCEPT !.lease = "held"]}]
  /\ UNCHANGED <<job, policy, disturbances>>

-----------------------------------------------------------------------------
(* Leases and workers *)

\* The lease a worker was given runs out; the worker may be gone, or slow.
ExpireLease(x) ==
  /\ \/ \E w \in Workflows :
          /\ lane.task[w] = [lease |-> "held", token |-> x]
          /\ lane' = [lane EXCEPT !.task[w].lease = "expired"]
     \/ \E a \in lane.activities :
          /\ a.token = x /\ a.lease = "held"
          /\ lane' = [lane EXCEPT !.activities = (@ \ {a}) \cup {[a EXCEPT !.lease = "expired"]}]
  /\ IF job[x] = NoJob THEN UNCHANGED disturbances ELSE Disturbance
  /\ UNCHANGED <<job, policy>>

WorkerLost(x) ==
  /\ job[x] # NoJob
  /\ Done(x)
  /\ Disturbance
  /\ UNCHANGED <<lane, policy>>

\* "workflow task lease lost", "activity task lease lost": nothing happens.
Refused(x) ==
  /\ job[x] # NoJob /\ ~HasTask(x) /\ Held(x) = {}
  /\ Done(x)
  /\ UNCHANGED <<lane, policy, disturbances>>

-----------------------------------------------------------------------------
PollsWorkflow(x) ==
  \E due \in SUBSET lane.timers :
    \E late \in SUBSET {w \in Roots : lane.status[w] = "RUNNING"} :
      PollWorkflow(x, due, late)

WorkflowNext ==
  \/ \E w \in Workflows :
       StartWorkflow(w) \/ Terminate(w) \/ \E kind \in ExternalKinds : Send(w, kind)
  \/ \E x \in Workers :
       \/ PollsWorkflow(x) \/ CompleteWorkflow(x) \/ FailTask(x)
       \/ \E late \in SUBSET lane.activities : PollActivity(x, late)
       \/ \E result \in {"done", "failed"} : CompleteActivity(x, result)
       \/ RetryActivity(x) \/ Heartbeat(x)
       \/ ExpireLease(x) \/ WorkerLost(x) \/ Refused(x)

\* Timers fall due, idle workers poll both queues, a worker answers or is told
\* that its lease is lost, and the lease of one that is gone expires.
WorkflowFairness ==
  /\ SF_workflowVars(\E x \in Workers : PollWorkflow(x, lane.timers, {}))
  /\ SF_workflowVars(\E x \in Workers : PollActivity(x, {}))
  /\ \A x \in Workers :
       /\ WF_workflowVars(CompleteWorkflow(x) \/ FailTask(x) \/ CompleteActivity(x, "done")
                          \/ Refused(x))
       /\ WF_workflowVars(job[x] = NoJob /\ ExpireLease(x))

WorkflowSpec == WorkflowInit /\ [][WorkflowNext]_workflowVars /\ WorkflowFairness

-----------------------------------------------------------------------------
(* Properties *)

Count(w, P(_)) == Cardinality({i \in 1 .. Len(lane.history[w]) : P(lane.history[w][i])})

\* What the code does not prevent: the completion of an update is appended when
\* a task completes, and an event or a command may come between it and its
\* request.  Every later replay then takes the request for an open one, and
\* the completion for an event in the way.
UpdateAstray(w) ==
  \E i \in 2 .. Len(lane.history[w]) :
    /\ lane.history[w][i].type = "updated"
    /\ lane.history[w][i - 1] # E("update", lane.history[w][i].command)

\* What it does not prevent either: an event that follows the retry of an
\* activity hides the activity's result from every later replay, because
\* _completion handles external events only before the retries.
ResultHidden(w) ==
  \E i \in 2 .. Len(lane.history[w]) :
    IsExternal(lane.history[w][i]) /\ lane.history[w][i - 1].type = "retry"

\* A history is one the workflow's code can have produced: no replay of it
\* fails, and a command has one result at most, although activities are
\* retried, leases are lost and late workers answer.
HistoriesReplay ==
  \A w \in Workflows :
    /\ lane.status[w] = "RUNNING" /\ ~UpdateAstray(w) => Replay(w, Len(lane.history[w])).ok
    /\ \A c \in 1 .. Len(Programs[w]) :
         Count(w, LAMBDA e : e.type \in {"done", "failed"} /\ e.command = c) <= 1

\* A closed workflow is over: its closing event is the last one and the only
\* one, nothing is left that would wake it, and a child that still runs was
\* left alone by its policy, was asked to cancel, or has continued as new and
\* so dropped the request.
ClosedIsFinal ==
  \A w \in Workflows : Closed(w) =>
    /\ lane.history[w][Len(lane.history[w])].type = "closed"
    /\ Count(w, LAMBDA e : e.type = "closed") = 1
    /\ lane.task[w] = NoTask
    /\ \A t \in lane.timers : t[1] # w
    /\ \A a \in lane.activities : a.workflow # w
    /\ \A v \in Workflows : Parent[v] = w /\ lane.status[v] = "RUNNING" =>
         \/ policy = "ABANDON"
         \/ policy = "REQUEST_CANCEL" /\ \/ Count(v, LAMBDA e : e.type = "cancel") > 0
                                         \/ lane.run[v] > 1

\* A running workflow that no worker will be given waits for a command whose
\* result will come: what a timer, an activity or a child reports wakes it, also
\* when it comes while the workflow's code, which has not seen it, decides to wait.
WaitingHasReason ==
  \A w \in Workflows :
    /\ lane.status[w] = "RUNNING" /\ lane.task[w] = NoTask
    /\ ~UpdateAstray(w) /\ ~ResultHidden(w)
    => \E c \in 1 .. Len(Programs[w]) :
         \/ <<w, c>> \in lane.timers
         \/ \E a \in lane.activities : a.workflow = w /\ a.command = c
         \/ Programs[w][c] \in Workflows /\ lane.status[Programs[w][c]] = "RUNNING"

\* A workflow that was started closes: no event is lost between the poll of a
\* task and its completion, and no lost lease leaves it without a task.
WorkflowsClose ==
  \A w \in Workflows :
    (lane.status[w] = "RUNNING") ~> (Closed(w) \/ \E v \in Workflows : UpdateAstray(v) \/ ResultHidden(v))
=============================================================================
