--------------------------- MODULE WorkflowProofs ---------------------------
(***************************************************************************)
(* Proofs about workflows, for any tree of workflows with any programs,    *)
(* any workers, policies, bounds and numbers of runs.                      *)
(***************************************************************************)
EXTENDS WorkflowHistory, Induction

-----------------------------------------------------------------------------
(* The control lane, and what single writes do to it. *)

Tasks == [lease : Leases \cup {"absent"}, token : Workers \cup {NoWorker}]
Activities == [workflow : Workflows, command : Nat, attempt : 1 .. MaxAttempts,
               lease : Leases, token : Workers \cup {NoWorker}]

Lanes == [status     : [Workflows -> Statuses],
          run        : [Workflows -> Nat],
          history    : [Workflows -> Seq(Event)],
          task       : [Workflows -> Tasks],
          timers     : SUBSET (Workflows \X Nat),
          activities : SUBSET Activities]

LEMMA NoTaskTyped == NoTask \in Tasks /\ FreshTask \in Tasks /\ NoTask # FreshTask
BY DEF NoTask, FreshTask, Tasks, Leases

LEMMA AppendEventIs ==
  ASSUME NEW S \in Lanes, NEW w \in Workflows, NEW e \in Event, NEW T, T = AppendEvent(S, w, e)
  PROVE  /\ T \in Lanes
         /\ T.history = [S.history EXCEPT ![w] = Append(@, e)]
         /\ T.status = S.status /\ T.run = S.run /\ T.task = S.task
         /\ T.timers = S.timers /\ T.activities = S.activities
<1>1. [S.history EXCEPT ![w] = Append(@, e)] \in [Workflows -> Seq(Event)]
  BY AppendProperties DEF Lanes
<1> QED BY <1>1 DEF AppendEvent, Lanes

LEMMA EnqueueIs ==
  ASSUME NEW S \in Lanes, NEW w \in Workflows, NEW T, T = Enqueue(S, w)
  PROVE  /\ T \in Lanes
         /\ T.task = [S.task EXCEPT ![w] = IF @ = NoTask THEN FreshTask ELSE @]
         /\ T.status = S.status /\ T.run = S.run /\ T.history = S.history
         /\ T.timers = S.timers /\ T.activities = S.activities
<1>1. CASE S.task[w] = NoTask
  BY <1>1, NoTaskTyped DEF Enqueue, Lanes
<1>2. CASE S.task[w] # NoTask
  BY <1>2, NoTaskTyped DEF Enqueue, Lanes
<1> QED BY <1>1, <1>2

LEMMA DropTaskIs ==
  ASSUME NEW S \in Lanes, NEW w \in Workflows, NEW T, T = DropTask(S, w)
  PROVE  /\ T \in Lanes
         /\ T.task = [S.task EXCEPT ![w] = NoTask]
         /\ T.status = S.status /\ T.run = S.run /\ T.history = S.history
         /\ T.timers = S.timers /\ T.activities = S.activities
<1> QED BY NoTaskTyped DEF DropTask, Lanes

LEMMA ForgetIs ==
  ASSUME NEW S \in Lanes, NEW ws, NEW T, T = Forget(S, ws)
  PROVE  /\ T \in Lanes
         /\ T.timers = {t \in S.timers : t[1] \notin ws}
         /\ T.activities = {a \in S.activities : a.workflow \notin ws}
         /\ T.status = S.status /\ T.run = S.run /\ T.history = S.history /\ T.task = S.task
<1> QED BY DEF Forget, Lanes

WithTimers(S, ts) == [S EXCEPT !.timers = ts]
WithActivities(S, acts) == [S EXCEPT !.activities = acts]
WithTask(S, w, task) == [S EXCEPT !.task[w] = task]

LEMMA TimersAre ==
  ASSUME NEW S \in Lanes, NEW ts \in SUBSET (Workflows \X Nat), NEW T, T = WithTimers(S, ts)
  PROVE  /\ T \in Lanes /\ T.timers = ts
         /\ T.status = S.status /\ T.run = S.run /\ T.history = S.history
         /\ T.task = S.task /\ T.activities = S.activities
<1> QED BY DEF Lanes, WithTimers

LEMMA ActivitiesAre ==
  ASSUME NEW S \in Lanes, NEW acts \in SUBSET Activities, NEW T, T = WithActivities(S, acts)
  PROVE  /\ T \in Lanes /\ T.activities = acts
         /\ T.status = S.status /\ T.run = S.run /\ T.history = S.history
         /\ T.task = S.task /\ T.timers = S.timers
<1> QED BY DEF Lanes, WithActivities

LEMMA WakeIs ==
  ASSUME NEW S \in Lanes, NEW w \in Workflows, NEW e \in Event, NEW T, T = Wake(S, w, e)
  PROVE  /\ T \in Lanes
         /\ T.history[w] = Append(S.history[w], e)
         /\ T.task[w] = IF S.task[w] = NoTask THEN FreshTask ELSE S.task[w]
         /\ \A v \in Workflows \ {w} : T.history[v] = S.history[v] /\ T.task[v] = S.task[v]
         /\ T.status = S.status /\ T.run = S.run
         /\ T.timers = S.timers /\ T.activities = S.activities
<1>1. PICK A : A = AppendEvent(S, w, e)
  OBVIOUS
<1>2. /\ A \in Lanes
      /\ A.history = [S.history EXCEPT ![w] = Append(@, e)]
      /\ A.status = S.status /\ A.run = S.run /\ A.task = S.task
      /\ A.timers = S.timers /\ A.activities = S.activities
  BY <1>1, AppendEventIs
<1>3. T = Enqueue(A, w)
  BY <1>1 DEF Wake
<1>4. /\ T \in Lanes
      /\ T.task = [A.task EXCEPT ![w] = IF @ = NoTask THEN FreshTask ELSE @]
      /\ T.status = A.status /\ T.run = A.run /\ T.history = A.history
      /\ T.timers = A.timers /\ T.activities = A.activities
  BY <1>2, <1>3, EnqueueIs
<1>5. /\ T.history[w] = Append(S.history[w], e)
      /\ T.task[w] = IF S.task[w] = NoTask THEN FreshTask ELSE S.task[w]
      /\ \A v \in Workflows \ {w} : T.history[v] = S.history[v] /\ T.task[v] = S.task[v]
  BY <1>2, <1>4 DEF Lanes
<1> QED BY <1>2, <1>4, <1>5

-----------------------------------------------------------------------------
(* Closing a workflow *)

\* The workflows that close with w are w and running children; with TERMINATE
\* they are all the running children of theirs.
LEMMA ClosingIs ==
  ASSUME NEW S, NEW w \in Workflows, NEW C, C = ClosingWith(S, w)
  PROVE  /\ C \subseteq Workflows /\ w \in C
         /\ \A v \in C : v # w => S.status[v] = "RUNNING" /\ Parent[v] \in Workflows
         /\ policy # "TERMINATE" => C = {w}
         /\ policy = "TERMINATE" => RunningChildren(S, C) \subseteq C
<1>1. CASE policy # "TERMINATE"
  BY <1>1 DEF ClosingWith
<1>2. CASE policy = "TERMINATE"
  <2>1. C = {v \in Workflows : \A ws \in SUBSET Workflows :
               w \in ws /\ RunningChildren(S, ws) \subseteq ws => v \in ws}
    BY <1>2 DEF ClosingWith
  <2>2. PICK R :
          R = {v \in Workflows : v = w \/ (S.status[v] = "RUNNING" /\ Parent[v] \in Workflows)}
    OBVIOUS
  <2>3. R \in SUBSET Workflows /\ w \in R /\ RunningChildren(S, R) \subseteq R
    BY <2>2 DEF RunningChildren
  <2>4. C \subseteq R
    BY <2>1, <2>3
  <2>5. ASSUME NEW v \in RunningChildren(S, C)
        PROVE  v \in C
    <3>1. v \in Workflows /\ Parent[v] \in C /\ S.status[v] = "RUNNING"
      BY DEF RunningChildren
    <3>2. SUFFICES ASSUME NEW ws \in SUBSET Workflows, w \in ws,
                          RunningChildren(S, ws) \subseteq ws
                   PROVE  v \in ws
      BY <2>1, <3>1
    <3>3. Parent[v] \in ws
      BY <2>1, <3>1, <3>2
    <3> QED BY <3>1, <3>2, <3>3 DEF RunningChildren
  <2> QED BY <1>2, <2>1, <2>2, <2>4, <2>5
<1> QED BY <1>1, <1>2

\* The children that are asked to cancel.
Asking(S, w) == IF policy = "REQUEST_CANCEL" THEN RunningChildren(S, {w}) \ {w} ELSE {}

LEMMA EventsTyped ==
  ASSUME NEW type \in EventTypes, NEW c \in Nat
  PROVE  E(type, c) \in Event /\ E(type, c).type = type /\ E(type, c).command = c
<1> QED BY DEF E, Event

LEMMA CloseDownIs ==
  ASSUME NEW S \in Lanes, NEW w \in Workflows, NEW status \in Statuses,
         NEW T, T = CloseDown(S, w, status),
         NEW C, C = ClosingWith(S, w), NEW A, A = Asking(S, w)
  PROVE  /\ T \in Lanes
         /\ \A v \in Workflows : T.status[v] = IF v = w THEN status
              ELSE IF v \in C THEN "TERMINATED" ELSE S.status[v]
         /\ \A v \in Workflows : T.history[v] = IF v \in C THEN Append(S.history[v], E("closed", 0))
              ELSE IF v \in A THEN Append(S.history[v], E("cancel", 0)) ELSE S.history[v]
         /\ \A v \in Workflows : T.task[v] = IF v \in C \ {w} THEN NoTask
              ELSE IF v \in A /\ S.task[v] = NoTask THEN FreshTask ELSE S.task[v]
         /\ T.run = S.run
         /\ T.timers = {t \in S.timers : t[1] \notin C}
         /\ T.activities = {a \in S.activities : a.workflow \notin C}
<1>1. PICK F : F = Forget(S, C)
  OBVIOUS
<1>2. /\ F \in Lanes
      /\ F.timers = {t \in S.timers : t[1] \notin C}
      /\ F.activities = {a \in S.activities : a.workflow \notin C}
      /\ F.status = S.status /\ F.run = S.run /\ F.history = S.history /\ F.task = S.task
  BY <1>1, ForgetIs
<1>3. PICK st :
        st = [v \in Workflows |-> IF v = w THEN status
                                  ELSE IF v \in C THEN "TERMINATED" ELSE F.status[v]]
  OBVIOUS
<1>4. PICK hi :
        hi = [v \in Workflows |-> IF v \in C THEN Append(F.history[v], E("closed", 0))
                                  ELSE IF v \in A THEN Append(F.history[v], E("cancel", 0))
                                  ELSE F.history[v]]
  OBVIOUS
<1>5. PICK ta :
        ta = [v \in Workflows |-> IF v \in C \ {w} THEN NoTask
                                  ELSE IF v \in A /\ F.task[v] = NoTask THEN FreshTask
                                  ELSE F.task[v]]
  OBVIOUS
<1>6. T = [F EXCEPT !.status = st, !.history = hi, !.task = ta]
  BY <1>1, <1>3, <1>4, <1>5 DEF CloseDown, Asking
<1>7. st \in [Workflows -> Statuses]
  BY <1>2, <1>3 DEF Lanes, Statuses
<1>8. hi \in [Workflows -> Seq(Event)]
  <2>1. E("closed", 0) \in Event /\ E("cancel", 0) \in Event
    BY EventsTyped DEF EventTypes
  <2>2. \A v \in Workflows : F.history[v] \in Seq(Event)
    BY <1>2 DEF Lanes
  <2>3. \A v \in Workflows : hi[v] \in Seq(Event)
    BY <1>4, <2>1, <2>2, AppendProperties
  <2> QED BY <1>4, <2>3
<1>9. ta \in [Workflows -> Tasks]
  BY <1>2, <1>5, NoTaskTyped DEF Lanes
<1>10. /\ T \in Lanes /\ T.status = st /\ T.history = hi /\ T.task = ta
       /\ T.run = F.run /\ T.timers = F.timers /\ T.activities = F.activities
  BY <1>2, <1>6, <1>7, <1>8, <1>9 DEF Lanes
<1> QED BY <1>2, <1>3, <1>4, <1>5, <1>10

\* The first command of the parent that names the child.
LEMMA CommandOfIs ==
  ASSUME NEW w \in Workflows, Parent[w] \in Workflows, NEW c, c = CommandOf(w)
  PROVE  /\ c \in Nat /\ c \in 1 .. Len(Programs[Parent[w]]) /\ Programs[Parent[w]][c] = w
         /\ \A d \in 1 .. c - 1 : Programs[Parent[w]][d] # w
<1>1. PICK prog : prog = Programs[Parent[w]]
  OBVIOUS
<1>2. Len(prog) \in Nat
  BY <1>1, WorkflowAssumption, LenProperties
<1>3. PICK B : B = {d \in 1 .. Len(prog) : prog[d] = w}
  OBVIOUS
<1>4. \E b \in B : TRUE
  BY <1>1, <1>3, WorkflowAssumption
<1>5. B \in SUBSET Nat
  BY <1>2, <1>3
<1>6. PICK d \in B : \A k \in Nat : k < d => k \notin B
  BY <1>4, <1>5, Least
<1>7. \E m \in 1 .. Len(prog) : prog[m] = w /\ \A k \in 1 .. m - 1 : prog[k] # w
  <2>1. \A k \in 1 .. d - 1 : k \in Nat /\ k < d /\ k \in 1 .. Len(prog)
    BY <1>2, <1>3, <1>6
  <2> QED BY <1>3, <1>6, <2>1
<1>8. /\ c \in 1 .. Len(prog) /\ prog[c] = w
      /\ \A k \in 1 .. c - 1 : prog[k] # w
  BY <1>1, <1>7 DEF CommandOf
<1> QED BY <1>1, <1>2, <1>8

LEMMA CommandTyped ==
  ASSUME NEW w \in Workflows, w \notin Roots
  PROVE  Parent[w] \in Workflows /\ CommandOf(w) \in Nat
<1>1. Parent[w] \in Workflows
  BY WorkflowAssumption DEF Roots
<1> QED BY <1>1, CommandOfIs

\* What the parent of w is told when w closes.
News(w, status) == E(IF status = "COMPLETED" THEN "done" ELSE "failed", CommandOf(w))

LEMMA CloseIs ==
  ASSUME NEW S \in Lanes, NEW w \in Workflows, NEW status \in Statuses,
         NEW D, D = CloseDown(S, w, status)
  PROVE  \/ /\ w \notin Roots /\ Parent[w] \in Workflows /\ D.status[Parent[w]] = "RUNNING"
            /\ News(w, status) \in Event /\ News(w, status).type \in {"done", "failed"}
            /\ Close(S, w, status) = Wake(D, Parent[w], News(w, status))
         \/ Close(S, w, status) = D
<1>1. CASE w \notin Roots /\ D.status[Parent[w]] = "RUNNING"
  <2>1. Close(S, w, status) = Wake(D, Parent[w], News(w, status))
    BY <1>1 DEF Close, News
  <2>2. Parent[w] \in Workflows /\ CommandOf(w) \in Nat
    BY <1>1, CommandTyped
  <2>3. News(w, status) \in Event /\ News(w, status).type \in {"done", "failed"}
    BY <2>2, EventsTyped DEF News, EventTypes
  <2> QED BY <1>1, <2>1, <2>2, <2>3
<1>2. CASE ~(w \notin Roots /\ D.status[Parent[w]] = "RUNNING")
  BY <1>2 DEF Close
<1> QED BY <1>1, <1>2

LEMMA CloseTyped ==
  ASSUME NEW S \in Lanes, NEW w \in Workflows, NEW status \in Statuses
  PROVE  Close(S, w, status) \in Lanes
<1>1. PICK D : D = CloseDown(S, w, status)
  OBVIOUS
<1>2. D \in Lanes
  BY <1>1, CloseDownIs
<1>3. PICK T : T = Close(S, w, status)
  OBVIOUS
<1>4. CASE T = D
  BY <1>2, <1>3, <1>4
<1>5. CASE T # D
  <2>1. /\ Parent[w] \in Workflows /\ News(w, status) \in Event
        /\ T = Wake(D, Parent[w], News(w, status))
    BY <1>1, <1>3, <1>5, CloseIs
  <2>2. T \in Lanes
    BY <1>2, <2>1, WakeIs
  <2> QED BY <1>3, <2>2
<1> QED BY <1>4, <1>5

-----------------------------------------------------------------------------
(* The invariant of the lane *)

\* The history of a workflow that was not started is empty; one that runs has
\* events and no closing one; one that is over ends in its closing event.
Told(status, h) ==
  /\ status = "none" => h = <<>>
  /\ status = "RUNNING" => Len(h) >= 1 /\ \A i \in 1 .. Len(h) : h[i].type # "closed"
  /\ status \notin {"none", "RUNNING"} =>
       /\ Len(h) >= 1 /\ h[Len(h)].type = "closed"
       /\ \A i \in 1 .. Len(h) : h[i].type = "closed" => i = Len(h)

Asked(h) == \E i \in 1 .. Len(h) : h[i].type = "cancel"

\* There is work for running workflows only (but perhaps a task of those in X).
OnlyRunning(S, X) ==
  /\ \A w \in Workflows \ X : S.task[w] # NoTask => S.status[w] = "RUNNING"
  /\ \A t \in S.timers : S.status[t[1]] = "RUNNING"
  /\ \A a \in S.activities : S.status[a.workflow] = "RUNNING"

\* A child that outlives its parent was left alone, or asked to cancel; one that
\* continued as new has dropped the request.
Orphans(S) ==
  \A v \in Workflows :
    /\ S.status[v] = "RUNNING" /\ Parent[v] \in Workflows
    /\ S.status[Parent[v]] \notin {"none", "RUNNING"}
    => \/ policy = "ABANDON"
       \/ policy = "REQUEST_CANCEL" /\ (Asked(S.history[v]) \/ S.run[v] > 1)

\* A lane as a transaction leaves it, and in its course, with X the workflows that
\* are being closed or completed.
Good(S, X) ==
  /\ S \in Lanes
  /\ IsFiniteSet(S.timers) /\ IsFiniteSet(S.activities)
  /\ \A w \in Workflows : Told(S.status[w], S.history[w])
  /\ \A w \in Workflows : S.status[w] = "RUNNING" => S.run[w] >= 1
  /\ OnlyRunning(S, X)
  /\ Orphans(S)

\* Whoever holds a task in T held it in S, and has seen nothing but a beginning of
\* the history.
Keeps(S, T) ==
  \A w \in Workflows : T.task[w].token # NoWorker =>
    T.task[w].token = S.task[w].token /\ Len(T.history[w]) >= Len(S.history[w])

LEMMA KeepsTransitive ==
  ASSUME NEW S \in Lanes, NEW T \in Lanes, NEW U \in Lanes, Keeps(S, T), Keeps(T, U)
  PROVE  Keeps(S, U)
<1>1. \A w \in Workflows : /\ Len(S.history[w]) \in Nat /\ Len(T.history[w]) \in Nat
                           /\ Len(U.history[w]) \in Nat
  BY LenProperties DEF Lanes
<1> QED BY <1>1 DEF Keeps

LEMMA KeepsItself ==
  ASSUME NEW S \in Lanes
  PROVE  Keeps(S, S)
<1>1. \A w \in Workflows : Len(S.history[w]) \in Nat
  BY LenProperties DEF Lanes
<1> QED BY <1>1 DEF Keeps

LEMMA Grown ==
  ASSUME NEW h \in Seq(Event), NEW e \in Event, NEW g, g = Append(h, e)
  PROVE  /\ g \in Seq(Event) /\ Len(g) = Len(h) + 1 /\ Len(h) \in Nat
         /\ g[Len(h) + 1] = e
         /\ \A i \in 1 .. Len(h) : g[i] = h[i]
<1> QED BY AppendProperties, LenProperties

LEMMA ToldMore ==
  ASSUME NEW h \in Seq(Event), NEW e \in Event, e.type # "closed", Told("RUNNING", h)
  PROVE  Told("RUNNING", Append(h, e))
<1>1. PICK g : g = Append(h, e)
  OBVIOUS
<1>2. /\ Len(g) = Len(h) + 1 /\ Len(h) \in Nat /\ g[Len(h) + 1] = e
      /\ \A i \in 1 .. Len(h) : g[i] = h[i]
  BY <1>1, Grown
<1>3. \A i \in 1 .. Len(g) : i = Len(h) + 1 \/ i \in 1 .. Len(h)
  BY <1>2
<1>4. \A i \in 1 .. Len(g) : g[i].type # "closed"
  BY <1>2, <1>3 DEF Told
<1> QED BY <1>1, <1>2, <1>4 DEF Told

LEMMA ToldOver ==
  ASSUME NEW h \in Seq(Event), Told("RUNNING", h),
         NEW status \in Statuses \ {"none", "RUNNING"}
  PROVE  Told(status, Append(h, E("closed", 0)))
<1>1. PICK e : e = E("closed", 0)
  OBVIOUS
<1>2. e \in Event /\ e.type = "closed"
  BY <1>1, EventsTyped DEF EventTypes
<1>3. PICK g : g = Append(h, e)
  OBVIOUS
<1>4. /\ Len(g) = Len(h) + 1 /\ Len(h) \in Nat /\ g[Len(h) + 1] = e
      /\ \A i \in 1 .. Len(h) : g[i] = h[i]
  BY <1>2, <1>3, Grown
<1>5. \A i \in 1 .. Len(g) : i = Len(h) + 1 \/ i \in 1 .. Len(h)
  BY <1>4
<1>6. \A i \in 1 .. Len(g) : g[i].type = "closed" => i = Len(g)
  BY <1>4, <1>5 DEF Told
<1>7. Len(g) >= 1 /\ g[Len(g)].type = "closed"
  BY <1>2, <1>4
<1> QED BY <1>1, <1>3, <1>6, <1>7 DEF Told

LEMMA AskedMore ==
  ASSUME NEW h \in Seq(Event), NEW e \in Event, Asked(h) \/ e.type = "cancel"
  PROVE  Asked(Append(h, e))
<1>1. PICK g : g = Append(h, e)
  OBVIOUS
<1>2. /\ Len(g) = Len(h) + 1 /\ Len(h) \in Nat /\ g[Len(h) + 1] = e
      /\ \A i \in 1 .. Len(h) : g[i] = h[i]
  BY <1>1, Grown
<1>3. CASE e.type = "cancel"
  <2>1. Len(g) \in 1 .. Len(g)
    BY <1>2
  <2> QED BY <1>1, <1>2, <1>3, <2>1 DEF Asked
<1>4. CASE Asked(h)
  <2>1. PICK i \in 1 .. Len(h) : h[i].type = "cancel"
    BY <1>4 DEF Asked
  <2>2. i \in 1 .. Len(g) /\ g[i].type = "cancel"
    BY <1>2, <2>1
  <2> QED BY <1>1, <2>2 DEF Asked
<1> QED BY <1>3, <1>4

\* A running workflow gets an event and a task.
LEMMA WakeGood ==
  ASSUME NEW S, NEW X, Good(S, X), NEW w \in Workflows, S.status[w] = "RUNNING",
         NEW e \in Event, e.type # "closed", NEW T, T = Wake(S, w, e)
  PROVE  Good(T, X) /\ Keeps(S, T) /\ T.status = S.status
<1>1. S \in Lanes
  BY DEF Good
<1>2. /\ T \in Lanes
      /\ T.history[w] = Append(S.history[w], e)
      /\ T.task[w] = IF S.task[w] = NoTask THEN FreshTask ELSE S.task[w]
      /\ \A v \in Workflows \ {w} : T.history[v] = S.history[v] /\ T.task[v] = S.task[v]
      /\ T.status = S.status /\ T.run = S.run
      /\ T.timers = S.timers /\ T.activities = S.activities
  BY <1>1, WakeIs
<1>3. /\ T.history[w] = Append(S.history[w], e)
      /\ \A v \in Workflows : v # w => T.history[v] = S.history[v]
      /\ T.task[w] \in {FreshTask, S.task[w]}
      /\ \A v \in Workflows : v # w => T.task[v] = S.task[v]
      /\ \A v \in Workflows : S.history[v] \in Seq(Event)
  BY <1>1, <1>2 DEF Lanes
<1>4. \A v \in Workflows : Told(T.status[v], T.history[v])
  <2>1. SUFFICES ASSUME NEW v \in Workflows
                 PROVE  Told(T.status[v], T.history[v])
    OBVIOUS
  <2>2. Told(S.status[v], S.history[v])
    BY DEF Good
  <2>3. CASE v = w
    <3>1. Told("RUNNING", Append(S.history[w], e))
      BY <1>3, <2>2, <2>3, ToldMore
    <3> QED BY <1>2, <1>3, <2>3, <3>1
  <2>4. CASE v # w
    BY <1>2, <1>3, <2>2, <2>4
  <2> QED BY <2>3, <2>4
<1>5. OnlyRunning(T, X)
  BY <1>2, <1>3 DEF Good, OnlyRunning
<1>6. Orphans(T)
  <2>1. \A v \in Workflows : Asked(S.history[v]) => Asked(T.history[v])
    BY <1>3, AskedMore
  <2> QED BY <1>2, <2>1 DEF Good, Orphans
<1>7. Keeps(S, T)
  <2>1. \A v \in Workflows : Len(T.history[v]) >= Len(S.history[v])
    <3>1. Len(T.history[w]) >= Len(S.history[w])
      BY <1>3, Grown
    <3>2. \A v \in Workflows : Len(S.history[v]) \in Nat
      BY <1>3, LenProperties
    <3> QED BY <1>3, <3>1, <3>2
  <2> QED BY <1>3, <2>1 DEF Keeps, FreshTask
<1> QED BY <1>2, <1>4, <1>5, <1>6, <1>7 DEF Good

LEMMA FiniteParts ==
  ASSUME NEW A, IsFiniteSet(A), NEW B \in SUBSET A
  PROVE  IsFiniteSet(B)
BY FS_Subset

\* Closing w down, with the workflows that close with it; what may be left of w is
\* its task.
LEMMA CloseDownGood ==
  ASSUME NEW S, NEW X, Good(S, X), NEW w \in Workflows, S.status[w] = "RUNNING",
         policy \in ChildPolicies, NEW status \in Statuses \ {"none", "RUNNING"},
         NEW T, T = CloseDown(S, w, status)
  PROVE  /\ Good(T, X \cup {w}) /\ Keeps(S, T)
         /\ T.task[w] = S.task[w] /\ T.status[w] = status
         /\ \A v \in Roots \ {w} : T.status[v] = S.status[v]
<1>1. PICK C : C = ClosingWith(S, w)
  OBVIOUS
<1>2. PICK A : A = Asking(S, w)
  OBVIOUS
<1>3. S \in Lanes
  BY DEF Good
<1>4. /\ T \in Lanes
      /\ \A v \in Workflows : T.status[v] = IF v = w THEN status
           ELSE IF v \in C THEN "TERMINATED" ELSE S.status[v]
      /\ \A v \in Workflows : T.history[v] = IF v \in C THEN Append(S.history[v], E("closed", 0))
           ELSE IF v \in A THEN Append(S.history[v], E("cancel", 0)) ELSE S.history[v]
      /\ \A v \in Workflows : T.task[v] = IF v \in C \ {w} THEN NoTask
           ELSE IF v \in A /\ S.task[v] = NoTask THEN FreshTask ELSE S.task[v]
      /\ T.run = S.run
      /\ T.timers = {t \in S.timers : t[1] \notin C}
      /\ T.activities = {a \in S.activities : a.workflow \notin C}
  BY <1>1, <1>2, <1>3, CloseDownIs
<1>5. /\ C \subseteq Workflows /\ w \in C
      /\ \A v \in C : v # w => S.status[v] = "RUNNING" /\ Parent[v] \in Workflows
      /\ policy # "TERMINATE" => C = {w}
      /\ policy = "TERMINATE" => RunningChildren(S, C) \subseteq C
  BY <1>1, ClosingIs
<1>6. w \notin A /\ \A v \in A : v \in Workflows /\ S.status[v] = "RUNNING"
  BY <1>2 DEF Asking, RunningChildren
<1>7. \A v \in Workflows : S.history[v] \in Seq(Event)
  BY <1>3 DEF Lanes
<1>8. /\ E("closed", 0) \in Event /\ E("closed", 0).type = "closed"
      /\ E("cancel", 0) \in Event /\ E("cancel", 0).type = "cancel"
  BY EventsTyped DEF EventTypes
<1>9. \A v \in Workflows : Told(T.status[v], T.history[v])
  <2>1. SUFFICES ASSUME NEW v \in Workflows
                 PROVE  Told(T.status[v], T.history[v])
    OBVIOUS
  <2>2. Told(S.status[v], S.history[v])
    BY DEF Good
  <2>3. CASE v \in C
    <3>1. S.status[v] = "RUNNING" /\ T.status[v] \in Statuses \ {"none", "RUNNING"}
      BY <1>4, <1>5, <2>3 DEF Statuses
    <3>2. T.history[v] = Append(S.history[v], E("closed", 0))
      BY <1>4, <2>3
    <3> QED BY <1>7, <2>2, <3>1, <3>2, ToldOver
  <2>4. CASE v \notin C /\ v \in A
    <3>1. T.status[v] = "RUNNING" /\ S.status[v] = "RUNNING"
      BY <1>4, <1>5, <1>6, <2>4
    <3>2. T.history[v] = Append(S.history[v], E("cancel", 0))
      BY <1>4, <2>4
    <3>3. E("cancel", 0).type # "closed"
      BY <1>8
    <3> QED BY <1>7, <1>8, <2>2, <3>1, <3>2, <3>3, ToldMore
  <2>5. CASE v \notin C /\ v \notin A
    BY <1>4, <1>5, <2>2, <2>5
  <2> QED BY <2>3, <2>4, <2>5
<1>10. OnlyRunning(T, X \cup {w})
  <2>1. OnlyRunning(S, X)
    BY DEF Good
  <2>2. \A v \in Workflows \ (X \cup {w}) : T.task[v] # NoTask => T.status[v] = "RUNNING"
    BY <1>4, <1>5, <1>6, <2>1 DEF OnlyRunning
  <2>3. \A t \in T.timers : T.status[t[1]] = "RUNNING"
    <3>1. \A t \in S.timers : t[1] \in Workflows
      BY <1>3 DEF Lanes
    <3> QED BY <1>4, <1>5, <2>1, <3>1 DEF OnlyRunning
  <2>4. \A a \in T.activities : T.status[a.workflow] = "RUNNING"
    <3>1. \A a \in S.activities : a.workflow \in Workflows
      BY <1>3 DEF Lanes, Activities
    <3> QED BY <1>4, <1>5, <2>1, <3>1 DEF OnlyRunning
  <2> QED BY <2>2, <2>3, <2>4 DEF OnlyRunning
<1>11. Orphans(T)
  <2>1. SUFFICES ASSUME NEW v \in Workflows, T.status[v] = "RUNNING", Parent[v] \in Workflows,
                        T.status[Parent[v]] \notin {"none", "RUNNING"}, policy # "ABANDON"
                 PROVE  policy = "REQUEST_CANCEL" /\ (Asked(T.history[v]) \/ T.run[v] > 1)
    BY DEF Orphans
  <2>2. v \notin C /\ S.status[v] = "RUNNING"
    BY <1>4, <1>5, <2>1
  <2>3. Asked(S.history[v]) => Asked(T.history[v])
    BY <1>4, <1>7, <1>8, <2>2, AskedMore
  <2>4. CASE Parent[v] \notin C
    <3>1. S.status[Parent[v]] = T.status[Parent[v]]
      BY <1>4, <1>5, <2>1, <2>4
    <3>2. Orphans(S)
      BY DEF Good
    <3> QED BY <1>4, <2>1, <2>2, <2>3, <3>1, <3>2 DEF Orphans
  <2>5. CASE Parent[v] \in C
    <3>1. v \in RunningChildren(S, C)
      BY <2>2, <2>5 DEF RunningChildren
    <3>2. policy = "REQUEST_CANCEL" /\ C = {w}
      BY <1>5, <2>1, <2>2, <3>1, WorkflowAssumption
    <3>3. v \in A
      BY <1>2, <2>2, <3>1, <3>2, <1>5 DEF Asking
    <3>4. Asked(T.history[v])
      BY <1>4, <1>7, <1>8, <2>2, <3>3, AskedMore
    <3> QED BY <3>2, <3>4
  <2> QED BY <2>4, <2>5
<1>12. Keeps(S, T)
  <2>1. \A v \in Workflows : Len(T.history[v]) >= Len(S.history[v])
    <3>1. SUFFICES ASSUME NEW v \in Workflows
                   PROVE  Len(T.history[v]) >= Len(S.history[v])
      OBVIOUS
    <3>2. Len(S.history[v]) \in Nat
      BY <1>7, LenProperties
    <3>3. \/ T.history[v] = S.history[v]
          \/ T.history[v] = Append(S.history[v], E("closed", 0))
          \/ T.history[v] = Append(S.history[v], E("cancel", 0))
      BY <1>4
    <3> QED BY <1>7, <1>8, <3>2, <3>3, Grown
  <2>2. \A v \in Workflows : T.task[v].token # NoWorker => T.task[v] = S.task[v]
    <3>1. NoTask.token = NoWorker /\ FreshTask.token = NoWorker
      BY DEF NoTask, FreshTask
    <3> QED BY <1>4, <3>1
  <2> QED BY <2>1, <2>2 DEF Keeps
<1>13. \A v \in Workflows : T.status[v] = "RUNNING" => T.run[v] >= 1
  <2>1. \A v \in Workflows : T.status[v] = "RUNNING" => S.status[v] = "RUNNING"
    BY <1>4
  <2> QED BY <1>4, <2>1 DEF Good
<1>14. IsFiniteSet(T.timers) /\ IsFiniteSet(T.activities)
  <2>1. T.timers \in SUBSET S.timers /\ T.activities \in SUBSET S.activities
    BY <1>4
  <2> QED BY <2>1, FiniteParts DEF Good
<1>15. T.task[w] = S.task[w] /\ T.status[w] = status
  BY <1>4, <1>6
<1>16. \A v \in Roots \ {w} : T.status[v] = S.status[v]
  BY <1>4, <1>5, WorkflowAssumption DEF Roots
<1> QED BY <1>4, <1>9, <1>10, <1>11, <1>12, <1>13, <1>14, <1>15, <1>16 DEF Good

LEMMA CloseGood ==
  ASSUME NEW S, NEW X, Good(S, X), NEW w \in Workflows, S.status[w] = "RUNNING",
         policy \in ChildPolicies, NEW status \in Statuses \ {"none", "RUNNING"},
         NEW T, T = Close(S, w, status)
  PROVE  /\ Good(T, X \cup {w}) /\ Keeps(S, T)
         /\ T.task[w] = S.task[w] /\ T.status[w] = status
         /\ \A v \in Roots \ {w} : T.status[v] = S.status[v]
<1>1. PICK D : D = CloseDown(S, w, status)
  OBVIOUS
<1>2. /\ Good(D, X \cup {w}) /\ Keeps(S, D)
      /\ D.task[w] = S.task[w] /\ D.status[w] = status
      /\ \A v \in Roots \ {w} : D.status[v] = S.status[v]
  BY <1>1, CloseDownGood, SMTT(60)
<1>3. CASE T = D
  BY <1>2, <1>3
<1>4. CASE T # D
  <2>1. S \in Lanes /\ D \in Lanes
    BY <1>2 DEF Good
  <2>2. PICK p, e : p = Parent[w] /\ e = News(w, status)
    OBVIOUS
  <2>3. /\ p \in Workflows /\ D.status[p] = "RUNNING"
        /\ e \in Event /\ e.type \in {"done", "failed"}
        /\ T = Wake(D, p, e)
    BY <1>1, <1>4, <2>1, <2>2, CloseIs
  <2>4. Good(T, X \cup {w}) /\ Keeps(D, T) /\ T.status = D.status
    <3>1. e.type # "closed"
      BY <2>3
    <3> QED BY <1>2, <2>3, <3>1, WakeGood
  <2>5. p # w
    BY <1>2, <2>3
  <2>6. T.task[w] = D.task[w]
    BY <2>1, <2>3, <2>5, WakeIs
  <2>7. Keeps(S, T)
    <3>1. T \in Lanes
      BY <2>4 DEF Good
    <3> QED BY <1>2, <2>1, <2>4, <3>1, KeepsTransitive
  <2> QED BY <1>2, <2>4, <2>6, <2>7
<1> QED BY <1>3, <1>4

LEMMA DropTaskGood ==
  ASSUME NEW S, NEW X, NEW w \in Workflows, Good(S, X \cup {w}),
         NEW T, T = DropTask(S, w)
  PROVE  /\ Good(T, X) /\ Keeps(S, T)
         /\ T.task[w] = NoTask /\ T.status = S.status /\ T.history = S.history /\ T.run = S.run
<1>1. S \in Lanes
  BY DEF Good
<1>2. /\ T \in Lanes
      /\ T.task = [S.task EXCEPT ![w] = NoTask]
      /\ T.status = S.status /\ T.run = S.run /\ T.history = S.history
      /\ T.timers = S.timers /\ T.activities = S.activities
  BY <1>1, DropTaskIs
<1>3. T.task[w] = NoTask /\ \A v \in Workflows : v # w => T.task[v] = S.task[v]
  BY <1>1, <1>2 DEF Lanes
<1>4. OnlyRunning(T, X)
  BY <1>2, <1>3 DEF Good, OnlyRunning
<1>5. Orphans(T)
  BY <1>2 DEF Good, Orphans
<1>6. Keeps(S, T)
  <2>1. \A v \in Workflows : Len(S.history[v]) \in Nat
    BY <1>1, LenProperties DEF Lanes
  <2> QED BY <1>2, <1>3, <2>1 DEF Keeps, NoTask
<1> QED BY <1>2, <1>3, <1>4, <1>5, <1>6 DEF Good

LEMMA GoodEnough ==
  ASSUME NEW S, NEW X, NEW w \in Workflows, Good(S, X \cup {w}), S.task[w] = NoTask
  PROVE  Good(S, X)
BY DEF Good, OnlyRunning

LEMMA GoodAtLeast ==
  ASSUME NEW S, NEW X, Good(S, {})
  PROVE  Good(S, X)
BY DEF Good, OnlyRunning

\* The history of a running workflow grows.
Extends(g, h) ==
  g \in Seq(Event) /\ Told("RUNNING", g) /\ Len(g) >= Len(h) /\ (Asked(h) => Asked(g))

LEMMA HistoryGood ==
  ASSUME NEW S, NEW X, Good(S, X), NEW w \in Workflows, S.status[w] = "RUNNING",
         NEW g, Extends(g, S.history[w]),
         NEW T \in Lanes, T.history[w] = g,
         \A v \in Workflows \ {w} : T.history[v] = S.history[v],
         T.status = S.status, T.run = S.run, T.task = S.task,
         T.timers = S.timers, T.activities = S.activities
  PROVE  Good(T, X) /\ Keeps(S, T)
<1>1. S \in Lanes
  BY DEF Good
<1>2. T.history[w] = g /\ \A v \in Workflows : v # w => T.history[v] = S.history[v]
  OBVIOUS
<1>3. \A v \in Workflows : Told(T.status[v], T.history[v])
  BY <1>2 DEF Good, Extends
<1>4. OnlyRunning(T, X)
  BY DEF Good, OnlyRunning
<1>5. Orphans(T)
  BY <1>2 DEF Good, Orphans, Extends
<1>6. Keeps(S, T)
  <2>1. \A v \in Workflows : Len(S.history[v]) \in Nat
    BY <1>1, LenProperties DEF Lanes
  <2> QED BY <1>2, <2>1 DEF Keeps, Extends
<1> QED BY <1>2, <1>3, <1>4, <1>5, <1>6 DEF Good

LEMMA AppendEventGood ==
  ASSUME NEW S, NEW X, Good(S, X), NEW w \in Workflows, S.status[w] = "RUNNING",
         NEW e \in Event, e.type # "closed", NEW T, T = AppendEvent(S, w, e)
  PROVE  Good(T, X) /\ Keeps(S, T) /\ T.status = S.status
<1>1. S \in Lanes
  BY DEF Good
<1>2. /\ T \in Lanes
      /\ T.history = [S.history EXCEPT ![w] = Append(@, e)]
      /\ T.status = S.status /\ T.run = S.run /\ T.task = S.task
      /\ T.timers = S.timers /\ T.activities = S.activities
  BY <1>1, AppendEventIs
<1>3. PICK h, g : h = S.history[w] /\ g = Append(h, e)
  OBVIOUS
<1>4. /\ h \in Seq(Event) /\ Told("RUNNING", h) /\ T.history[w] = g
      /\ \A v \in Workflows \ {w} : T.history[v] = S.history[v]
  BY <1>1, <1>2, <1>3 DEF Lanes, Good
<1>5. g \in Seq(Event) /\ Len(g) >= Len(h)
  BY <1>3, <1>4, Grown
<1>6. Told("RUNNING", g) /\ (Asked(h) => Asked(g))
  BY <1>3, <1>4, ToldMore, AskedMore
<1>7. Extends(g, S.history[w])
  BY <1>3, <1>5, <1>6 DEF Extends
<1>8. Good(T, X) /\ Keeps(S, T)
  BY <1>2, <1>4, <1>7, HistoryGood, ZenonT(60)
<1> QED BY <1>2, <1>8

LEMMA EnqueueGood ==
  ASSUME NEW S, NEW X, Good(S, X), NEW w \in Workflows, S.status[w] = "RUNNING",
         NEW T, T = Enqueue(S, w)
  PROVE  Good(T, X) /\ Keeps(S, T)
<1>1. S \in Lanes
  BY DEF Good
<1>2. /\ T \in Lanes
      /\ T.task = [S.task EXCEPT ![w] = IF @ = NoTask THEN FreshTask ELSE @]
      /\ T.status = S.status /\ T.run = S.run /\ T.history = S.history
      /\ T.timers = S.timers /\ T.activities = S.activities
  BY <1>1, EnqueueIs
<1>3. /\ T.task[w] \in {FreshTask, S.task[w]}
      /\ \A v \in Workflows : v # w => T.task[v] = S.task[v]
  BY <1>1, <1>2 DEF Lanes
<1>4. OnlyRunning(T, X)
  BY <1>2, <1>3 DEF Good, OnlyRunning
<1>5. Orphans(T)
  BY <1>2 DEF Good, Orphans
<1>6. Keeps(S, T)
  <2>1. \A v \in Workflows : Len(S.history[v]) \in Nat
    BY <1>1, LenProperties DEF Lanes
  <2> QED BY <1>2, <1>3, <2>1 DEF Keeps, FreshTask
<1> QED BY <1>2, <1>4, <1>5, <1>6 DEF Good

\* A workflow's task is given to somebody, or made anew.
LEMMA TaskGood ==
  ASSUME NEW S, NEW X, Good(S, X), NEW w \in Workflows, S.status[w] = "RUNNING",
         NEW t \in Tasks, NEW T, T = WithTask(S, w, t)
  PROVE  /\ Good(T, X)
         /\ T.task = [S.task EXCEPT ![w] = t] /\ T.history = S.history /\ T.status = S.status
         /\ T.timers = S.timers /\ T.activities = S.activities /\ T.run = S.run
<1>1. S \in Lanes
  BY DEF Good
<1>2. /\ T \in Lanes
      /\ T.task = [S.task EXCEPT ![w] = t]
      /\ T.status = S.status /\ T.run = S.run /\ T.history = S.history
      /\ T.timers = S.timers /\ T.activities = S.activities
  BY <1>1 DEF Lanes, WithTask
<1>3. \A v \in Workflows : v # w => T.task[v] = S.task[v]
  BY <1>1, <1>2 DEF Lanes
<1>4. OnlyRunning(T, X)
  BY <1>2, <1>3 DEF Good, OnlyRunning
<1>5. Orphans(T)
  BY <1>2 DEF Good, Orphans
<1> QED BY <1>2, <1>4, <1>5 DEF Good

-----------------------------------------------------------------------------
(* What a completed task does *)

LEMMA FirstEvent ==
  ASSUME NEW e \in Event, e.type # "closed"
  PROVE  Append(<<>>, e) \in Seq(Event) /\ Told("RUNNING", Append(<<>>, e))
<1>1. PICK h, g : h = <<>> /\ g = Append(h, e)
  OBVIOUS
<1>2. h \in Seq(Event) /\ Len(h) = 0
  BY <1>1
<1>3. g \in Seq(Event) /\ Len(g) = 1 /\ g[1] = e
  BY <1>1, <1>2, Grown
<1>4. \A i \in 1 .. Len(g) : i = 1
  BY <1>3
<1> QED BY <1>1, <1>3, <1>4 DEF Told

LEMMA StartIs ==
  ASSUME NEW S \in Lanes, NEW v \in Workflows, NEW T, T = Start(S, v),
         NEW e, e = E("started", 1)
  PROVE  /\ T \in Lanes /\ e \in Event
         /\ T.history[v] = Append(S.history[v], e)
         /\ T.task[v] = IF S.task[v] = NoTask THEN FreshTask ELSE S.task[v]
         /\ T.status[v] = "RUNNING" /\ T.run[v] = 1
         /\ \A w \in Workflows \ {v} : /\ T.history[w] = S.history[w] /\ T.task[w] = S.task[w]
                                       /\ T.status[w] = S.status[w] /\ T.run[w] = S.run[w]
         /\ T.timers = S.timers /\ T.activities = S.activities
<1>1. PICK R : R = [S EXCEPT !.status[v] = "RUNNING", !.run[v] = 1]
  OBVIOUS
<1>2. /\ R \in Lanes
      /\ R.status = [S.status EXCEPT ![v] = "RUNNING"]
      /\ R.run = [S.run EXCEPT ![v] = 1]
      /\ R.history = S.history /\ R.task = S.task
      /\ R.timers = S.timers /\ R.activities = S.activities
  BY <1>1 DEF Lanes, Statuses
<1>3. e \in Event /\ T = Wake(R, v, e)
  BY <1>1, EventsTyped DEF Start, EventTypes
<1>4. /\ T \in Lanes
      /\ T.history[v] = Append(R.history[v], e)
      /\ T.task[v] = IF R.task[v] = NoTask THEN FreshTask ELSE R.task[v]
      /\ \A w \in Workflows \ {v} : T.history[w] = R.history[w] /\ T.task[w] = R.task[w]
      /\ T.status = R.status /\ T.run = R.run
      /\ T.timers = R.timers /\ T.activities = R.activities
  BY <1>2, <1>3, WakeIs, SMTT(30)
<1>5. /\ T.status[v] = "RUNNING" /\ T.run[v] = 1
      /\ \A w \in Workflows \ {v} : T.status[w] = S.status[w] /\ T.run[w] = S.run[w]
  BY <1>2, <1>4 DEF Lanes
<1> QED BY <1>2, <1>3, <1>4, <1>5

\* A workflow that was not started begins to run; its parent, if it has one, runs.
LEMMA StartGood ==
  ASSUME NEW S, NEW X, Good(S, X), NEW v \in Workflows, S.status[v] = "none",
         Parent[v] \notin Workflows \/ S.status[Parent[v]] = "RUNNING",
         NEW T, T = Start(S, v)
  PROVE  Good(T, X) /\ Keeps(S, T) /\ \A w \in Workflows : S.status[w] = "RUNNING" => T.status[w] = "RUNNING"
<1>1. S \in Lanes
  BY DEF Good
<1>2. PICK e : e = E("started", 1)
  OBVIOUS
<1>3. e \in Event /\ e.type # "closed"
  BY <1>2, EventsTyped DEF EventTypes
<1>4. T.history[v] = Append(S.history[v], e)
  BY <1>1, <1>2, StartIs
<1>5. /\ T \in Lanes
      /\ T.task[v] = IF S.task[v] = NoTask THEN FreshTask ELSE S.task[v]
      /\ \A w \in Workflows \ {v} : T.history[w] = S.history[w] /\ T.task[w] = S.task[w]
      /\ T.timers = S.timers /\ T.activities = S.activities
  BY <1>1, StartIs
<1>6. /\ T.status[v] = "RUNNING" /\ T.run[v] = 1
      /\ \A w \in Workflows \ {v} : T.status[w] = S.status[w] /\ T.run[w] = S.run[w]
  BY <1>1, StartIs
<1>7. S.history[v] = <<>>
  BY DEF Good, Told
<1>8. \A w \in Workflows : Told(T.status[w], T.history[w])
  <2>1. Told(T.status[v], T.history[v])
    BY <1>3, <1>4, <1>5, <1>6, <1>7, FirstEvent
  <2>2. \A w \in Workflows \ {v} : Told(T.status[w], T.history[w])
    BY <1>3, <1>5, <1>6 DEF Good
  <2> QED BY <2>1, <2>2
<1>9. OnlyRunning(T, X)
  <2>1. \A w \in Workflows \ X : T.task[w] # NoTask => T.status[w] = "RUNNING"
    BY <1>3, <1>5, <1>6 DEF Good, OnlyRunning
  <2>2. \A t \in T.timers : T.status[t[1]] = "RUNNING"
    <3>1. \A t \in S.timers : t[1] \in Workflows
      BY <1>1 DEF Lanes
    <3> QED BY <1>3, <1>5, <1>6, <3>1 DEF Good, OnlyRunning
  <2>3. \A a \in T.activities : T.status[a.workflow] = "RUNNING"
    <3>1. \A a \in S.activities : a.workflow \in Workflows
      BY <1>1 DEF Lanes, Activities
    <3> QED BY <1>3, <1>5, <1>6, <3>1 DEF Good, OnlyRunning
  <2> QED BY <2>1, <2>2, <2>3 DEF OnlyRunning
<1>10. Orphans(T)
  <2>1. SUFFICES ASSUME NEW w \in Workflows, T.status[w] = "RUNNING", Parent[w] \in Workflows,
                        T.status[Parent[w]] \notin {"none", "RUNNING"}
                 PROVE  \/ policy = "ABANDON"
                        \/ policy = "REQUEST_CANCEL" /\ (Asked(T.history[w]) \/ T.run[w] > 1)
    BY DEF Orphans
  <2>2. Parent[w] # v /\ S.status[Parent[w]] \notin {"none", "RUNNING"}
    BY <1>6, <2>1
  <2>3. w # v
    BY <2>1, <2>2
  <2>4. S.status[w] = "RUNNING" /\ T.history[w] = S.history[w] /\ T.run[w] = S.run[w]
    BY <1>3, <1>5, <1>6, <2>1, <2>3
  <2> QED BY <2>1, <2>2, <2>4 DEF Good, Orphans
<1>11. Keeps(S, T)
  <2>1. \A w \in Workflows : Len(S.history[w]) \in Nat
    BY <1>1, LenProperties DEF Lanes
  <2>2. Len(T.history[v]) >= Len(S.history[v])
    <3>1. S.history[v] \in Seq(Event)
      BY <1>1 DEF Lanes
    <3> QED BY <1>3, <1>4, <1>5, <3>1, Grown
  <2>3. T.task[v].token # NoWorker => T.task[v] = S.task[v]
    BY <1>3, <1>5 DEF FreshTask
  <2> QED BY <1>3, <1>5, <2>1, <2>2, <2>3 DEF Keeps
<1>12. \A w \in Workflows : T.status[w] = "RUNNING" => T.run[w] >= 1
  BY <1>6 DEF Good
<1>13. IsFiniteSet(T.timers) /\ IsFiniteSet(T.activities)
  BY <1>3, <1>5 DEF Good
<1>14. \A w \in Workflows : S.status[w] = "RUNNING" => T.status[w] = "RUNNING"
  BY <1>6
<1> QED BY <1>5, <1>8, <1>9, <1>10, <1>11, <1>12, <1>13, <1>14 DEF Good

LEMMA ForgetGood ==
  ASSUME NEW S, NEW X, Good(S, X), NEW w, NEW T, T = Forget(S, {w})
  PROVE  Good(T, X)
<1>1. S \in Lanes
  BY DEF Good
<1>2. /\ T \in Lanes
      /\ T.timers = {t \in S.timers : t[1] \notin {w}}
      /\ T.activities = {a \in S.activities : a.workflow \notin {w}}
      /\ T.status = S.status /\ T.run = S.run /\ T.history = S.history /\ T.task = S.task
  BY <1>1, ForgetIs
<1>3. IsFiniteSet(T.timers) /\ IsFiniteSet(T.activities)
  <2>1. T.timers \in SUBSET S.timers /\ T.activities \in SUBSET S.activities
    BY <1>2
  <2> QED BY <2>1, FiniteParts DEF Good
<1>4. OnlyRunning(T, X)
  BY <1>2 DEF Good, OnlyRunning
<1>5. Orphans(T)
  BY <1>2 DEF Good, Orphans
<1> QED BY <1>2, <1>3, <1>4, <1>5 DEF Good

LEMMA ContinueIs ==
  ASSUME NEW S \in Lanes, NEW w \in Workflows, NEW T, T = ContinueAsNew(S, w),
         NEW e, e = E("started", S.run[w] + 1)
  PROVE  /\ T \in Lanes /\ e \in Event
         /\ T.history[w] = Append(<<>>, e) /\ T.run[w] = S.run[w] + 1
         /\ T.task[w] = IF S.task[w] = NoTask THEN FreshTask ELSE S.task[w]
         /\ \A v \in Workflows \ {w} : /\ T.history[v] = S.history[v] /\ T.task[v] = S.task[v]
                                       /\ T.run[v] = S.run[v]
         /\ T.status = S.status
         /\ T.timers = {t \in S.timers : t[1] \notin {w}}
         /\ T.activities = {a \in S.activities : a.workflow \notin {w}}
<1>1. PICK F : F = Forget(S, {w})
  OBVIOUS
<1>2. /\ F \in Lanes
      /\ F.timers = {t \in S.timers : t[1] \notin {w}}
      /\ F.activities = {a \in S.activities : a.workflow \notin {w}}
      /\ F.status = S.status /\ F.run = S.run /\ F.history = S.history /\ F.task = S.task
  BY <1>1, ForgetIs
<1>3. PICK R : R = [F EXCEPT !.history[w] = <<>>, !.run[w] = @ + 1]
  OBVIOUS
<1>4. /\ R \in Lanes
      /\ R.history[w] = <<>> /\ R.run[w] = S.run[w] + 1
      /\ \A v \in Workflows \ {w} : R.history[v] = S.history[v] /\ R.run[v] = S.run[v]
      /\ R.status = F.status /\ R.task = F.task
      /\ R.timers = F.timers /\ R.activities = F.activities
  <2>1. PICK hi, ru : /\ hi = [F.history EXCEPT ![w] = <<>>]
                      /\ ru = [F.run EXCEPT ![w] = @ + 1]
    OBVIOUS
  <2>2. hi \in [Workflows -> Seq(Event)] /\ ru \in [Workflows -> Nat]
    BY <1>2, <2>1 DEF Lanes
  <2>3. R = [F EXCEPT !.history = hi, !.run = ru]
    BY <1>2, <1>3, <2>1 DEF Lanes
  <2>4. /\ R \in Lanes /\ R.history = hi /\ R.run = ru
        /\ R.status = F.status /\ R.task = F.task
        /\ R.timers = F.timers /\ R.activities = F.activities
    BY <1>2, <2>2, <2>3 DEF Lanes
  <2>5. /\ hi[w] = <<>> /\ ru[w] = F.run[w] + 1
        /\ \A v \in Workflows \ {w} : hi[v] = F.history[v] /\ ru[v] = F.run[v]
    BY <1>2, <2>1 DEF Lanes
  <2> QED BY <1>2, <2>4, <2>5
<1>5. S.run[w] \in Nat
  BY DEF Lanes
<1>6. e \in Event /\ T = Wake(R, w, e)
  BY <1>1, <1>3, <1>4, <1>5, EventsTyped DEF ContinueAsNew, EventTypes
<1>7. /\ T \in Lanes
      /\ T.history[w] = Append(R.history[w], e)
      /\ T.task[w] = IF R.task[w] = NoTask THEN FreshTask ELSE R.task[w]
      /\ \A v \in Workflows \ {w} : T.history[v] = R.history[v] /\ T.task[v] = R.task[v]
      /\ T.status = R.status /\ T.run = R.run
      /\ T.timers = R.timers /\ T.activities = R.activities
  BY <1>4, <1>6, WakeIs
<1> QED BY <1>2, <1>4, <1>6, <1>7

\* A workflow whose task is done begins its next run.
LEMMA ContinueGood ==
  ASSUME NEW S, NEW X, Good(S, X), NEW w \in Workflows, S.status[w] = "RUNNING",
         S.task[w] = NoTask, NEW T, T = ContinueAsNew(S, w)
  PROVE  Good(T, X) /\ Keeps(S, T) /\ T.status = S.status
<1>1. S \in Lanes
  BY DEF Good
<1>2. PICK F : F = Forget(S, {w})
  OBVIOUS
<1>3. /\ Good(F, X) /\ F.status = S.status
      /\ F.timers = {t \in S.timers : t[1] \notin {w}}
      /\ F.activities = {a \in S.activities : a.workflow \notin {w}}
  <2>1. Good(F, X)
    BY <1>2, ForgetGood
  <2> QED BY <1>1, <1>2, <2>1, ForgetIs
<1>4. PICK e : e = E("started", S.run[w] + 1)
  OBVIOUS
<1>5. S.run[w] \in Nat /\ S.run[w] >= 1
  BY <1>1 DEF Good, Lanes
<1>6. e \in Event /\ e.type # "closed"
  BY <1>4, <1>5, EventsTyped DEF EventTypes
<1>7. /\ T \in Lanes
      /\ T.history[w] = Append(<<>>, e) /\ T.run[w] = S.run[w] + 1
      /\ T.task[w] = IF S.task[w] = NoTask THEN FreshTask ELSE S.task[w]
      /\ \A v \in Workflows \ {w} : /\ T.history[v] = S.history[v] /\ T.task[v] = S.task[v]
                                    /\ T.run[v] = S.run[v]
      /\ T.status = S.status
      /\ T.timers = {t \in S.timers : t[1] \notin {w}}
      /\ T.activities = {a \in S.activities : a.workflow \notin {w}}
  BY <1>1, <1>4, ContinueIs
<1>8. T.task[w] = FreshTask /\ T.run[w] > 1
  BY <1>5, <1>7
<1>9. T.timers = F.timers /\ T.activities = F.activities
  BY <1>3, <1>7
<1>10. \A v \in Workflows : Told(T.status[v], T.history[v])
  <2>1. Told(T.status[w], T.history[w])
    BY <1>6, <1>7, FirstEvent
  <2>2. \A v \in Workflows \ {w} : Told(T.status[v], T.history[v])
    BY <1>7 DEF Good
  <2> QED BY <2>1, <2>2
<1>11. OnlyRunning(T, X)
  BY <1>3, <1>7, <1>9 DEF Good, OnlyRunning
<1>12. Orphans(T)
  BY <1>7, <1>8 DEF Good, Orphans
<1>13. Keeps(S, T)
  <2>1. \A v \in Workflows : Len(S.history[v]) \in Nat
    BY <1>1, LenProperties DEF Lanes
  <2> QED BY <1>7, <1>8, <2>1 DEF Keeps, FreshTask
<1>14. \A v \in Workflows : T.status[v] = "RUNNING" => T.run[v] >= 1
  BY <1>5, <1>7 DEF Good
<1>15. IsFiniteSet(T.timers) /\ IsFiniteSet(T.activities)
  BY <1>3, <1>9 DEF Good
<1> QED BY <1>7, <1>10, <1>11, <1>12, <1>13, <1>14, <1>15 DEF Good

\* What the code's next command can be: an activity, a timer or a child of w.
LEMMA CommandIs ==
  ASSUME NEW w \in Workflows, NEW c \in 1 .. Len(Programs[w])
  PROVE  /\ c \in Nat
         /\ \/ Programs[w][c] = "activity" /\ "activity" # "timer"
            \/ Programs[w][c] = "timer" /\ "timer" # "activity"
            \/ /\ Programs[w][c] \in Workflows /\ Parent[Programs[w][c]] = w
               /\ Programs[w][c] \notin {"activity", "timer"}
<1>1. Programs[w] \in Seq({"activity", "timer"} \cup Workflows)
  BY WorkflowAssumption
<1>2. Len(Programs[w]) \in Nat /\ Programs[w][c] \in {"activity", "timer"} \cup Workflows
  BY <1>1, LenProperties, ElementOfSeq
<1>3. ASSUME Programs[w][c] \in Workflows
      PROVE  /\ Parent[Programs[w][c]] = w
             /\ Programs[w][c] \notin {"activity", "timer"}
  BY <1>3, WorkflowAssumption
<1> QED BY <1>2, <1>3

LEMMA ScheduleGood ==
  ASSUME NEW S, NEW X, Good(S, X), NEW w \in Workflows, S.status[w] = "RUNNING",
         NEW c \in 1 .. Len(Programs[w]),
         Programs[w][c] \in Workflows => S.status[Programs[w][c]] = "none",
         NEW T, T = Schedule(S, w, c)
  PROVE  /\ Good(T, X) /\ Keeps(S, T)
         /\ \A v \in Workflows : S.status[v] = "RUNNING" => T.status[v] = "RUNNING"
<1>1. S \in Lanes
  BY DEF Good
<1>2. PICK A, e : e = E("scheduled", c) /\ A = AppendEvent(S, w, e)
  OBVIOUS
<1>3. c \in Nat
  BY CommandIs
<1>4. e \in Event /\ e.type # "closed"
  BY <1>2, <1>3, EventsTyped DEF EventTypes
<1>5. /\ A \in Lanes /\ A.status = S.status /\ A.history = [S.history EXCEPT ![w] = Append(@, e)]
      /\ A.run = S.run /\ A.task = S.task
      /\ A.timers = S.timers /\ A.activities = S.activities
  BY <1>1, <1>2, <1>4, AppendEventIs
<1>6. Good(A, X) /\ Keeps(S, A)
  BY <1>2, <1>4, AppendEventGood
<1>7. CASE Programs[w][c] = "timer"
  <2>1. T = [A EXCEPT !.timers = @ \cup {<<w, c>>}]
    BY <1>2, <1>7 DEF Schedule
  <2>2. /\ T \in Lanes /\ T.status = A.status /\ T.history = A.history /\ T.run = A.run
        /\ T.task = A.task /\ T.activities = A.activities
        /\ T.timers = A.timers \cup {<<w, c>>}
    <3>1. PICK ts : ts = A.timers \cup {<<w, c>>}
      OBVIOUS
    <3>2. ts \in SUBSET (Workflows \X Nat) /\ T = WithTimers(A, ts)
      BY <1>3, <1>5, <2>1, <3>1 DEF Lanes, WithTimers
    <3> QED BY <1>5, <3>1, <3>2, TimersAre
  <2>3. IsFiniteSet(T.timers)
    BY <1>6, <2>2, FS_AddElement DEF Good
  <2>4. OnlyRunning(T, X)
    BY <1>5, <1>6, <2>2 DEF Good, OnlyRunning
  <2>5. Orphans(T)
    BY <1>6, <2>2 DEF Good, Orphans
  <2>6. Good(T, X)
    BY <1>6, <2>2, <2>3, <2>4, <2>5 DEF Good
  <2>7. Keeps(S, T)
    BY <1>6, <2>2 DEF Keeps
  <2> QED BY <1>5, <2>2, <2>6, <2>7
<1>8. CASE Programs[w][c] = "activity"
  <2>1. PICK a : a = [workflow |-> w, command |-> c, attempt |-> 1, lease |-> "none", token |-> NoWorker]
    OBVIOUS
  <2>2. a \in Activities /\ a.workflow = w
    BY <1>3, <2>1, WorkflowAssumption DEF Activities, Leases
  <2>3. T = [A EXCEPT !.activities = @ \cup {a}]
    BY <1>2, <1>8, <2>1, CommandIs DEF Schedule
  <2>4. /\ T \in Lanes /\ T.status = A.status /\ T.history = A.history /\ T.run = A.run
        /\ T.task = A.task /\ T.timers = A.timers
        /\ T.activities = A.activities \cup {a}
    <3>1. PICK acts : acts = A.activities \cup {a}
      OBVIOUS
    <3>2. acts \in SUBSET Activities /\ T = WithActivities(A, acts)
      BY <1>5, <2>2, <2>3, <3>1 DEF Lanes, WithActivities
    <3> QED BY <1>5, <3>1, <3>2, ActivitiesAre
  <2>5. IsFiniteSet(T.activities)
    BY <1>6, <2>4, FS_AddElement DEF Good
  <2>6. OnlyRunning(T, X)
    BY <1>5, <1>6, <2>2, <2>4 DEF Good, OnlyRunning
  <2>7. Orphans(T)
    BY <1>6, <2>4 DEF Good, Orphans
  <2>8. Good(T, X)
    BY <1>6, <2>4, <2>5, <2>6, <2>7 DEF Good
  <2>9. Keeps(S, T)
    BY <1>6, <2>4 DEF Keeps
  <2> QED BY <1>5, <2>4, <2>8, <2>9
<1>9. CASE Programs[w][c] \notin {"timer", "activity"}
  <2>1. PICK v : v = Programs[w][c]
    OBVIOUS
  <2>2. v \in Workflows /\ Parent[v] = w /\ A.status[v] = "none" /\ A.status[w] = "RUNNING"
    BY <1>5, <1>9, <2>1, CommandIs
  <2>3. T = Start(A, v)
    BY <1>2, <1>9, <2>1 DEF Schedule
  <2>4. /\ Good(T, X) /\ Keeps(A, T)
        /\ \A u \in Workflows : A.status[u] = "RUNNING" => T.status[u] = "RUNNING"
    BY <1>6, <2>2, <2>3, StartGood
  <2>5. T \in Lanes
    BY <2>4 DEF Good
  <2>6. Keeps(S, T)
    BY <1>1, <1>5, <1>6, <2>4, <2>5, KeepsTransitive
  <2> QED BY <1>5, <2>4, <2>6
<1> QED BY <1>7, <1>8, <1>9

Updated == {e \in Event : e.type = "updated"}

Decisions(w) ==
  {d \in [type : {"none", "complete", "fail", "cancelled", "continue", "schedule"}, command : Nat] :
     d.type = "schedule" => d.command \in 1 .. Len(Programs[w])}

Answers(w) == [ok : BOOLEAN, updates : Seq(Updated), decision : Decisions(w)]

LEMMA UpdatesExtend ==
  ASSUME NEW h \in Seq(Event), Told("RUNNING", h), NEW u \in Seq(Updated)
  PROVE  Extends(h \o u, h)
<1>1. PICK g : g = h \o u
  OBVIOUS
<1>2. u \in Seq(Event) /\ Len(u) \in Nat /\ \A i \in 1 .. Len(u) : u[i].type = "updated"
  <2>1. \A i \in 1 .. Len(u) : u[i] \in Updated
    BY ElementOfSeq
  <2>2. u \in [1 .. Len(u) -> Updated] /\ Len(u) \in Nat
    BY LenProperties
  <2>3. u \in [1 .. Len(u) -> Event]
    BY <2>2 DEF Updated
  <2> QED BY <2>1, <2>2, <2>3 DEF Updated
<1>3. /\ g \in Seq(Event) /\ Len(g) = Len(h) + Len(u) /\ Len(h) \in Nat
      /\ \A i \in 1 .. Len(g) : g[i] = IF i <= Len(h) THEN h[i] ELSE u[i - Len(h)]
  BY <1>1, <1>2, ConcatProperties, LenProperties
<1>4. ASSUME NEW i \in 1 .. Len(g)
      PROVE  g[i].type # "closed"
  <2>1. CASE i <= Len(h)
    <3>1. i \in 1 .. Len(h) /\ g[i] = h[i]
      BY <1>3, <2>1
    <3> QED BY <3>1 DEF Told
  <2>2. CASE ~(i <= Len(h))
    <3>1. i - Len(h) \in 1 .. Len(u) /\ g[i] = u[i - Len(h)]
      BY <1>2, <1>3, <2>2
    <3> QED BY <1>2, <3>1
  <2> QED BY <2>1, <2>2
<1>5. Len(h) >= 1
  BY DEF Told
<1>6. Told("RUNNING", g)
  BY <1>2, <1>3, <1>4, <1>5 DEF Told
<1>7. Asked(h) => Asked(g)
  <2>1. \A i \in 1 .. Len(h) : i \in 1 .. Len(g) /\ g[i] = h[i]
    BY <1>2, <1>3
  <2> QED BY <2>1 DEF Asked
<1> QED BY <1>1, <1>2, <1>3, <1>6, <1>7 DEF Extends

\* The commands of a completed task are applied.
LEMMA ApplyGood ==
  ASSUME NEW S, Good(S, {}), NEW w \in Workflows, S.status[w] = "RUNNING",
         S.task[w] = NoTask, policy \in ChildPolicies, NEW answer \in Answers(w),
         ~ChildExists(S, w, answer.decision), NEW T, T = Apply(S, w, answer)
  PROVE  Good(T, {}) /\ Keeps(S, T)
<1>1. S \in Lanes
  BY DEF Good
<1>2. PICK h, g, d : h = S.history[w] /\ g = h \o answer.updates /\ d = answer.decision
  OBVIOUS
<1>3. h \in Seq(Event) /\ Told("RUNNING", h) /\ answer.updates \in Seq(Updated) /\ d \in Decisions(w)
  BY <1>1, <1>2 DEF Lanes, Good, Answers
<1>4. Extends(g, h)
  BY <1>2, <1>3, UpdatesExtend
<1>5. PICK U : U = [S EXCEPT !.history[w] = g]
  OBVIOUS
<1>6. /\ U \in Lanes /\ U.history[w] = g
      /\ \A v \in Workflows \ {w} : U.history[v] = S.history[v]
      /\ U.status = S.status /\ U.run = S.run /\ U.task = S.task
      /\ U.timers = S.timers /\ U.activities = S.activities
  <2>1. g \in Seq(Event)
    BY <1>4 DEF Extends
  <2>2. [S.history EXCEPT ![w] = g] \in [Workflows -> Seq(Event)]
    BY <1>1, <2>1 DEF Lanes
  <2> QED BY <1>1, <1>5, <2>2 DEF Lanes
<1>7. Good(U, {}) /\ Keeps(S, U)
  BY <1>2, <1>4, <1>6, HistoryGood
<1>8. U = [S EXCEPT !.history[w] = @ \o answer.updates]
  BY <1>2, <1>5
<1>9. d.type \in {"none", "complete", "fail", "cancelled", "continue", "schedule"}
  BY <1>3 DEF Decisions
<1>10. SUFFICES Good(T, {}) /\ Keeps(U, T)
  <2>1. Good(T, {}) => T \in Lanes
    BY DEF Good
  <2> QED BY <1>1, <1>6, <1>7, <2>1, KeepsTransitive
<1>11. ASSUME NEW status \in Statuses \ {"none", "RUNNING"}, T = Close(U, w, status)
       PROVE  Good(T, {}) /\ Keeps(U, T)
  <2>1. Good(T, {} \cup {w}) /\ Keeps(U, T) /\ T.task[w] = U.task[w]
    BY <1>6, <1>7, <1>11, CloseGood
  <2> QED BY <1>6, <2>1, GoodEnough
<1>12. CASE d.type \in {"complete", "fail", "cancelled"}
  <2>1. \E status \in Statuses \ {"none", "RUNNING"} : T = Close(U, w, status)
    BY <1>2, <1>8, <1>12 DEF Apply, Statuses
  <2> QED BY <1>11, <2>1
<1>13. CASE d.type = "continue"
  <2>1. T = ContinueAsNew(U, w)
    BY <1>2, <1>8, <1>13 DEF Apply
  <2> QED BY <1>6, <1>7, <2>1, ContinueGood
<1>14. CASE d.type = "schedule"
  <2>1. T = Schedule(U, w, d.command)
    BY <1>2, <1>8, <1>14 DEF Apply
  <2>2. d.command \in 1 .. Len(Programs[w])
    BY <1>3, <1>14 DEF Decisions
  <2>3. Programs[w][d.command] \in Workflows => U.status[Programs[w][d.command]] = "none"
    BY <1>2, <1>6, <1>14 DEF ChildExists
  <2> QED BY <1>6, <1>7, <2>1, <2>2, <2>3, ScheduleGood
<1>15. CASE d.type = "none"
  <2>1. T = U
    BY <1>2, <1>8, <1>15 DEF Apply
  <2> QED BY <1>6, <1>7, <2>1, KeepsItself
<1> QED BY <1>9, <1>12, <1>13, <1>14, <1>15

-----------------------------------------------------------------------------
(* A replay answers. *)

LEMMA AfterExternalsIs ==
  ASSUME NEW h \in Seq(Event), NEW i \in Nat, i <= Len(h) + 1, NEW a, a = AfterExternals(h, i)
  PROVE  /\ a \in i .. Len(h) + 1
         /\ \A k \in i .. a - 1 : IsExternal(h[k]) \/ (k > i /\ Completes(h, k))
         /\ a <= Len(h) => ~IsExternal(h[a]) /\ ~(a > i /\ Completes(h, a))
<1>1. Len(h) \in Nat
  BY LenProperties
<1>2. PICK B :
        B = {j \in i .. Len(h) + 1 : j <= Len(h) => ~IsExternal(h[j]) /\ ~(j > i /\ Completes(h, j))}
  OBVIOUS
<1>3. Len(h) + 1 \in B /\ B \in SUBSET Nat
  BY <1>1, <1>2
<1>4. PICK j \in B : \A k \in Nat : k < j => k \notin B
  BY <1>3, Least
<1>5. \A k \in i .. j - 1 : IsExternal(h[k]) \/ (k > i /\ Completes(h, k))
  BY <1>1, <1>2, <1>4
<1>6. \E m \in i .. Len(h) + 1 :
        /\ \A k \in i .. m - 1 : IsExternal(h[k]) \/ (k > i /\ Completes(h, k))
        /\ m <= Len(h) => ~IsExternal(h[m]) /\ ~(m > i /\ Completes(h, m))
  BY <1>2, <1>4, <1>5
<1> QED BY <1>6 DEF AfterExternals

LEMMA AfterRetriesIs ==
  ASSUME NEW h \in Seq(Event), NEW i \in Nat, i <= Len(h) + 1, NEW c,
         NEW a, a = AfterRetries(h, i, c)
  PROVE  /\ a \in i .. Len(h) + 1
         /\ \A k \in i .. a - 1 : h[k] = E("retry", c)
         /\ a <= Len(h) => h[a] # E("retry", c)
<1>1. Len(h) \in Nat
  BY LenProperties
<1>2. PICK B : B = {j \in i .. Len(h) + 1 : j <= Len(h) => h[j] # E("retry", c)}
  OBVIOUS
<1>3. Len(h) + 1 \in B /\ B \in SUBSET Nat
  BY <1>1, <1>2
<1>4. PICK j \in B : \A k \in Nat : k < j => k \notin B
  BY <1>3, Least
<1>5. \A k \in i .. j - 1 : h[k] = E("retry", c)
  BY <1>1, <1>2, <1>4
<1>6. \E m \in i .. Len(h) + 1 :
        /\ \A k \in i .. m - 1 : h[k] = E("retry", c)
        /\ m <= Len(h) => h[m] # E("retry", c)
  BY <1>2, <1>4, <1>5
<1> QED BY <1>6 DEF AfterRetries

LEMMA UpdatesAre ==
  ASSUME NEW h \in Seq(Event), NEW i \in Nat
  PROVE  Updates(h, i) \in Seq(Updated)
<1>1. Len(h) \in Nat
  BY LenProperties
<1>2. PICK all, open, order :
        /\ all = [k \in 1 .. Len(h) |-> k]
        /\ open = {k \in i .. AfterExternals(h, i) - 1 : h[k].type = "update" /\ ~Completes(h, k + 1)}
        /\ order = Among(all, open)
  OBVIOUS
<1>3. all \in Seq(1 .. Len(h))
  BY <1>1, <1>2
<1>4. order \in Seq(1 .. Len(h))
  BY <1>2, <1>3, AmongTyped
<1>5. Updates(h, i) = [n \in 1 .. Len(order) |-> E("updated", h[order[n]].command)]
  BY <1>2 DEF Updates
<1>6. ASSUME NEW n \in 1 .. Len(order)
      PROVE  E("updated", h[order[n]].command) \in Updated
  <2>1. order[n] \in 1 .. Len(h)
    BY <1>4, ElementOfSeq
  <2>2. h[order[n]] \in Event
    BY <2>1, ElementOfSeq
  <2>3. h[order[n]].command \in Nat
    BY <2>2 DEF Event
  <2> QED BY <2>3, EventsTyped DEF Updated, EventTypes
<1>7. Len(order) \in Nat
  BY <1>4, LenProperties
<1> QED BY <1>5, <1>6, <1>7

LEMMA AnswersAre ==
  ASSUME NEW w \in Workflows
  PROVE  /\ \A d \in {"none", "complete", "fail", "cancelled", "continue"} : Answer(d, 0) \in Answers(w)
         /\ \A c \in 1 .. Len(Programs[w]) : Answer("schedule", c) \in Answers(w)
         /\ Waiting \in Answers(w) /\ Failure \in Answers(w)
<1>1. <<>> \in Seq(Updated)
  OBVIOUS
<1>2. \A d \in {"none", "complete", "fail", "cancelled", "continue"} : Answer(d, 0) \in Answers(w)
  BY <1>1 DEF Answer, Answers, Decisions, E
<1>3. \A c \in 1 .. Len(Programs[w]) : Answer("schedule", c) \in Answers(w)
  BY <1>1, CommandIs DEF Answer, Answers, Decisions, E
<1>4. Waiting \in Answers(w)
  BY <1>2 DEF Waiting
<1>5. Failure \in Answers(w)
  BY <1>4 DEF Failure, Answers
<1> QED BY <1>2, <1>3, <1>4, <1>5

LEMMA DispatchIs ==
  ASSUME NEW w \in Workflows, NEW h \in Seq(Event), NEW i \in Nat, NEW Then,
         Matched(h, i) /\ ~Cancelled(h, i) => Then \in Answers(w)
  PROVE  Dispatch(h, i, Then) \in Answers(w)
<1>1. PICK answer : answer = IF ~Matched(h, i) THEN Failure
                             ELSE IF Cancelled(h, i) THEN Answer("cancelled", 0) ELSE Then
  OBVIOUS
<1>2. answer \in Answers(w)
  BY <1>1, AnswersAre
<1>3. PICK u : u = Updates(h, i) \o answer.updates
  OBVIOUS
<1>4. u \in Seq(Updated)
  <2>1. Updates(h, i) \in Seq(Updated) /\ answer.updates \in Seq(Updated)
    BY <1>2, UpdatesAre DEF Answers
  <2> QED BY <1>3, <2>1, ConcatProperties
<1>5. Dispatch(h, i, Then) = [answer EXCEPT !.updates = u]
  BY <1>1, <1>3 DEF Dispatch
<1> QED BY <1>2, <1>4, <1>5 DEF Answers

\* What follows is answered for every event it can begin at.
LEMMA ResolveIs ==
  ASSUME NEW w \in Workflows, NEW h \in Seq(Event), NEW i \in 2 .. Len(h) + 1,
         NEW c \in 1 .. Len(Programs[w]), NEW rest \in [2 .. Len(h) + 1 -> Answers(w)]
  PROVE  Resolve(w, h, i, c, rest) \in Answers(w)
<1>1. Len(h) \in Nat /\ i \in Nat /\ i <= Len(h) + 1
  BY LenProperties
<1>2. PICK scheduled : scheduled = AfterExternals(h, i)
  OBVIOUS
<1>3. scheduled \in i .. Len(h) + 1
  BY <1>1, <1>2, AfterExternalsIs
<1>4. PICK behind : behind = AfterExternals(h, scheduled + 1)
  OBVIOUS
<1>5. PICK j : j = IF Programs[w][c] = "activity" THEN AfterRetries(h, behind, c) ELSE behind
  OBVIOUS
<1>6. PICK done : done = IF Programs[w][c] = "activity" /\ j <= Len(h) /\ h[j].type = "retry"
                         THEN Failure ELSE Completion(h, j, c, rest)
  OBVIOUS
<1>7. ASSUME scheduled <= Len(h)
      PROVE  done \in Answers(w)
  <2>1. scheduled + 1 \in Nat /\ scheduled + 1 <= Len(h) + 1
    BY <1>1, <1>3, <1>7
  <2>2. behind \in scheduled + 1 .. Len(h) + 1
    BY <1>4, <2>1, AfterExternalsIs
  <2>3. behind \in Nat /\ behind <= Len(h) + 1 /\ behind >= 2
    BY <1>1, <1>3, <2>2
  <2>4. j \in behind .. Len(h) + 1
    BY <1>1, <1>5, <2>3, AfterRetriesIs
  <2>5. j <= Len(h) => j + 1 \in 2 .. Len(h) + 1
    BY <1>1, <2>3, <2>4
  <2>6. j <= Len(h) => rest[j + 1] \in Answers(w)
    BY <2>5
  <2>7. j > Len(h) \/ j <= Len(h)
    BY <1>1, <2>3, <2>4
  <2> QED BY <1>6, <2>6, <2>7, AnswersAre DEF Completion
<1>8. PICK inner : inner = Dispatch(h, scheduled + 1, done)
  OBVIOUS
<1>9. ASSUME scheduled <= Len(h)
      PROVE  inner \in Answers(w)
  <2>1. scheduled + 1 \in Nat
    BY <1>1, <1>3
  <2> QED BY <1>7, <1>8, <1>9, <2>1, DispatchIs
<1>10. PICK outer : outer = IF scheduled > Len(h) THEN Answer("schedule", c)
                            ELSE IF h[scheduled] # E("scheduled", c) THEN Failure ELSE inner
  OBVIOUS
<1>11. outer \in Answers(w)
  <2>1. scheduled > Len(h) \/ scheduled <= Len(h)
    BY <1>1, <1>3
  <2> QED BY <1>9, <1>10, <2>1, AnswersAre
<1>12. Resolve(w, h, i, c, rest) = Dispatch(h, i, outer)
  BY <1>2, <1>4, <1>5, <1>6, <1>8, <1>10 DEF Resolve
<1> QED BY <1>1, <1>11, <1>12, DispatchIs

\* The answers with so many commands left.
Answering(f, w, h, n, ends) ==
  /\ f[0] = [i \in 2 .. n + 1 |-> ends]
  /\ \A left \in 1 .. Len(Programs[w]) :
       f[left] = [i \in 2 .. n + 1 |-> Resolve(w, h, i, Len(Programs[w]) + 1 - left, f[left - 1])]

\* What the code does when no command is left.
Ends(w) == Answer(IF lane.run[w] < Runs[w] THEN "continue" ELSE "complete", 0)

LEMMA ReplayFollows ==
  ASSUME NEW w \in Workflows, lane \in Lanes, NEW n \in 1 .. Len(lane.history[w])
  PROVE  \E f \in [0 .. Len(Programs[w]) -> [2 .. n + 1 -> Answers(w)]] :
           /\ Answering(f, w, SubSeq(lane.history[w], 1, n), n, Ends(w))
           /\ Replay(w, n) = f[Len(Programs[w])][2]
<1>1. PICK last, h : last = Len(Programs[w]) /\ h = SubSeq(lane.history[w], 1, n)
  OBVIOUS
<1>2. /\ h \in Seq(Event) /\ Len(h) = n /\ n \in Nat /\ n >= 1
      /\ last \in Nat
  <2>1. lane.history[w] \in Seq(Event)
    BY DEF Lanes
  <2>2. Len(lane.history[w]) \in Nat /\ n \in Nat
    BY <2>1, LenProperties
  <2>3. h \in Seq(Event) /\ Len(h) = n
    BY <1>1, <2>1, <2>2, SubSeqProperties
  <2>4. Programs[w] \in Seq({"activity", "timer"} \cup Workflows)
    BY WorkflowAssumption
  <2> QED BY <1>1, <2>2, <2>3, <2>4, LenProperties
<1>3. PICK ends : ends = Answer(IF lane.run[w] < Runs[w] THEN "continue" ELSE "complete", 0)
  OBVIOUS
<1>4. ends \in Answers(w)
  BY <1>3, AnswersAre
<1>5. PICK V : V = [2 .. n + 1 -> Answers(w)]
  OBVIOUS
<1>6. ASSUME NEW p \in V \X (1 .. last)
      PROVE  [i \in 2 .. n + 1 |-> Resolve(w, h, i, last + 1 - p[2], p[1])] \in V
  <2>1. p[1] \in [2 .. Len(h) + 1 -> Answers(w)] /\ last + 1 - p[2] \in 1 .. Len(Programs[w])
    BY <1>1, <1>2, <1>5
  <2>2. \A i \in 2 .. n + 1 : i \in 2 .. Len(h) + 1
    BY <1>2
  <2>3. \A i \in 2 .. n + 1 : Resolve(w, h, i, last + 1 - p[2], p[1]) \in Answers(w)
    BY <1>2, <2>1, <2>2, ResolveIs
  <2> QED BY <1>5, <2>3
<1>7. PICK step : step = [p \in V \X (1 .. last) |->
                            [i \in 2 .. n + 1 |-> Resolve(w, h, i, last + 1 - p[2], p[1])]]
  OBVIOUS
<1>8. step \in [V \X (1 .. last) -> V]
  BY <1>6, <1>7
<1>9. PICK base : base = [i \in 2 .. n + 1 |-> ends]
  OBVIOUS
<1>10. base \in V
  BY <1>4, <1>5, <1>9
<1>11. PICK f \in [0 .. last -> V] : Recursive(f, base, last, step)
  BY <1>2, <1>8, <1>10, Recursion
<1>12. Answering(f, w, h, n, ends)
  <2>1. \A left \in 1 .. last : left - 1 \in 0 .. last
    BY <1>2
  <2>2. \A left \in 1 .. last : <<f[left - 1], left>> \in V \X (1 .. last)
    BY <1>11, <2>1
  <2> QED BY <1>1, <1>7, <1>9, <1>11, <2>2 DEF Recursive, Answering
<1>13. f = [left \in 0 .. last |->
              [i \in 2 .. n + 1 |->
                 IF left = 0 THEN ends ELSE Resolve(w, h, i, last + 1 - left, f[left - 1])]]
  <2>1. \A left \in 0 .. last : left = 0 \/ left \in 1 .. last
    BY <1>2
  <2>2. \A left \in 1 .. last : left # 0
    BY <1>2
  <2>3. ASSUME NEW left \in 0 .. last
        PROVE  f[left] = [i \in 2 .. n + 1 |->
                 IF left = 0 THEN ends ELSE Resolve(w, h, i, last + 1 - left, f[left - 1])]
    BY <1>1, <1>12, <2>1, <2>2 DEF Answering
  <2> QED BY <1>11, <2>3
<1>14. PICK answers :
         /\ answers = CHOOSE g : g = [left \in 0 .. last |->
              [i \in 2 .. n + 1 |->
                 IF left = 0 THEN ends ELSE Resolve(w, h, i, last + 1 - left, g[left - 1])]]
         /\ Replay(w, n) = answers[last][2]
  BY <1>1, <1>3, ZenonT(60) DEF Replay
<1>15. answers = [left \in 0 .. last |->
         [i \in 2 .. n + 1 |->
            IF left = 0 THEN ends ELSE Resolve(w, h, i, last + 1 - left, answers[left - 1])]]
  BY <1>13, <1>14
<1>16. Answering(answers, w, h, n, ends)
  <2>1. 0 \in 0 .. last /\ \A left \in 1 .. last : left \in 0 .. last /\ left # 0
    BY <1>2
  <2> QED BY <1>1, <1>15, <2>1 DEF Answering
<1>17. StepAlike(f, answers, last)
  <2>1. f[0] = answers[0]
    BY <1>12, <1>16 DEF Answering
  <2>2. ASSUME NEW left \in 1 .. last, f[left - 1] = answers[left - 1]
        PROVE  f[left] = answers[left]
    <3>1. PICK b : b = f[left - 1]
      OBVIOUS
    <3>2. f[left] = [i \in 2 .. n + 1 |-> Resolve(w, h, i, last + 1 - left, b)]
      BY <1>1, <1>12, <3>1 DEF Answering
    <3>3. answers[left] = [i \in 2 .. n + 1 |-> Resolve(w, h, i, last + 1 - left, b)]
      BY <1>1, <1>16, <2>2, <3>1 DEF Answering
    <3> QED BY <3>2, <3>3
  <2> QED BY <2>1, <2>2 DEF StepAlike
<1>18. f[last] = answers[last]
  <2>1. last \in 0 .. last
    BY <1>2
  <2> QED BY <1>2, <1>17, <2>1, RecursionIsUnique
<1>19. f \in [0 .. Len(Programs[w]) -> [2 .. n + 1 -> Answers(w)]]
  BY <1>1, <1>5, <1>11
<1>20. Answering(f, w, SubSeq(lane.history[w], 1, n), n, Ends(w))
  BY <1>1, <1>3, <1>12 DEF Ends
<1>21. Replay(w, n) = f[Len(Programs[w])][2]
  BY <1>1, <1>14, <1>18
<1> QED BY <1>19, <1>20, <1>21

LEMMA ReplayIs ==
  ASSUME NEW w \in Workflows, lane \in Lanes, NEW n \in 1 .. Len(lane.history[w])
  PROVE  Replay(w, n) \in Answers(w)
<1>1. n \in Nat /\ n >= 1 /\ Len(Programs[w]) \in Nat
  <2>1. lane.history[w] \in Seq(Event) /\ Programs[w] \in Seq({"activity", "timer"} \cup Workflows)
    BY WorkflowAssumption DEF Lanes
  <2>2. Len(lane.history[w]) \in Nat /\ Len(Programs[w]) \in Nat
    BY <2>1, LenProperties
  <2> QED BY <2>2
<1>2. PICK last, m : last = Len(Programs[w]) /\ m = n + 1
  OBVIOUS
<1>3. PICK f \in [0 .. last -> [2 .. m -> Answers(w)]] : Replay(w, n) = f[last][2]
  BY <1>2, ReplayFollows
<1>4. last \in 0 .. last /\ 2 \in 2 .. m
  BY <1>1, <1>2
<1>5. f[last] \in [2 .. m -> Answers(w)]
  BY <1>4
<1> QED BY <1>3, <1>4, <1>5

-----------------------------------------------------------------------------
(* What a poll does first: timers fire, activities and workflows time out. *)

\* How FoldSet picks the elements.
Picks(T) == [s \in SUBSET T |-> CHOOSE x \in s : TRUE]

LEMMA PicksChoose ==
  ASSUME NEW T
  PROVE  Chooses(Picks(T), T)
<1>1. \A s \in SUBSET T : s # {} => (CHOOSE x \in s : TRUE) \in s
  OBVIOUS
<1> QED BY <1>1 DEF Picks, Chooses

LEMMA FireIs ==
  ASSUME NEW t \in Workflows \X Nat, NEW S \in Lanes
  PROVE  Fire(t, S) \in Lanes
<1>1. E("done", t[2]) \in Event /\ t[1] \in Workflows
  BY EventsTyped DEF EventTypes
<1> QED BY <1>1, WakeIs DEF Fire

LEMMA FireGood ==
  ASSUME NEW t \in Workflows \X Nat, NEW S, Good(S, {}), S.status[t[1]] = "RUNNING",
         NEW T, T = Fire(t, S)
  PROVE  Good(T, {}) /\ Keeps(S, T) /\ T.status = S.status
<1>1. PICK e, w : e = E("done", t[2]) /\ w = t[1]
  OBVIOUS
<1>2. e \in Event /\ e.type # "closed" /\ w \in Workflows /\ T = Wake(S, w, e)
  BY <1>1, EventsTyped DEF EventTypes, Fire
<1> QED BY <1>1, <1>2, WakeGood

LEMMA WithTimersGood ==
  ASSUME NEW S, NEW X, Good(S, X), NEW ts \in SUBSET S.timers, NEW T, T = WithTimers(S, ts)
  PROVE  Good(T, X) /\ Keeps(S, T) /\ T.status = S.status /\ T.activities = S.activities
<1>1. S \in Lanes /\ ts \in SUBSET (Workflows \X Nat)
  BY DEF Good, Lanes
<1>2. /\ T \in Lanes /\ T.timers = ts
      /\ T.status = S.status /\ T.run = S.run /\ T.history = S.history
      /\ T.task = S.task /\ T.activities = S.activities
  BY <1>1, TimersAre
<1>3. IsFiniteSet(ts)
  BY FiniteParts DEF Good
<1>4. OnlyRunning(T, X)
  BY <1>2 DEF Good, OnlyRunning
<1>5. Orphans(T)
  BY <1>2 DEF Good, Orphans
<1>6. Keeps(S, T)
  BY <1>1, <1>2, KeepsItself DEF Keeps
<1> QED BY <1>2, <1>3, <1>4, <1>5, <1>6 DEF Good

\* The fold: one step for each element, from base on.
Firing(iter, choose, due, base) ==
  /\ Chooses(choose, due)
  /\ iter[{}] = base
  /\ \A s \in SUBSET due : s # {} => iter[s] = Fire(choose[s], iter[s \ {choose[s]}])

LEMMA FireTimersIs ==
  ASSUME NEW S \in Lanes, NEW due \in SUBSET S.timers, IsFiniteSet(due),
         NEW T, T = FireTimers(S, due)
  PROVE  \E iter, choose :
           Firing(iter, choose, due, WithTimers(S, S.timers \ due)) /\ T = iter[due]
<1>1. due \subseteq Workflows \X Nat
  BY DEF Lanes
<1>2. PICK base : base = WithTimers(S, S.timers \ due)
  OBVIOUS
<1>3. base \in Lanes
  <2>1. S.timers \ due \in SUBSET (Workflows \X Nat)
    BY DEF Lanes
  <2> QED BY <1>2, <2>1, TimersAre
<1>4. PICK iter :
        /\ iter = CHOOSE g : g = [s \in SUBSET due |->
             IF s = {} THEN base
             ELSE Fire(CHOOSE x \in s : TRUE, g[s \ {CHOOSE x \in s : TRUE}])]
        /\ T = iter[due]
  BY <1>2 DEF FireTimers, FoldSet, MapThenFoldSet, WithTimers
<1>5. PICK step : step = [t \in due |-> [U \in Lanes |-> Fire(t, U)]]
  OBVIOUS
<1>6. step \in [due -> [Lanes -> Lanes]]
  BY <1>1, <1>5, FireIs
<1>7. PICK choose : choose = Picks(due) /\ Chooses(choose, due)
  BY PicksChoose
<1>8. PICK f \in [SUBSET due -> Lanes] : Folded(f, SUBSET due, base, choose, step)
  BY <1>3, <1>6, <1>7, FoldExists
<1>9. \A s \in SUBSET due : s # {} => /\ choose[s] = CHOOSE x \in s : TRUE
                                      /\ choose[s] \in s /\ s \ {choose[s]} \in SUBSET due
  BY <1>7 DEF Picks, Chooses
<1>10. f = [s \in SUBSET due |->
              IF s = {} THEN base
              ELSE Fire(CHOOSE x \in s : TRUE, f[s \ {CHOOSE x \in s : TRUE}])]
  <2>1. ASSUME NEW s \in SUBSET due, s # {}
        PROVE  f[s] = Fire(CHOOSE x \in s : TRUE, f[s \ {CHOOSE x \in s : TRUE}])
    <3>1. PICK x, r : x = choose[s] /\ r = s \ {x}
      OBVIOUS
    <3>2. x \in due /\ f[r] \in Lanes /\ f[s] = step[x][f[r]]
      BY <1>8, <1>9, <2>1, <3>1 DEF Folded
    <3>3. f[s] = Fire(x, f[r])
      BY <1>5, <3>2
    <3> QED BY <1>9, <2>1, <3>1, <3>3
  <2>2. f[{}] = base
    BY <1>8 DEF Folded
  <2> QED BY <1>8, <2>1, <2>2
<1>11. iter = [s \in SUBSET due |->
                 IF s = {} THEN base
                 ELSE Fire(CHOOSE x \in s : TRUE, iter[s \ {CHOOSE x \in s : TRUE}])]
  BY <1>4, <1>10, ZenonT(60)
<1>12. \A s \in SUBSET due : s # {} => iter[s] = Fire(choose[s], iter[s \ {choose[s]}])
  BY <1>9, <1>11
<1>13. iter[{}] = base
  BY <1>11
<1> QED BY <1>2, <1>4, <1>7, <1>12, <1>13 DEF Firing

LEMMA FireTimersGood ==
  ASSUME NEW S, Good(S, {}), NEW due \in SUBSET S.timers, NEW T, T = FireTimers(S, due)
  PROVE  Good(T, {}) /\ Keeps(S, T) /\ T.status = S.status
<1>1. S \in Lanes /\ IsFiniteSet(due) /\ due \subseteq Workflows \X Nat
      /\ \A t \in due : S.status[t[1]] = "RUNNING"
  <2>1. IsFiniteSet(due)
    BY FiniteParts DEF Good
  <2> QED BY <2>1 DEF Good, Lanes, OnlyRunning
<1>2. PICK base : base = WithTimers(S, S.timers \ due)
  OBVIOUS
<1>3. Good(base, {}) /\ Keeps(S, base) /\ base.status = S.status
  <2>1. S.timers \ due \in SUBSET S.timers
    OBVIOUS
  <2> QED BY <1>2, <2>1, WithTimersGood
<1>4. PICK iter, choose : Firing(iter, choose, due, base) /\ T = iter[due]
  BY <1>1, <1>2, FireTimersIs
<1>5. PICK G : G = {s \in SUBSET due : /\ Good(iter[s], {}) /\ Keeps(S, iter[s])
                                       /\ iter[s].status = S.status}
  OBVIOUS
<1>6. {} \in G
  BY <1>3, <1>4, <1>5 DEF Firing
<1>7. ASSUME NEW s \in SUBSET due, s # {}, s \ {choose[s]} \in G
      PROVE  s \in G
  <2>1. PICK x, U, W : x = choose[s] /\ U = iter[s \ {x}] /\ W = iter[s]
    OBVIOUS
  <2>2. x \in due /\ W = Fire(x, U)
    BY <1>4, <1>7, <2>1 DEF Firing, Chooses
  <2>3. Good(U, {}) /\ Keeps(S, U) /\ U.status = S.status
    BY <1>5, <1>7, <2>1
  <2>4. x \in Workflows \X Nat /\ U.status[x[1]] = "RUNNING"
    BY <1>1, <2>2, <2>3
  <2>5. Good(W, {}) /\ Keeps(U, W) /\ W.status = U.status
    BY <2>2, <2>3, <2>4, FireGood
  <2>6. Keeps(S, W)
    <3>1. U \in Lanes /\ W \in Lanes
      BY <2>3, <2>5 DEF Good
    <3> QED BY <1>1, <2>3, <2>5, <3>1, KeepsTransitive
  <2> QED BY <1>5, <2>1, <2>3, <2>5, <2>6
<1>8. SUBSET due \subseteq G
  BY <1>1, <1>4, <1>6, <1>7, FoldInduction DEF Firing
<1>9. due \in SUBSET due
  OBVIOUS
<1> QED BY <1>4, <1>5, <1>8, <1>9

LEMMA ExpireIs ==
  ASSUME NEW w \in Workflows, NEW S \in Lanes
  PROVE  Expire(w, S) \in Lanes
<1>1. Close(S, w, "TIMED_OUT") \in Lanes
  BY CloseTyped DEF Statuses
<1> QED BY <1>1, DropTaskIs DEF Expire

LEMMA ExpireGood ==
  ASSUME NEW w \in Workflows, NEW S, Good(S, {}), S.status[w] = "RUNNING",
         policy \in ChildPolicies, NEW T, T = Expire(w, S)
  PROVE  /\ Good(T, {}) /\ Keeps(S, T)
         /\ \A v \in Roots \ {w} : T.status[v] = S.status[v]
<1>1. PICK C : C = Close(S, w, "TIMED_OUT")
  OBVIOUS
<1>2. /\ Good(C, {} \cup {w}) /\ Keeps(S, C)
      /\ C.task[w] = S.task[w] /\ C.status[w] = "TIMED_OUT"
      /\ \A v \in Roots \ {w} : C.status[v] = S.status[v]
  <2>1. PICK status, X : status = "TIMED_OUT" /\ X = {}
    OBVIOUS
  <2>2. status \in Statuses \ {"none", "RUNNING"}
    BY <2>1 DEF Statuses
  <2>3. Good(S, X) /\ C = Close(S, w, status)
    BY <1>1, <2>1
  <2>4. /\ Good(C, X \cup {w}) /\ Keeps(S, C)
        /\ C.task[w] = S.task[w] /\ C.status[w] = status
        /\ \A v \in Roots \ {w} : C.status[v] = S.status[v]
    BY <2>2, <2>3, CloseGood, SMTT(30)
  <2> QED BY <2>1, <2>4
<1>3. T = DropTask(C, w)
  BY <1>1 DEF Expire
<1>4. Good(T, {}) /\ Keeps(C, T) /\ T.status = C.status
  BY <1>2, <1>3, DropTaskGood
<1>5. S \in Lanes /\ C \in Lanes /\ T \in Lanes
  BY <1>2, <1>4 DEF Good
<1> QED BY <1>2, <1>4, <1>5, KeepsTransitive

Expiring(iter, choose, late, base) ==
  /\ Chooses(choose, late)
  /\ iter[{}] = base
  /\ \A s \in SUBSET late : s # {} => iter[s] = Expire(choose[s], iter[s \ {choose[s]}])

LEMMA ExpireWorkflowsIs ==
  ASSUME NEW S \in Lanes, NEW late \in SUBSET Workflows, IsFiniteSet(late),
         NEW T, T = ExpireWorkflows(S, late)
  PROVE  \E iter, choose : Expiring(iter, choose, late, S) /\ T = iter[late]
<1>1. PICK iter :
        /\ iter = CHOOSE g : g = [s \in SUBSET late |->
             IF s = {} THEN S
             ELSE Expire(CHOOSE x \in s : TRUE, g[s \ {CHOOSE x \in s : TRUE}])]
        /\ T = iter[late]
  BY DEF ExpireWorkflows, FoldSet, MapThenFoldSet
<1>2. PICK step : step = [w \in late |-> [U \in Lanes |-> Expire(w, U)]]
  OBVIOUS
<1>3. step \in [late -> [Lanes -> Lanes]]
  BY <1>2, ExpireIs
<1>4. PICK choose : choose = Picks(late) /\ Chooses(choose, late)
  BY PicksChoose
<1>5. PICK f \in [SUBSET late -> Lanes] : Folded(f, SUBSET late, S, choose, step)
  BY <1>3, <1>4, FoldExists
<1>6. \A s \in SUBSET late : s # {} => /\ choose[s] = CHOOSE x \in s : TRUE
                                       /\ choose[s] \in s /\ s \ {choose[s]} \in SUBSET late
  BY <1>4 DEF Picks, Chooses
<1>7. f = [s \in SUBSET late |->
             IF s = {} THEN S
             ELSE Expire(CHOOSE x \in s : TRUE, f[s \ {CHOOSE x \in s : TRUE}])]
  <2>1. ASSUME NEW s \in SUBSET late, s # {}
        PROVE  f[s] = Expire(CHOOSE x \in s : TRUE, f[s \ {CHOOSE x \in s : TRUE}])
    <3>1. PICK x, r : x = choose[s] /\ r = s \ {x}
      OBVIOUS
    <3>2. x \in late /\ f[r] \in Lanes /\ f[s] = step[x][f[r]]
      BY <1>5, <1>6, <2>1, <3>1 DEF Folded
    <3>3. f[s] = Expire(x, f[r])
      BY <1>2, <3>2
    <3> QED BY <1>6, <2>1, <3>1, <3>3
  <2>2. f[{}] = S
    BY <1>5 DEF Folded
  <2> QED BY <1>5, <2>1, <2>2
<1>8. iter = [s \in SUBSET late |->
                IF s = {} THEN S
                ELSE Expire(CHOOSE x \in s : TRUE, iter[s \ {CHOOSE x \in s : TRUE}])]
  BY <1>1, <1>7
<1>9. \A s \in SUBSET late : s # {} => iter[s] = Expire(choose[s], iter[s \ {choose[s]}])
  BY <1>6, <1>8
<1>10. iter[{}] = S
  BY <1>8
<1> QED BY <1>1, <1>4, <1>9, <1>10 DEF Expiring

LEMMA ExpireWorkflowsGood ==
  ASSUME NEW S, Good(S, {}), NEW late \in SUBSET Roots,
         \A w \in late : S.status[w] = "RUNNING", policy \in ChildPolicies,
         NEW T, T = ExpireWorkflows(S, late)
  PROVE  Good(T, {}) /\ Keeps(S, T)
<1>1. S \in Lanes /\ IsFiniteSet(late) /\ late \in SUBSET Workflows
  <2>1. late \in SUBSET Workflows
    BY DEF Roots
  <2> QED BY <2>1, FiniteParts, WorkflowAssumption DEF Good
<1>2. PICK iter, choose : Expiring(iter, choose, late, S) /\ T = iter[late]
  BY <1>1, ExpireWorkflowsIs
<1>3. PICK G : G = {s \in SUBSET late :
         /\ Good(iter[s], {}) /\ Keeps(S, iter[s])
         /\ \A w \in late \ s : iter[s].status[w] = "RUNNING"}
  OBVIOUS
<1>4. {} \in G
  <2>1. iter[{}] = S
    BY <1>2 DEF Expiring
  <2> QED BY <1>1, <1>3, <2>1, KeepsItself
<1>5. ASSUME NEW s \in SUBSET late, s # {}, s \ {choose[s]} \in G
      PROVE  s \in G
  <2>1. PICK x, U, W : x = choose[s] /\ U = iter[s \ {x}] /\ W = iter[s]
    OBVIOUS
  <2>2. x \in s /\ x \in late /\ W = Expire(x, U)
    BY <1>2, <1>5, <2>1 DEF Expiring, Chooses
  <2>3. /\ Good(U, {}) /\ Keeps(S, U)
        /\ \A w \in late \ (s \ {x}) : U.status[w] = "RUNNING"
    BY <1>3, <1>5, <2>1
  <2>4. x \in Workflows /\ U.status[x] = "RUNNING"
    BY <1>1, <2>2, <2>3
  <2>5. /\ Good(W, {}) /\ Keeps(U, W)
        /\ \A v \in Roots \ {x} : W.status[v] = U.status[v]
    BY <2>2, <2>3, <2>4, ExpireGood
  <2>6. Keeps(S, W)
    <3>1. U \in Lanes /\ W \in Lanes
      BY <2>3, <2>5 DEF Good
    <3> QED BY <1>1, <2>3, <2>5, <3>1, KeepsTransitive
  <2>7. \A w \in late \ s : W.status[w] = "RUNNING"
    BY <2>2, <2>3, <2>5
  <2> QED BY <1>3, <2>1, <2>5, <2>6, <2>7
<1>6. SUBSET late \subseteq G
  BY <1>1, <1>2, <1>4, <1>5, FoldInduction DEF Expiring
<1>7. late \in SUBSET late
  OBVIOUS
<1> QED BY <1>2, <1>3, <1>6, <1>7

LEMMA OverdueIs ==
  ASSUME NEW a \in Activities, NEW S \in Lanes
  PROVE  Overdue(a, S) \in Lanes
<1>1. E("failed", a.command) \in Event /\ a.workflow \in Workflows
  BY EventsTyped DEF EventTypes, Activities
<1> QED BY <1>1, WakeIs DEF Overdue

LEMMA OverdueGood ==
  ASSUME NEW a \in Activities, NEW S, Good(S, {}), S.status[a.workflow] = "RUNNING",
         NEW T, T = Overdue(a, S)
  PROVE  Good(T, {}) /\ Keeps(S, T) /\ T.status = S.status
<1>1. PICK e, w : e = E("failed", a.command) /\ w = a.workflow
  OBVIOUS
<1>2. e \in Event /\ e.type # "closed" /\ w \in Workflows /\ T = Wake(S, w, e)
  BY <1>1, EventsTyped DEF EventTypes, Activities, Overdue
<1> QED BY <1>1, <1>2, WakeGood

\* Activities of running workflows.
Working(S, acts) ==
  acts \in SUBSET Activities /\ IsFiniteSet(acts) /\ \A a \in acts : S.status[a.workflow] = "RUNNING"

LEMMA WithActivitiesGood ==
  ASSUME NEW S, NEW X, Good(S, X), NEW acts, Working(S, acts), NEW T, T = WithActivities(S, acts)
  PROVE  Good(T, X) /\ Keeps(S, T) /\ T.status = S.status
<1>1. S \in Lanes
  BY DEF Good
<1>2. /\ T \in Lanes /\ T.activities = acts
      /\ T.status = S.status /\ T.run = S.run /\ T.history = S.history
      /\ T.task = S.task /\ T.timers = S.timers
  BY <1>1, ActivitiesAre DEF Working
<1>3. OnlyRunning(T, X)
  BY <1>2 DEF Good, OnlyRunning, Working
<1>4. Orphans(T)
  BY <1>2 DEF Good, Orphans
<1>5. Keeps(S, T)
  BY <1>1, <1>2, KeepsItself DEF Keeps
<1> QED BY <1>2, <1>3, <1>4, <1>5 DEF Good, Working

Failing(iter, choose, late, base) ==
  /\ Chooses(choose, late)
  /\ iter[{}] = base
  /\ \A s \in SUBSET late : s # {} => iter[s] = Overdue(choose[s], iter[s \ {choose[s]}])

LEMMA FailOverdueIs ==
  ASSUME NEW S \in Lanes, NEW late \in SUBSET S.activities, IsFiniteSet(late),
         NEW T, T = FailOverdue(S, late)
  PROVE  \E iter, choose :
           Failing(iter, choose, late, WithActivities(S, S.activities \ late)) /\ T = iter[late]
<1>1. late \subseteq Activities
  BY DEF Lanes
<1>2. PICK base : base = WithActivities(S, S.activities \ late)
  OBVIOUS
<1>3. base \in Lanes
  <2>1. S.activities \ late \in SUBSET Activities
    BY DEF Lanes
  <2> QED BY <1>2, <2>1, ActivitiesAre
<1>4. PICK iter :
        /\ iter = CHOOSE g : g = [s \in SUBSET late |->
             IF s = {} THEN base
             ELSE Overdue(CHOOSE x \in s : TRUE, g[s \ {CHOOSE x \in s : TRUE}])]
        /\ T = iter[late]
  BY <1>2 DEF FailOverdue, FoldSet, MapThenFoldSet, WithActivities
<1>5. PICK step : step = [a \in late |-> [U \in Lanes |-> Overdue(a, U)]]
  OBVIOUS
<1>6. step \in [late -> [Lanes -> Lanes]]
  BY <1>1, <1>5, OverdueIs
<1>7. PICK choose : choose = Picks(late) /\ Chooses(choose, late)
  BY PicksChoose
<1>8. PICK f \in [SUBSET late -> Lanes] : Folded(f, SUBSET late, base, choose, step)
  BY <1>3, <1>6, <1>7, FoldExists
<1>9. \A s \in SUBSET late : s # {} => /\ choose[s] = CHOOSE x \in s : TRUE
                                       /\ choose[s] \in s /\ s \ {choose[s]} \in SUBSET late
  BY <1>7 DEF Picks, Chooses
<1>10. f = [s \in SUBSET late |->
              IF s = {} THEN base
              ELSE Overdue(CHOOSE x \in s : TRUE, f[s \ {CHOOSE x \in s : TRUE}])]
  <2>1. ASSUME NEW s \in SUBSET late, s # {}
        PROVE  f[s] = Overdue(CHOOSE x \in s : TRUE, f[s \ {CHOOSE x \in s : TRUE}])
    <3>1. PICK x, r : x = choose[s] /\ r = s \ {x}
      OBVIOUS
    <3>2. x \in late /\ f[r] \in Lanes /\ f[s] = step[x][f[r]]
      BY <1>8, <1>9, <2>1, <3>1 DEF Folded
    <3>3. f[s] = Overdue(x, f[r])
      BY <1>5, <3>2
    <3> QED BY <1>9, <2>1, <3>1, <3>3
  <2>2. f[{}] = base
    BY <1>8 DEF Folded
  <2> QED BY <1>8, <2>1, <2>2
<1>11. iter = [s \in SUBSET late |->
                 IF s = {} THEN base
                 ELSE Overdue(CHOOSE x \in s : TRUE, iter[s \ {CHOOSE x \in s : TRUE}])]
  BY <1>4, <1>10, ZenonT(60)
<1>12. \A s \in SUBSET late : s # {} => iter[s] = Overdue(choose[s], iter[s \ {choose[s]}])
  BY <1>9, <1>11
<1>13. iter[{}] = base
  BY <1>11
<1> QED BY <1>2, <1>4, <1>7, <1>12, <1>13 DEF Failing

LEMMA FailOverdueGood ==
  ASSUME NEW S, Good(S, {}), NEW late \in SUBSET S.activities, NEW T, T = FailOverdue(S, late)
  PROVE  Good(T, {}) /\ Keeps(S, T) /\ T.status = S.status
<1>1. S \in Lanes /\ IsFiniteSet(late) /\ late \subseteq Activities
      /\ \A a \in late : S.status[a.workflow] = "RUNNING"
  <2>1. IsFiniteSet(late)
    BY FiniteParts DEF Good
  <2> QED BY <2>1 DEF Good, Lanes, OnlyRunning
<1>2. PICK base : base = WithActivities(S, S.activities \ late)
  OBVIOUS
<1>3. Good(base, {}) /\ Keeps(S, base) /\ base.status = S.status
  <2>1. PICK acts : acts = S.activities \ late
    OBVIOUS
  <2>2. acts \in SUBSET S.activities
    BY <2>1
  <2>3. IsFiniteSet(acts)
    BY <2>2, FiniteParts DEF Good
  <2>4. Working(S, acts)
    BY <2>2, <2>3 DEF Good, Lanes, OnlyRunning, Working
  <2> QED BY <1>2, <2>1, <2>4, WithActivitiesGood
<1>4. PICK iter, choose : Failing(iter, choose, late, base) /\ T = iter[late]
  BY <1>1, <1>2, FailOverdueIs
<1>5. PICK G : G = {s \in SUBSET late : /\ Good(iter[s], {}) /\ Keeps(S, iter[s])
                                        /\ iter[s].status = S.status}
  OBVIOUS
<1>6. {} \in G
  BY <1>3, <1>4, <1>5 DEF Failing
<1>7. ASSUME NEW s \in SUBSET late, s # {}, s \ {choose[s]} \in G
      PROVE  s \in G
  <2>1. PICK x, U, W : x = choose[s] /\ U = iter[s \ {x}] /\ W = iter[s]
    OBVIOUS
  <2>2. x \in late /\ W = Overdue(x, U)
    BY <1>4, <1>7, <2>1 DEF Failing, Chooses
  <2>3. Good(U, {}) /\ Keeps(S, U) /\ U.status = S.status
    BY <1>5, <1>7, <2>1
  <2>4. x \in Activities /\ U.status[x.workflow] = "RUNNING"
    BY <1>1, <2>2, <2>3
  <2>5. Good(W, {}) /\ Keeps(U, W) /\ W.status = U.status
    BY <2>2, <2>3, <2>4, OverdueGood
  <2>6. Keeps(S, W)
    <3>1. U \in Lanes /\ W \in Lanes
      BY <2>3, <2>5 DEF Good
    <3> QED BY <1>1, <2>3, <2>5, <3>1, KeepsTransitive
  <2> QED BY <1>5, <2>1, <2>3, <2>5, <2>6
<1>8. SUBSET late \subseteq G
  BY <1>1, <1>4, <1>6, <1>7, FoldInduction DEF Failing
<1>9. late \in SUBSET late
  OBVIOUS
<1> QED BY <1>4, <1>5, <1>8, <1>9

-----------------------------------------------------------------------------
(* The inductive invariant *)

\* Whoever holds a task was given a beginning of the history, and not an empty one.
Holding(S, jobs) ==
  \A x \in Workers :
    jobs[x].kind = "workflow" /\ S.task[jobs[x].workflow].token = x
    => jobs[x].seen \in 1 .. Len(S.history[jobs[x].workflow])

Jobs == {NoJob} \cup WorkflowJob \cup ActivityJob

\* What every transaction of workflow.rs keeps.
WorkflowInvariant ==
  /\ Good(lane, {})
  /\ job \in [Workers -> Jobs]
  /\ Holding(lane, job)
  /\ policy \in ChildPolicies
  /\ disturbances \in 0 .. MaxDisturbances

LEMMA JobsAre ==
  ASSUME NEW j \in Jobs
  PROVE  /\ j.kind = "workflow" => j \in WorkflowJob /\ j.workflow \in Workflows /\ j.seen \in Nat
         /\ j.kind = "activity" => j \in ActivityJob /\ j.workflow \in Workflows /\ j.command \in Nat
<1>1. CASE j = NoJob
  BY <1>1 DEF NoJob
<1>2. CASE j \in WorkflowJob
  BY <1>2 DEF WorkflowJob
<1>3. CASE j \in ActivityJob
  BY <1>3 DEF ActivityJob
<1> QED BY <1>1, <1>2, <1>3 DEF Jobs

\* A step that gives nobody a task.
LEMMA HoldingKept ==
  ASSUME NEW S \in Lanes, NEW T \in Lanes, Keeps(S, T), NEW jobs \in [Workers -> Jobs],
         NEW later \in [Workers -> Jobs], \A x \in Workers : later[x] \in {jobs[x], NoJob} \cup ActivityJob,
         Holding(S, jobs)
  PROVE  Holding(T, later)
<1>1. SUFFICES ASSUME NEW x \in Workers, later[x].kind = "workflow",
                      T.task[later[x].workflow].token = x
               PROVE  later[x].seen \in 1 .. Len(T.history[later[x].workflow])
  BY DEF Holding
<1>2. PICK w : w = later[x].workflow
  OBVIOUS
<1>3. later[x] = jobs[x] /\ w \in Workflows
  BY <1>1, <1>2, JobsAre DEF NoJob, ActivityJob
<1>4. S.task[w].token = x /\ Len(T.history[w]) >= Len(S.history[w])
  <2>1. x # NoWorker
    BY WorkflowAssumption
  <2> QED BY <1>1, <1>2, <1>3, <2>1 DEF Keeps
<1>5. jobs[x].seen \in 1 .. Len(S.history[w])
  BY <1>1, <1>2, <1>3, <1>4 DEF Holding
<1>6. Len(S.history[w]) \in Nat /\ Len(T.history[w]) \in Nat
  BY <1>3, LenProperties DEF Lanes
<1> QED BY <1>2, <1>3, <1>4, <1>5, <1>6

LEMMA DoneJobs ==
  ASSUME job \in [Workers -> Jobs], NEW x \in Workers, Done(x)
  PROVE  job' \in [Workers -> Jobs] /\ \A y \in Workers : job'[y] \in {job[y], NoJob} \cup ActivityJob
BY DEF Done, Jobs

\* Steps like these keep the invariant.
LEMMA StepKeeps ==
  ASSUME WorkflowInvariant, Good(lane', {}), Keeps(lane, lane'),
         job' \in [Workers -> Jobs], \A y \in Workers : job'[y] \in {job[y], NoJob} \cup ActivityJob,
         UNCHANGED policy, UNCHANGED disturbances \/ Disturbance
  PROVE  WorkflowInvariant'
<1>1. lane \in Lanes /\ lane' \in Lanes
  BY DEF WorkflowInvariant, Good
<1>2. PICK T, later : T = lane' /\ later = job'
  OBVIOUS
<1>3. Holding(T, later)
  BY <1>1, <1>2, HoldingKept DEF WorkflowInvariant
<1>4. disturbances' \in 0 .. MaxDisturbances
  BY WorkflowAssumption DEF WorkflowInvariant, Disturbance
<1>5. Orphans(lane)'
  BY DEF Good, Orphans
<1>6. Good(lane, {})'
  BY <1>5 DEF Good, OnlyRunning
<1>7. Holding(lane, job)'
  BY <1>2, <1>3 DEF Holding
<1> QED BY <1>4, <1>6, <1>7 DEF WorkflowInvariant

LEMMA WorkflowInitially ==
  ASSUME WorkflowInit
  PROVE  WorkflowInvariant
<1>1. lane \in Lanes
  <2>1. <<>> \in Seq(Event)
    OBVIOUS
  <2> QED BY <2>1, NoTaskTyped DEF WorkflowInit, Lanes, Statuses
<1>2. /\ \A w \in Workflows : /\ lane.status[w] = "none" /\ lane.history[w] = <<>>
                              /\ lane.task[w] = NoTask
      /\ lane.timers = {} /\ lane.activities = {}
  BY DEF WorkflowInit
<1>3. Good(lane, {})
  BY <1>1, <1>2, FS_EmptySet DEF Good, Told, OnlyRunning, Orphans
<1>4. job \in [Workers -> Jobs]
  BY DEF WorkflowInit, Jobs
<1>5. Holding(lane, job)
  BY DEF WorkflowInit, Holding, NoJob
<1>6. policy \in ChildPolicies /\ disturbances \in 0 .. MaxDisturbances
  BY WorkflowAssumption DEF WorkflowInit
<1> QED BY <1>3, <1>4, <1>5, <1>6 DEF WorkflowInvariant

LEMMA StartWorkflowKeeps ==
  ASSUME WorkflowInvariant, NEW w \in Workflows, StartWorkflow(w)
  PROVE  WorkflowInvariant' /\ Keeps(lane, lane')
<1>1. Good(lane, {}) /\ lane.status[w] = "none" /\ Parent[w] \notin Workflows
  BY WorkflowAssumption DEF WorkflowInvariant, StartWorkflow, Roots
<1>2. Good(lane', {}) /\ Keeps(lane, lane')
  <2>1. PICK T : T = lane'
    OBVIOUS
  <2>2. T = Start(lane, w)
    BY <2>1 DEF StartWorkflow
  <2>3. Good(T, {}) /\ Keeps(lane, T)
    BY <1>1, <2>2, StartGood
  <2> QED BY <2>1, <2>3
<1>3. job' \in [Workers -> Jobs] /\ \A y \in Workers : job'[y] \in {job[y], NoJob} \cup ActivityJob
  BY DEF StartWorkflow, WorkflowInvariant
<1> QED BY <1>2, <1>3, StepKeeps DEF StartWorkflow

LEMMA SendKeeps ==
  ASSUME WorkflowInvariant, NEW w \in Workflows, NEW kind \in ExternalKinds, Send(w, kind)
  PROVE  WorkflowInvariant' /\ Keeps(lane, lane')
<1>1. PICK T, n, e : T = lane' /\ n = disturbances' /\ e = E(kind, IF kind = "update" THEN n ELSE 0)
  OBVIOUS
<1>2. n \in Nat
  BY <1>1, WorkflowAssumption DEF WorkflowInvariant, Send, Disturbance
<1>3. e \in Event /\ e.type # "closed"
  <2>1. kind \in {"signal", "cancel", "update"}
    BY WorkflowAssumption
  <2> QED BY <1>1, <1>2, <2>1, EventsTyped DEF EventTypes
<1>4. T = Wake(lane, w, e)
  BY <1>1 DEF Send
<1>5. Good(T, {}) /\ Keeps(lane, T)
  <2>1. Good(lane, {}) /\ lane.status[w] = "RUNNING"
    BY DEF WorkflowInvariant, Send
  <2> QED BY <1>3, <1>4, <2>1, WakeGood
<1>6. job' \in [Workers -> Jobs] /\ \A y \in Workers : job'[y] \in {job[y], NoJob} \cup ActivityJob
  BY DEF Send, WorkflowInvariant
<1> QED BY <1>1, <1>5, <1>6, StepKeeps DEF Send

LEMMA TerminateKeeps ==
  ASSUME WorkflowInvariant, NEW w \in Workflows, Terminate(w)
  PROVE  WorkflowInvariant' /\ Keeps(lane, lane')
<1>1. PICK T, C : T = lane' /\ C = Close(lane, w, "TERMINATED")
  OBVIOUS
<1>2. Good(lane, {}) /\ lane.status[w] = "RUNNING" /\ policy \in ChildPolicies
  BY DEF WorkflowInvariant, Terminate
<1>3. Good(C, {} \cup {w}) /\ Keeps(lane, C)
  BY <1>1, <1>2, CloseGood DEF Statuses
<1>4. T = DropTask(C, w)
  BY <1>1 DEF Terminate
<1>5. Good(T, {}) /\ Keeps(C, T)
  BY <1>3, <1>4, DropTaskGood
<1>6. Keeps(lane, T)
  <2>1. lane \in Lanes /\ C \in Lanes /\ T \in Lanes
    BY <1>2, <1>3, <1>5 DEF Good
  <2> QED BY <1>3, <1>5, <2>1, KeepsTransitive
<1>7. job' \in [Workers -> Jobs] /\ \A y \in Workers : job'[y] \in {job[y], NoJob} \cup ActivityJob
  BY DEF Terminate, WorkflowInvariant
<1> QED BY <1>1, <1>5, <1>6, <1>7, StepKeeps DEF Terminate

\* The worker x is given the task of w.
LEMMA GiveTask ==
  ASSUME WorkflowInvariant, NEW x \in Workers, NEW S, Good(S, {}), Keeps(lane, S),
         UNCHANGED policy, UNCHANGED disturbances \/ Disturbance, NEW w \in Available(S),
         lane' = WithTask(S, w, [lease |-> "held", token |-> x]),
         job' = [job EXCEPT ![x] = [kind |-> "workflow", workflow |-> w,
                                    seen |-> Len(S.history[w])]]
  PROVE  WorkflowInvariant'
<1>1. S \in Lanes /\ lane \in Lanes /\ w \in Workflows
  BY DEF Good, WorkflowInvariant, Available
<1>2. PICK T, t, j, later :
        /\ T = lane' /\ t = [lease |-> "held", token |-> x] /\ later = job'
        /\ j = [kind |-> "workflow", workflow |-> w, seen |-> Len(S.history[w])]
  OBVIOUS
<1>3. S.status[w] = "RUNNING"
  <2>1. S.task[w] # NoTask
    BY DEF Available, NoTask
  <2> QED BY <1>1, <2>1 DEF Good, OnlyRunning
<1>4. t \in Tasks
  BY <1>2 DEF Tasks, Leases
<1>5. T = WithTask(S, w, t)
  BY <1>2
<1>6. /\ Good(T, {}) /\ T.task = [S.task EXCEPT ![w] = t] /\ T.history = S.history
  BY <1>1, <1>3, <1>4, <1>5, TaskGood
<1>7. Len(S.history[w]) \in Nat /\ Len(S.history[w]) >= 1
  <2>1. S.history[w] \in Seq(Event)
    BY <1>1 DEF Lanes
  <2> QED BY <1>1, <1>3, <2>1, LenProperties DEF Good, Told
<1>8. j \in Jobs
  BY <1>1, <1>2, <1>7 DEF Jobs, WorkflowJob
<1>9. later \in [Workers -> Jobs] /\ later[x] = j /\ \A y \in Workers \ {x} : later[y] = job[y]
  BY <1>2, <1>8 DEF WorkflowInvariant
<1>10. Holding(T, later)
  <2>1. SUFFICES ASSUME NEW y \in Workers, later[y].kind = "workflow",
                        T.task[later[y].workflow].token = y
                 PROVE  later[y].seen \in 1 .. Len(T.history[later[y].workflow])
    BY DEF Holding
  <2>2. CASE y = x
    BY <1>2, <1>6, <1>7, <1>9, <2>2
  <2>3. CASE y # x
    <3>1. PICK v : v = later[y].workflow
      OBVIOUS
    <3>2. later[y] = job[y] /\ v \in Workflows
      BY <1>9, <2>1, <2>3, <3>1, JobsAre
    <3>3. v # w
      BY <1>1, <1>2, <1>6, <2>1, <2>3, <3>1 DEF Lanes
    <3>4. S.task[v].token = y
      BY <1>1, <1>6, <2>1, <3>1, <3>2, <3>3 DEF Lanes
    <3>5. lane.task[v].token = y /\ Len(S.history[v]) >= Len(lane.history[v])
      BY <3>2, <3>4, WorkflowAssumption DEF Keeps
    <3>6. job[y].seen \in 1 .. Len(lane.history[v])
      BY <2>1, <3>1, <3>2, <3>5 DEF WorkflowInvariant, Holding
    <3>7. Len(S.history[v]) \in Nat /\ Len(lane.history[v]) \in Nat
      BY <1>1, <3>2, LenProperties DEF Lanes
    <3>8. job[y].seen \in 1 .. Len(S.history[v])
      BY <3>5, <3>6, <3>7
    <3> QED BY <1>6, <3>1, <3>2, <3>8
  <2> QED BY <2>2, <2>3
<1>11. disturbances' \in 0 .. MaxDisturbances
  BY WorkflowAssumption DEF WorkflowInvariant, Disturbance
<1>12. Good(lane, {})'
  <2>1. Orphans(lane)'
    BY <1>2, <1>6 DEF Good, Orphans
  <2> QED BY <1>2, <1>6, <2>1 DEF Good, OnlyRunning
<1>13. Holding(lane, job)'
  BY <1>2, <1>10 DEF Holding
<1> QED BY <1>2, <1>9, <1>11, <1>12, <1>13 DEF WorkflowInvariant

LEMMA PollWorkflowKeeps ==
  ASSUME WorkflowInvariant, NEW x \in Workers, NEW due \in SUBSET lane.timers,
         NEW late \in SUBSET {w \in Roots : lane.status[w] = "RUNNING"},
         PollWorkflow(x, due, late)
  PROVE  WorkflowInvariant'
<1>1. PICK F, S : F = FireTimers(lane, due) /\ S = ExpireWorkflows(F, late)
  OBVIOUS
<1>2. Good(lane, {}) /\ policy \in ChildPolicies
  BY DEF WorkflowInvariant
<1>3. Good(F, {}) /\ Keeps(lane, F) /\ F.status = lane.status
  BY <1>1, <1>2, FireTimersGood
<1>4. Good(S, {}) /\ Keeps(F, S)
  <2>1. late \in SUBSET Roots /\ \A w \in late : F.status[w] = "RUNNING"
    BY <1>3
  <2> QED BY <1>1, <1>2, <1>3, <2>1, ExpireWorkflowsGood
<1>5. Keeps(lane, S)
  <2>1. lane \in Lanes /\ F \in Lanes /\ S \in Lanes
    BY <1>2, <1>3, <1>4 DEF Good
  <2> QED BY <1>3, <1>4, <2>1, KeepsTransitive
<1>6. UNCHANGED policy /\ (UNCHANGED disturbances \/ Disturbance)
  BY DEF PollWorkflow
<1>7. \/ lane' = S /\ UNCHANGED job
      \/ \E w \in Available(S) :
           /\ job' = [job EXCEPT ![x] = [kind |-> "workflow", workflow |-> w,
                                         seen |-> Len(S.history[w])]]
           /\ lane' = WithTask(S, w, [lease |-> "held", token |-> x])
  BY <1>1 DEF PollWorkflow, WithTask
<1>8. CASE lane' = S /\ UNCHANGED job
  <2>1. job' \in [Workers -> Jobs] /\ \A y \in Workers : job'[y] \in {job[y], NoJob} \cup ActivityJob
    BY <1>8 DEF WorkflowInvariant
  <2> QED BY <1>4, <1>5, <1>6, <1>8, <2>1, StepKeeps
<1>9. ASSUME NEW w \in Available(S),
             job' = [job EXCEPT ![x] = [kind |-> "workflow", workflow |-> w,
                                        seen |-> Len(S.history[w])]],
             lane' = WithTask(S, w, [lease |-> "held", token |-> x])
      PROVE  WorkflowInvariant'
  BY <1>4, <1>5, <1>6, <1>9, GiveTask
<1> QED BY <1>7, <1>8, <1>9

\* The holder of a task is at work on a workflow that runs.
LEMMA TaskHeld ==
  ASSUME WorkflowInvariant, NEW x \in Workers, HasTask(x)
  PROVE  /\ job[x].workflow \in Workflows /\ lane.status[job[x].workflow] = "RUNNING"
         /\ job[x].seen \in 1 .. Len(lane.history[job[x].workflow])
<1>1. job[x] \in Jobs /\ job[x].kind = "workflow" /\ lane.task[job[x].workflow].token = x
  BY DEF WorkflowInvariant, HasTask
<1>2. job[x].workflow \in Workflows
  BY <1>1, JobsAre
<1>3. lane.task[job[x].workflow] # NoTask
  BY <1>1, WorkflowAssumption DEF NoTask
<1>4. lane.status[job[x].workflow] = "RUNNING"
  BY <1>2, <1>3 DEF WorkflowInvariant, Good, OnlyRunning
<1> QED BY <1>1, <1>2, <1>4 DEF WorkflowInvariant, Holding

LEMMA CompleteWorkflowKeeps ==
  ASSUME WorkflowInvariant, NEW x \in Workers, CompleteWorkflow(x)
  PROVE  WorkflowInvariant' /\ Keeps(lane, lane')
<1>1. PICK w, n, D, answer, A, T :
        /\ w = job[x].workflow /\ n = job[x].seen /\ D = DropTask(lane, w)
        /\ answer = Replay(w, n) /\ A = Apply(D, w, answer) /\ T = lane'
  OBVIOUS
<1>2. w \in Workflows /\ lane.status[w] = "RUNNING" /\ n \in 1 .. Len(lane.history[w])
  BY <1>1, TaskHeld DEF CompleteWorkflow
<1>3. Good(lane, {}) /\ lane \in Lanes /\ policy \in ChildPolicies
  BY DEF WorkflowInvariant, Good
<1>4. Good(D, {}) /\ Keeps(lane, D) /\ D.task[w] = NoTask /\ D.status = lane.status
  <2>1. Good(lane, {} \cup {w})
    BY <1>3, GoodAtLeast
  <2>2. PICK L : L = lane
    OBVIOUS
  <2>3. w \in Workflows /\ Good(L, {} \cup {w}) /\ D = DropTask(L, w)
    BY <1>1, <1>2, <2>1, <2>2
  <2>4. Good(D, {}) /\ Keeps(L, D) /\ D.task[w] = NoTask /\ D.status = L.status
    BY <2>3, DropTaskGood
  <2> QED BY <2>2, <2>4
<1>5. answer \in Answers(w)
  BY <1>1, <1>2, <1>3, ReplayIs
<1>6. /\ ~ChildExists(lane, w, answer.decision)
      /\ T = IF Len(lane.history[w]) > n /\ A.status[w] = "RUNNING" THEN Enqueue(A, w) ELSE A
  BY <1>1 DEF CompleteWorkflow
<1>7. ~ChildExists(D, w, answer.decision)
  BY <1>4, <1>6 DEF ChildExists
<1>8. Good(A, {}) /\ Keeps(D, A)
  BY <1>1, <1>2, <1>3, <1>4, <1>5, <1>7, ApplyGood
<1>9. Good(T, {}) /\ Keeps(A, T)
  <2>1. CASE T = A
    BY <1>8, <2>1, KeepsItself DEF Good
  <2>2. CASE T = Enqueue(A, w) /\ A.status[w] = "RUNNING"
    BY <1>2, <1>8, <2>2, EnqueueGood
  <2> QED BY <1>6, <2>1, <2>2
<1>10. Keeps(lane, T)
  <2>1. D \in Lanes /\ A \in Lanes /\ T \in Lanes
    BY <1>4, <1>8, <1>9 DEF Good
  <2>2. Keeps(lane, A)
    BY <1>3, <1>4, <1>8, <2>1, KeepsTransitive
  <2> QED BY <1>3, <1>9, <2>1, <2>2, KeepsTransitive
<1>11. job' \in [Workers -> Jobs] /\ \A y \in Workers : job'[y] \in {job[y], NoJob} \cup ActivityJob
  BY DoneJobs DEF CompleteWorkflow, WorkflowInvariant
<1> QED BY <1>1, <1>9, <1>10, <1>11, StepKeeps DEF CompleteWorkflow

LEMMA FailTaskKeeps ==
  ASSUME WorkflowInvariant, NEW x \in Workers, FailTask(x)
  PROVE  WorkflowInvariant' /\ Keeps(lane, lane')
<1>1. PICK w, e, A, T :
        /\ w = job[x].workflow /\ e = E("taskFailed", 0) /\ A = AppendEvent(lane, w, e) /\ T = lane'
  OBVIOUS
<1>2. w \in Workflows /\ lane.status[w] = "RUNNING"
  BY <1>1, TaskHeld DEF FailTask
<1>3. e \in Event /\ e.type # "closed"
  BY <1>1, EventsTyped DEF EventTypes
<1>4. Good(lane, {}) /\ lane \in Lanes
  BY DEF WorkflowInvariant, Good
<1>5. Good(A, {}) /\ Keeps(lane, A) /\ A.status = lane.status
  BY <1>1, <1>2, <1>3, <1>4, AppendEventGood
<1>6. A \in Lanes
  BY <1>5 DEF Good
<1>7. T = WithTask(A, w, FreshTask)
  BY <1>1 DEF FailTask, WithTask
<1>8. /\ Good(T, {}) /\ T.task = [A.task EXCEPT ![w] = FreshTask] /\ T.history = A.history
  <2>1. A.status[w] = "RUNNING" /\ FreshTask \in Tasks
    BY <1>2, <1>5, NoTaskTyped
  <2> QED BY <1>2, <1>5, <1>7, <2>1, TaskGood
<1>9. Keeps(lane, T)
  <2>1. T.task[w] = FreshTask /\ \A v \in Workflows \ {w} : T.task[v] = A.task[v]
    BY <1>2, <1>6, <1>8 DEF Lanes
  <2> QED BY <1>5, <1>8, <2>1 DEF Keeps, FreshTask
<1>10. job' \in [Workers -> Jobs] /\ \A y \in Workers : job'[y] \in {job[y], NoJob} \cup ActivityJob
  BY DoneJobs DEF FailTask, WorkflowInvariant
<1> QED BY <1>1, <1>8, <1>9, <1>10, StepKeeps DEF FailTask

\* An activity of a running workflow is replaced.
LEMMA ReplaceGood ==
  ASSUME NEW S, Good(S, {}), NEW a \in Activities, NEW b \in Activities,
         b.workflow = a.workflow, S.status[a.workflow] = "RUNNING",
         NEW T, T = WithActivities(S, (S.activities \ {a}) \cup {b})
  PROVE  Good(T, {}) /\ Keeps(S, T) /\ T.status = S.status
<1>1. PICK acts : acts = (S.activities \ {a}) \cup {b}
  OBVIOUS
<1>2. IsFiniteSet(acts)
  <2>1. IsFiniteSet(S.activities \ {a})
    BY FiniteParts DEF Good
  <2> QED BY <1>1, <2>1, FS_AddElement
<1>3. Working(S, acts)
  BY <1>1, <1>2 DEF Good, Lanes, OnlyRunning, Working
<1>4. T = WithActivities(S, acts)
  BY <1>1
<1>5. PICK X : X = {}
  OBVIOUS
<1>6. Good(S, X)
  BY <1>5
<1>7. Good(T, X) /\ Keeps(S, T) /\ T.status = S.status
  BY <1>3, <1>4, <1>6, WithActivitiesGood
<1> QED BY <1>5, <1>7

LEMMA RemoveGood ==
  ASSUME NEW S, Good(S, {}), NEW a, NEW T, T = WithActivities(S, S.activities \ {a})
  PROVE  Good(T, {}) /\ Keeps(S, T) /\ T.status = S.status
<1>1. PICK acts : acts = S.activities \ {a}
  OBVIOUS
<1>2. IsFiniteSet(acts)
  BY <1>1, FiniteParts DEF Good
<1>3. Working(S, acts)
  BY <1>1, <1>2 DEF Good, Lanes, OnlyRunning, Working
<1>4. T = WithActivities(S, acts)
  BY <1>1
<1> QED BY <1>3, <1>4, WithActivitiesGood

LEMMA ActivitiesRunning ==
  ASSUME WorkflowInvariant, NEW a \in lane.activities
  PROVE  a \in Activities /\ a.workflow \in Workflows /\ lane.status[a.workflow] = "RUNNING"
         /\ a.command \in Nat
<1>1. a \in Activities /\ lane.status[a.workflow] = "RUNNING"
  BY DEF WorkflowInvariant, Good, Lanes, OnlyRunning
<1> QED BY <1>1 DEF Activities

LEMMA PollActivityKeeps ==
  ASSUME WorkflowInvariant, NEW x \in Workers, NEW late \in SUBSET lane.activities,
         PollActivity(x, late)
  PROVE  WorkflowInvariant' /\ Keeps(lane, lane')
<1>1. PICK S : S = FailOverdue(lane, late)
  OBVIOUS
<1>2. Good(lane, {}) /\ lane \in Lanes
  BY DEF WorkflowInvariant, Good
<1>3. Good(S, {}) /\ Keeps(lane, S) /\ S.status = lane.status
  BY <1>1, <1>2, FailOverdueGood
<1>4. UNCHANGED policy /\ (UNCHANGED disturbances \/ Disturbance)
  BY DEF PollActivity
<1>5. \/ lane' = S /\ UNCHANGED job
      \/ \E a \in lane.activities :
           /\ job' = [job EXCEPT ![x] = [kind |-> "activity", workflow |-> a.workflow,
                                         command |-> a.command]]
           /\ lane' = WithActivities(S, (S.activities \ {a})
                                          \cup {[a EXCEPT !.lease = "held", !.token = x]})
  BY <1>1 DEF PollActivity, WithActivities
<1>6. CASE lane' = S /\ UNCHANGED job
  <2>1. job' \in [Workers -> Jobs]
        /\ \A y \in Workers : job'[y] \in {job[y], NoJob} \cup ActivityJob
    BY <1>6 DEF WorkflowInvariant
  <2> QED BY <1>3, <1>4, <1>6, <2>1, StepKeeps
<1>7. ASSUME NEW a \in lane.activities,
             job' = [job EXCEPT ![x] = [kind |-> "activity", workflow |-> a.workflow,
                                        command |-> a.command]],
             lane' = WithActivities(S, (S.activities \ {a})
                                         \cup {[a EXCEPT !.lease = "held", !.token = x]})
      PROVE  WorkflowInvariant' /\ Keeps(lane, lane')
  <2>1. /\ a \in Activities /\ a.workflow \in Workflows /\ lane.status[a.workflow] = "RUNNING"
        /\ a.command \in Nat
    BY ActivitiesRunning
  <2>2. PICK T, b : T = lane' /\ b = [a EXCEPT !.lease = "held", !.token = x]
    OBVIOUS
  <2>3. b \in Activities /\ b.workflow = a.workflow
    BY <2>1, <2>2 DEF Activities, Leases
  <2>4. T = WithActivities(S, (S.activities \ {a}) \cup {b})
    BY <1>7, <2>2
  <2>5. S.status[a.workflow] = "RUNNING"
    BY <1>3, <2>1
  <2>6. Good(T, {}) /\ Keeps(S, T)
    BY <1>3, <2>1, <2>3, <2>4, <2>5, ReplaceGood
  <2>7. Keeps(lane, T)
    <3>1. S \in Lanes /\ T \in Lanes
      BY <1>3, <2>6 DEF Good
    <3> QED BY <1>2, <1>3, <2>6, <3>1, KeepsTransitive
  <2>8. PICK j : j = [kind |-> "activity", workflow |-> a.workflow, command |-> a.command]
    OBVIOUS
  <2>9. j \in ActivityJob /\ j \in Jobs
    BY <2>1, <2>8 DEF ActivityJob, Jobs
  <2>10. job' \in [Workers -> Jobs]
         /\ \A y \in Workers : job'[y] \in {job[y], NoJob} \cup ActivityJob
    BY <1>7, <2>8, <2>9 DEF WorkflowInvariant
  <2> QED BY <1>4, <2>2, <2>6, <2>7, <2>10, StepKeeps
<1> QED BY <1>5, <1>6, <1>7

LEMMA CompleteActivityKeeps ==
  ASSUME WorkflowInvariant, NEW x \in Workers, NEW result \in {"done", "failed"},
         CompleteActivity(x, result)
  PROVE  WorkflowInvariant' /\ Keeps(lane, lane')
<1>1. PICK a \in lane.activities :
        lane' = Wake(WithActivities(lane, lane.activities \ {a}), a.workflow, E(result, a.command))
  BY DEF CompleteActivity, Held, WithActivities
<1>2. PICK R, e, T : /\ R = WithActivities(lane, lane.activities \ {a})
                     /\ e = E(result, a.command) /\ T = lane'
  OBVIOUS
<1>3. Good(lane, {}) /\ lane \in Lanes
  BY DEF WorkflowInvariant, Good
<1>4. Good(R, {}) /\ Keeps(lane, R) /\ R.status = lane.status
  BY <1>2, <1>3, RemoveGood
<1>5. a.workflow \in Workflows /\ lane.status[a.workflow] = "RUNNING" /\ a.command \in Nat
  BY ActivitiesRunning
<1>6. e \in Event /\ e.type # "closed"
  BY <1>2, <1>5, EventsTyped DEF EventTypes
<1>7. Good(T, {}) /\ Keeps(R, T)
  <2>1. T = Wake(R, a.workflow, e) /\ R.status[a.workflow] = "RUNNING"
    BY <1>1, <1>2, <1>4, <1>5
  <2> QED BY <1>4, <1>5, <1>6, <2>1, WakeGood
<1>8. Keeps(lane, T)
  <2>1. R \in Lanes /\ T \in Lanes
    BY <1>4, <1>7 DEF Good
  <2> QED BY <1>3, <1>4, <1>7, <2>1, KeepsTransitive
<1>9. job' \in [Workers -> Jobs] /\ \A y \in Workers : job'[y] \in {job[y], NoJob} \cup ActivityJob
  BY DoneJobs DEF CompleteActivity, WorkflowInvariant
<1>10. UNCHANGED policy /\ (UNCHANGED disturbances \/ Disturbance)
  BY DEF CompleteActivity
<1> QED BY <1>2, <1>7, <1>8, <1>9, <1>10, StepKeeps

LEMMA RetryActivityKeeps ==
  ASSUME WorkflowInvariant, NEW x \in Workers, RetryActivity(x)
  PROVE  WorkflowInvariant' /\ Keeps(lane, lane')
<1>1. PICK a \in lane.activities :
        /\ a.attempt < MaxAttempts
        /\ lane' = [AppendEvent(lane, a.workflow, E("retry", a.command)) EXCEPT !.activities =
             (@ \ {a}) \cup {[a EXCEPT !.attempt = @ + 1, !.lease = "none", !.token = NoWorker]}]
  BY DEF RetryActivity, Held
<1>2. PICK A, b, e, T :
        /\ A = AppendEvent(lane, a.workflow, e) /\ e = E("retry", a.command) /\ T = lane'
        /\ b = [a EXCEPT !.attempt = @ + 1, !.lease = "none", !.token = NoWorker]
  OBVIOUS
<1>3. Good(lane, {}) /\ lane \in Lanes
  BY DEF WorkflowInvariant, Good
<1>4. /\ a \in Activities /\ a.workflow \in Workflows /\ lane.status[a.workflow] = "RUNNING"
      /\ a.command \in Nat
  BY ActivitiesRunning
<1>5. e \in Event /\ e.type # "closed"
  BY <1>2, <1>4, EventsTyped DEF EventTypes
<1>6. Good(A, {}) /\ Keeps(lane, A) /\ A.status = lane.status
  BY <1>2, <1>3, <1>4, <1>5, AppendEventGood
<1>7. b \in Activities /\ b.workflow = a.workflow
  <2>1. a.attempt + 1 \in 1 .. MaxAttempts
    BY <1>1, <1>4, WorkflowAssumption DEF Activities
  <2> QED BY <1>2, <1>4, <2>1 DEF Activities, Leases
<1>8. T = WithActivities(A, (A.activities \ {a}) \cup {b})
  BY <1>1, <1>2 DEF WithActivities
<1>9. Good(T, {}) /\ Keeps(A, T)
  <2>1. A.status[a.workflow] = "RUNNING"
    BY <1>4, <1>6
  <2> QED BY <1>4, <1>6, <1>7, <1>8, <2>1, ReplaceGood
<1>10. Keeps(lane, T)
  <2>1. A \in Lanes /\ T \in Lanes
    BY <1>6, <1>9 DEF Good
  <2> QED BY <1>3, <1>6, <1>9, <2>1, KeepsTransitive
<1>11. job' \in [Workers -> Jobs] /\ \A y \in Workers : job'[y] \in {job[y], NoJob} \cup ActivityJob
  BY DoneJobs DEF RetryActivity, WorkflowInvariant
<1> QED BY <1>2, <1>9, <1>10, <1>11, StepKeeps DEF RetryActivity

\* The lease of an activity changes.
LEMMA LeaseKeeps ==
  ASSUME WorkflowInvariant, NEW a \in lane.activities, NEW lease \in Leases,
         lane' = WithActivities(lane, (lane.activities \ {a}) \cup {[a EXCEPT !.lease = lease]}),
         UNCHANGED job, UNCHANGED policy, UNCHANGED disturbances \/ Disturbance
  PROVE  WorkflowInvariant' /\ Keeps(lane, lane')
<1>1. a \in Activities /\ lane.status[a.workflow] = "RUNNING"
  BY ActivitiesRunning
<1>2. PICK b, T : b = [a EXCEPT !.lease = lease] /\ T = lane'
  OBVIOUS
<1>3. b \in Activities /\ b.workflow = a.workflow
  BY <1>1, <1>2 DEF Activities
<1>4. T = WithActivities(lane, (lane.activities \ {a}) \cup {b})
  BY <1>2
<1>5. Good(T, {}) /\ Keeps(lane, T)
  BY <1>1, <1>3, <1>4, ReplaceGood DEF WorkflowInvariant
<1>6. job' \in [Workers -> Jobs] /\ \A y \in Workers : job'[y] \in {job[y], NoJob} \cup ActivityJob
  BY DEF WorkflowInvariant
<1> QED BY <1>2, <1>5, <1>6, StepKeeps

LEMMA HeartbeatKeeps ==
  ASSUME WorkflowInvariant, NEW x \in Workers, Heartbeat(x)
  PROVE  WorkflowInvariant' /\ Keeps(lane, lane')
<1>1. PICK a \in lane.activities :
        lane' = WithActivities(lane, (lane.activities \ {a}) \cup {[a EXCEPT !.lease = "held"]})
  BY DEF Heartbeat, Held, WithActivities
<1>2. "held" \in Leases /\ UNCHANGED job /\ UNCHANGED policy /\ UNCHANGED disturbances
  BY DEF Heartbeat, Leases
<1> QED BY <1>1, <1>2, LeaseKeeps

LEMMA ExpireLeaseKeeps ==
  ASSUME WorkflowInvariant, NEW x \in Workers, ExpireLease(x)
  PROVE  WorkflowInvariant' /\ Keeps(lane, lane')
<1>1. UNCHANGED job /\ UNCHANGED policy /\ (UNCHANGED disturbances \/ Disturbance)
  BY DEF ExpireLease
<1>2. CASE \E a \in lane.activities :
             lane' = WithActivities(lane, (lane.activities \ {a}) \cup {[a EXCEPT !.lease = "expired"]})
  <2>1. "expired" \in Leases
    BY DEF Leases
  <2> QED BY <1>1, <1>2, <2>1, LeaseKeeps
<1>3. ASSUME NEW w \in Workflows, lane.task[w] = [lease |-> "held", token |-> x],
             lane' = [lane EXCEPT !.task[w].lease = "expired"]
      PROVE  WorkflowInvariant' /\ Keeps(lane, lane')
  <2>1. PICK t, T : t = [lease |-> "expired", token |-> x] /\ T = lane'
    OBVIOUS
  <2>2. Good(lane, {}) /\ lane \in Lanes
    BY DEF WorkflowInvariant, Good
  <2>3. T = WithTask(lane, w, t)
    <3>1. [lane.task[w] EXCEPT !.lease = "expired"] = t
      BY <1>3, <2>1
    <3>2. T = [lane EXCEPT !.task = [lane.task EXCEPT ![w] = t]]
      BY <1>3, <2>1, <2>2, <3>1 DEF Lanes
    <3> QED BY <3>2 DEF WithTask
  <2>4. t \in Tasks
    BY <2>1 DEF Tasks, Leases
  <2>5. lane.status[w] = "RUNNING"
    <3>1. lane.task[w] # NoTask
      BY <1>3 DEF NoTask
    <3> QED BY <2>2, <3>1 DEF Good, OnlyRunning
  <2>6. Good(T, {}) /\ T.task = [lane.task EXCEPT ![w] = t] /\ T.history = lane.history
    BY <2>2, <2>3, <2>4, <2>5, TaskGood
  <2>7. Keeps(lane, T)
    <3>1. T.task[w].token = lane.task[w].token /\ \A v \in Workflows \ {w} : T.task[v] = lane.task[v]
      BY <1>3, <2>1, <2>2, <2>6 DEF Lanes
    <3>2. \A v \in Workflows : Len(lane.history[v]) \in Nat
      BY <2>2, LenProperties DEF Lanes
    <3> QED BY <2>6, <3>1, <3>2 DEF Keeps
  <2>8. job' \in [Workers -> Jobs] /\ \A y \in Workers : job'[y] \in {job[y], NoJob} \cup ActivityJob
    BY <1>1 DEF WorkflowInvariant
  <2> QED BY <1>1, <2>1, <2>6, <2>7, <2>8, StepKeeps
<1> QED BY <1>2, <1>3 DEF ExpireLease, WithActivities

LEMMA JobEnds ==
  ASSUME WorkflowInvariant, NEW x \in Workers, WorkerLost(x) \/ Refused(x)
  PROVE  WorkflowInvariant' /\ Keeps(lane, lane')
<1>1. Good(lane, {}) /\ lane' = lane /\ Keeps(lane, lane)
  BY KeepsItself DEF WorkflowInvariant, Good, WorkerLost, Refused
<1>2. job' \in [Workers -> Jobs] /\ \A y \in Workers : job'[y] \in {job[y], NoJob} \cup ActivityJob
  BY DoneJobs DEF WorkerLost, Refused, WorkflowInvariant
<1>3. UNCHANGED policy /\ (UNCHANGED disturbances \/ Disturbance)
  BY DEF WorkerLost, Refused
<1> QED BY <1>1, <1>2, <1>3, StepKeeps

LEMMA WorkflowSteps ==
  ASSUME WorkflowInvariant, [WorkflowNext]_workflowVars
  PROVE  WorkflowInvariant'
<1>1. CASE UNCHANGED workflowVars
  <2>1. lane' = lane /\ job' = job /\ policy' = policy /\ disturbances' = disturbances
    BY <1>1 DEF workflowVars
  <2>2. Good(lane', {}) /\ Keeps(lane, lane')
    BY <2>1, KeepsItself DEF WorkflowInvariant, Good
  <2>3. job' \in [Workers -> Jobs] /\ \A y \in Workers : job'[y] \in {job[y], NoJob} \cup ActivityJob
    BY <2>1 DEF WorkflowInvariant
  <2> QED BY <2>1, <2>2, <2>3, StepKeeps
<1>2. ASSUME NEW w \in Workflows, StartWorkflow(w)
      PROVE  WorkflowInvariant'
  BY <1>2, StartWorkflowKeeps
<1>3. ASSUME NEW w \in Workflows, Terminate(w)
      PROVE  WorkflowInvariant'
  BY <1>3, TerminateKeeps
<1>4. ASSUME NEW w \in Workflows, NEW kind \in ExternalKinds, Send(w, kind)
      PROVE  WorkflowInvariant'
  BY <1>4, SendKeeps
<1>5. ASSUME NEW x \in Workers, PollsWorkflow(x)
      PROVE  WorkflowInvariant'
  BY <1>5, PollWorkflowKeeps DEF PollsWorkflow
<1>6. ASSUME NEW x \in Workers, CompleteWorkflow(x)
      PROVE  WorkflowInvariant'
  BY <1>6, CompleteWorkflowKeeps
<1>7. ASSUME NEW x \in Workers, FailTask(x)
      PROVE  WorkflowInvariant'
  BY <1>7, FailTaskKeeps
<1>8. ASSUME NEW x \in Workers, NEW late \in SUBSET lane.activities, PollActivity(x, late)
      PROVE  WorkflowInvariant'
  BY <1>8, PollActivityKeeps
<1>9. ASSUME NEW x \in Workers, NEW result \in {"done", "failed"}, CompleteActivity(x, result)
      PROVE  WorkflowInvariant'
  BY <1>9, CompleteActivityKeeps
<1>10. ASSUME NEW x \in Workers, RetryActivity(x)
       PROVE  WorkflowInvariant'
  BY <1>10, RetryActivityKeeps
<1>11. ASSUME NEW x \in Workers, Heartbeat(x)
       PROVE  WorkflowInvariant'
  BY <1>11, HeartbeatKeeps
<1>12. ASSUME NEW x \in Workers, ExpireLease(x)
       PROVE  WorkflowInvariant'
  BY <1>12, ExpireLeaseKeeps
<1>13. ASSUME NEW x \in Workers, WorkerLost(x) \/ Refused(x)
       PROVE  WorkflowInvariant'
  BY <1>13, JobEnds
<1> QED BY <1>1, <1>2, <1>3, <1>4, <1>5, <1>6, <1>7, <1>8, <1>9, <1>10, <1>11, <1>12, <1>13
        DEF WorkflowNext

\* The invariant of the workflow engine (workflow.rs): what a history may look like
\* in each status, that only running workflows have tasks, timers and activities,
\* which children may outlive a parent, and that the holder of a task was given a
\* beginning of the history there is now.
THEOREM WorkflowInvariantHolds == WorkflowSpec => []WorkflowInvariant
<1>1. WorkflowInit => WorkflowInvariant
  BY WorkflowInitially
<1>2. WorkflowInvariant /\ [WorkflowNext]_workflowVars => WorkflowInvariant'
  BY WorkflowSteps
<1> QED BY <1>1, <1>2, PTL DEF WorkflowSpec

-----------------------------------------------------------------------------
(* What follows from it *)

\* The types of the workflow keys of the control lane, with an activity's attempt
\* within the limit of its retry policy (workflow.rs, complete_activity).
THEOREM WorkflowTypes == WorkflowSpec => []WorkflowTypeOK
<1>1. WorkflowInvariant => WorkflowTypeOK
  <2>1. SUFFICES ASSUME WorkflowInvariant
                 PROVE  WorkflowTypeOK
    OBVIOUS
  <2>2. lane \in Lanes
    BY <2>1 DEF WorkflowInvariant, Good
  <2> QED BY <2>1, <2>2 DEF WorkflowTypeOK, WorkflowInvariant, Lanes, Tasks, Activities, Jobs
<1> QED BY <1>1, WorkflowInvariantHolds, PTL

LEMMA OneClosingEvent ==
  ASSUME NEW w \in Workflows, lane \in Lanes, Closed(w), Told(lane.status[w], lane.history[w])
  PROVE  /\ lane.history[w][Len(lane.history[w])].type = "closed"
         /\ Count(w, LAMBDA e : e.type = "closed") = 1
<1>1. PICK h : h = lane.history[w]
  OBVIOUS
<1>2. h \in Seq(Event)
  BY <1>1 DEF Lanes
<1>3. /\ Len(h) \in Nat /\ Len(h) >= 1 /\ h[Len(h)].type = "closed"
      /\ \A i \in 1 .. Len(h) : h[i].type = "closed" => i = Len(h)
  BY <1>1, <1>2, LenProperties DEF Told, Closed
<1>4. {i \in 1 .. Len(h) : h[i].type = "closed"} = {Len(h)}
  BY <1>3
<1>5. Cardinality({Len(h)}) = 1
  BY FS_Singleton
<1>6. Count(w, LAMBDA e : e.type = "closed") = Cardinality({i \in 1 .. Len(h) : h[i].type = "closed"})
  BY <1>1 DEF Count
<1> QED BY <1>1, <1>3, <1>4, <1>5, <1>6

LEMMA SomeRequest ==
  ASSUME NEW w \in Workflows, lane \in Lanes, Asked(lane.history[w])
  PROVE  Count(w, LAMBDA e : e.type = "cancel") > 0
<1>1. PICK h, B : h = lane.history[w] /\ B = {i \in 1 .. Len(h) : h[i].type = "cancel"}
  OBVIOUS
<1>2. Len(h) \in Nat
  BY <1>1, LenProperties DEF Lanes
<1>3. IsFiniteSet(1 .. Len(h))
  BY <1>2, FS_Interval
<1>4. IsFiniteSet(B) /\ B # {}
  <2>1. B \in SUBSET (1 .. Len(h))
    BY <1>1
  <2> QED BY <1>1, <1>3, <2>1, FiniteParts DEF Asked
<1>5. Cardinality(B) \in Nat /\ Cardinality(B) # 0
  BY <1>4, FS_CardinalityType, FS_EmptySet
<1>6. Count(w, LAMBDA e : e.type = "cancel") = Cardinality(B)
  BY <1>1 DEF Count
<1> QED BY <1>5, <1>6

\* A closed workflow is over, and its children were dealt with: what close_workflow,
\* enqueue_workflow, the polls and the completions of a task and of activities leave
\* true of each other (workflow.rs).
THEOREM ClosedCorrect == WorkflowSpec => []ClosedIsFinal
<1>1. WorkflowInvariant => ClosedIsFinal
  <2>1. SUFFICES ASSUME WorkflowInvariant, NEW w \in Workflows, Closed(w)
                 PROVE  /\ lane.history[w][Len(lane.history[w])].type = "closed"
                        /\ Count(w, LAMBDA e : e.type = "closed") = 1
                        /\ lane.task[w] = NoTask
                        /\ \A t \in lane.timers : t[1] # w
                        /\ \A a \in lane.activities : a.workflow # w
                        /\ \A v \in Workflows : Parent[v] = w /\ lane.status[v] = "RUNNING" =>
                             \/ policy = "ABANDON"
                             \/ policy = "REQUEST_CANCEL" /\ \/ Count(v, LAMBDA e : e.type = "cancel") > 0
                                                             \/ lane.run[v] > 1
    BY DEF ClosedIsFinal
  <2>2. lane \in Lanes /\ Told(lane.status[w], lane.history[w])
    BY <2>1 DEF WorkflowInvariant, Good
  <2>3. /\ lane.history[w][Len(lane.history[w])].type = "closed"
        /\ Count(w, LAMBDA e : e.type = "closed") = 1
    BY <2>1, <2>2, OneClosingEvent
  <2>4. lane.task[w] = NoTask
    BY <2>1 DEF WorkflowInvariant, Good, OnlyRunning, Closed
  <2>5. /\ \A t \in lane.timers : t[1] # w
        /\ \A a \in lane.activities : a.workflow # w
    BY <2>1 DEF WorkflowInvariant, Good, OnlyRunning, Closed
  <2>6. ASSUME NEW v \in Workflows, Parent[v] = w, lane.status[v] = "RUNNING"
        PROVE  \/ policy = "ABANDON"
               \/ policy = "REQUEST_CANCEL" /\ \/ Count(v, LAMBDA e : e.type = "cancel") > 0
                                               \/ lane.run[v] > 1
    <3>1. \/ policy = "ABANDON"
          \/ policy = "REQUEST_CANCEL" /\ (Asked(lane.history[v]) \/ lane.run[v] > 1)
      BY <2>1, <2>6 DEF WorkflowInvariant, Good, Orphans, Closed
    <3>2. Asked(lane.history[v]) => Count(v, LAMBDA e : e.type = "cancel") > 0
      BY <2>2, SomeRequest
    <3> QED BY <3>1, <3>2
  <2> QED BY <2>3, <2>4, <2>5, <2>6
<1> QED BY <1>1, WorkflowInvariantHolds, PTL
=============================================================================
