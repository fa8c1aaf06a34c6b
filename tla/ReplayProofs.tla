---------------------------- MODULE ReplayProofs ----------------------------
(***************************************************************************)
(* Proofs that the histories WorkflowHistory writes can be replayed: the   *)
(* events of a history come in the order in which the workflow's code asks *)
(* for its commands, and each command has one result.  And that no wakeup  *)
(* is lost: a workflow without a task waits for a result that will come.   *)
(***************************************************************************)
EXTENDS WorkflowProofs

-----------------------------------------------------------------------------
(* The order of a history *)

IsResult(e, c) == e.type \in {"done", "failed"} /\ e.command = c
About(e) == e.type \in {"scheduled", "retry", "done", "failed"}

\* Event e may follow the first n events of h, a history of w: a command is asked
\* for behind the results of those before it, and has its result, and before that
\* its retries, behind its scheduling.
Fits(w, h, n, e) ==
  /\ e.type = "started" <=> n = 0
  /\ About(e) => e.command \in 1 .. Len(Programs[w])
  /\ e.type = "scheduled" =>
       /\ \A p \in 1 .. n : h[p].type = "scheduled" => h[p].command < e.command
       /\ \A c \in 1 .. e.command - 1 : \E p \in 1 .. n : h[p] = E("done", c)
  /\ e.type \in {"retry", "done", "failed"} =>
       /\ \E p \in 1 .. n : h[p] = E("scheduled", e.command)
       /\ \A p \in 1 .. n : ~IsResult(h[p], e.command)
  /\ e.type = "retry" => Programs[w][e.command] = "activity"

Ordered(w, h) == \A n \in 1 .. Len(h) : Fits(w, h, n - 1, h[n])

ScheduledIn(h, c) == \E p \in 1 .. Len(h) : h[p] = E("scheduled", c)
AnsweredIn(h, c) == \E p \in 1 .. Len(h) : IsResult(h[p], c)

-----------------------------------------------------------------------------
(* The invariant *)

\* Something will report the result of command c of w.
Pending(S, w, c) ==
  \/ <<w, c>> \in S.timers
  \/ \E a \in S.activities : a.workflow = w /\ a.command = c
  \/ \E v \in Workflows : Parent[v] = w /\ CommandOf(v) = c /\ S.status[v] = "RUNNING"

\* What is pending, or among the pairs of P, was asked for and has no result.
AwaitedOnce(S, P) ==
  \A w \in Workflows : \A c \in Nat :
    S.status[w] = "RUNNING" /\ (Pending(S, w, c) \/ <<w, c>> \in P)
    => ScheduledIn(S.history[w], c) /\ ~AnsweredIn(S.history[w], c)

\* Timers and activities are of commands that asked for them, one of each.
OfTheirKind(S) ==
  /\ \A t \in S.timers : t[2] \in 1 .. Len(Programs[t[1]]) /\ Programs[t[1]][t[2]] = "timer"
  /\ \A a \in S.activities :
       a.command \in 1 .. Len(Programs[a.workflow]) /\ Programs[a.workflow][a.command] = "activity"
  /\ \A a, b \in S.activities : a.workflow = b.workflow /\ a.command = b.command => a = b

\* A child that was asked for was started, and so was the parent of a child.
Begun(S) ==
  /\ \A w \in Workflows : \A c \in 1 .. Len(Programs[w]) :
       ScheduledIn(S.history[w], c) /\ Programs[w][c] \in Workflows => S.status[Programs[w][c]] # "none"
  /\ \A v \in Workflows :
       Parent[v] \in Workflows /\ S.status[v] # "none" => S.status[Parent[v]] # "none"

Orderly(S, P) ==
  /\ \A w \in Workflows : Ordered(w, S.history[w])
  /\ AwaitedOnce(S, P)
  /\ OfTheirKind(S)
  /\ Begun(S)

\* The holder of a task has seen every command that was asked for.
SeenScheduled(S, jobs) ==
  \A x \in Workers : \A n \in Nat :
    LET w == jobs[x].workflow IN
    jobs[x].kind = "workflow" /\ S.task[w].token = x =>
      (n \in 1 .. Len(S.history[w]) /\ S.history[w][n].type = "scheduled" => n <= jobs[x].seen)

ReplayInvariant ==
  /\ WorkflowInvariant
  /\ Orderly(lane, {})
  /\ SeenScheduled(lane, job)

-----------------------------------------------------------------------------
(* How a history grows *)

LEMMA FitsAlike ==
  ASSUME NEW w, NEW g, NEW h, NEW m \in Nat, NEW e, \A p \in 1 .. m : g[p] = h[p],
         Fits(w, h, m, e)
  PROVE  Fits(w, g, m, e)
BY DEF Fits

LEMMA OrderedMore ==
  ASSUME NEW w, NEW h \in Seq(Event), NEW e \in Event, Ordered(w, h), Fits(w, h, Len(h), e)
  PROVE  Ordered(w, Append(h, e))
<1>1. PICK g, m : g = Append(h, e) /\ m = Len(h)
  OBVIOUS
<1>2. /\ Len(g) = m + 1 /\ m \in Nat /\ g[m + 1] = e
      /\ \A i \in 1 .. m : g[i] = h[i]
  BY <1>1, Grown
<1>3. SUFFICES ASSUME NEW n \in 1 .. Len(g)
               PROVE  Fits(w, g, n - 1, g[n])
  BY <1>1 DEF Ordered
<1>4. n - 1 \in Nat /\ \A p \in 1 .. n - 1 : g[p] = h[p]
  BY <1>2
<1>5. Fits(w, h, n - 1, g[n])
  <2>1. CASE n = m + 1
    BY <1>1, <1>2, <2>1
  <2>2. CASE n # m + 1
    <3>1. n \in 1 .. m
      BY <1>2, <2>2
    <3> QED BY <1>1, <1>2, <3>1 DEF Ordered
  <2> QED BY <2>1, <2>2
<1> QED BY <1>4, <1>5, FitsAlike

LEMMA ScheduledMore ==
  ASSUME NEW h \in Seq(Event), NEW e \in Event, NEW c
  PROVE  ScheduledIn(Append(h, e), c) <=> ScheduledIn(h, c) \/ e = E("scheduled", c)
<1>1. PICK g, m : g = Append(h, e) /\ m = Len(h)
  OBVIOUS
<1>2. /\ Len(g) = m + 1 /\ m \in Nat /\ g[m + 1] = e
      /\ \A i \in 1 .. m : g[i] = h[i]
  BY <1>1, Grown
<1>3. \A p \in 1 .. m + 1 : p = m + 1 \/ p \in 1 .. m
  BY <1>2
<1>4. m + 1 \in 1 .. m + 1 /\ \A p \in 1 .. m : p \in 1 .. m + 1
  BY <1>2
<1> QED BY <1>1, <1>2, <1>3, <1>4 DEF ScheduledIn

LEMMA AnsweredMore ==
  ASSUME NEW h \in Seq(Event), NEW e \in Event, NEW c
  PROVE  AnsweredIn(Append(h, e), c) <=> AnsweredIn(h, c) \/ IsResult(e, c)
<1>1. PICK g, m : g = Append(h, e) /\ m = Len(h)
  OBVIOUS
<1>2. /\ Len(g) = m + 1 /\ m \in Nat /\ g[m + 1] = e
      /\ \A i \in 1 .. m : g[i] = h[i]
  BY <1>1, Grown
<1>3. \A p \in 1 .. m + 1 : p = m + 1 \/ p \in 1 .. m
  BY <1>2
<1>4. m + 1 \in 1 .. m + 1 /\ \A p \in 1 .. m : p \in 1 .. m + 1
  BY <1>2
<1> QED BY <1>1, <1>2, <1>3, <1>4 DEF AnsweredIn

\* Events that are not about commands.
Plain(e) == e.type # "started" /\ ~About(e)

\* History h became g, and nothing was said about commands.
Quiet(w, h, g) ==
  /\ \A c \in Nat : /\ ScheduledIn(g, c) <=> ScheduledIn(h, c)
                    /\ AnsweredIn(g, c) <=> AnsweredIn(h, c)
  /\ Ordered(w, h) => Ordered(w, g)
  /\ \A n \in 1 .. Len(g) : g[n].type = "scheduled" => n \in 1 .. Len(h) /\ h[n].type = "scheduled"

LEMMA QuietItself ==
  ASSUME NEW w, NEW h
  PROVE  Quiet(w, h, h)
BY DEF Quiet

LEMMA QuietMore ==
  ASSUME NEW w, NEW h \in Seq(Event), NEW g \in Seq(Event), Len(h) >= 1, Len(g) >= Len(h),
         \A n \in 1 .. Len(h) : g[n] = h[n],
         \A n \in Len(h) + 1 .. Len(g) : Plain(g[n])
  PROVE  Quiet(w, h, g)
<1>1. PICK m, l : m = Len(h) /\ l = Len(g)
  OBVIOUS
<1>2. /\ m \in Nat /\ l \in Nat /\ m >= 1 /\ l >= m
      /\ \A n \in 1 .. m : g[n] = h[n] /\ n \in 1 .. l
      /\ \A n \in 1 .. l : n \in 1 .. m \/ Plain(g[n])
  BY <1>1, LenProperties
<1>3. \A c \in Nat : ScheduledIn(g, c) <=> ScheduledIn(h, c)
  <2>1. \A c \in Nat : E("scheduled", c).type = "scheduled"
    BY DEF E
  <2> QED BY <1>1, <1>2, <2>1 DEF ScheduledIn, Plain, About
<1>4. \A c \in Nat : AnsweredIn(g, c) <=> AnsweredIn(h, c)
  BY <1>1, <1>2 DEF AnsweredIn, Plain, About, IsResult
<1>5. ASSUME Ordered(w, h)
      PROVE  Ordered(w, g)
  <2>1. SUFFICES ASSUME NEW n \in 1 .. l
                 PROVE  Fits(w, g, n - 1, g[n])
    BY <1>1 DEF Ordered
  <2>2. CASE n \in 1 .. m
    <3>1. n - 1 \in Nat /\ \A p \in 1 .. n - 1 : g[p] = h[p]
      BY <1>2, <2>2
    <3>2. Fits(w, h, n - 1, g[n])
      BY <1>1, <1>2, <1>5, <2>2 DEF Ordered
    <3> QED BY <3>1, <3>2, FitsAlike
  <2>3. CASE n \notin 1 .. m
    <3>1. Plain(g[n]) /\ n - 1 # 0
      BY <1>2, <2>3
    <3> QED BY <3>1 DEF Fits, Plain, About
  <2> QED BY <2>2, <2>3
<1>6. \A n \in 1 .. l : g[n].type = "scheduled" => n \in 1 .. m /\ h[n].type = "scheduled"
  BY <1>2 DEF Plain, About
<1> QED BY <1>1, <1>3, <1>4, <1>5, <1>6 DEF Quiet

LEMMA QuietAppend ==
  ASSUME NEW w, NEW h \in Seq(Event), Len(h) >= 1, NEW e \in Event, Plain(e)
  PROVE  Quiet(w, h, Append(h, e))
<1>1. PICK g, m : g = Append(h, e) /\ m = Len(h)
  OBVIOUS
<1>2. /\ g \in Seq(Event) /\ Len(g) = m + 1 /\ m \in Nat /\ g[m + 1] = e
      /\ \A i \in 1 .. m : g[i] = h[i]
  BY <1>1, Grown
<1>3. \A n \in m + 1 .. Len(g) : Plain(g[n])
  <2>1. \A n \in m + 1 .. m + 1 : n = m + 1
    BY <1>2
  <2> QED BY <1>2, <2>1
<1>4. Len(g) >= Len(h)
  BY <1>1, <1>2
<1>5. /\ \A n \in 1 .. Len(h) : g[n] = h[n]
      /\ \A n \in Len(h) + 1 .. Len(g) : Plain(g[n])
  BY <1>1, <1>2, <1>3
<1> QED BY <1>1, <1>2, <1>4, <1>5, QuietMore

LEMMA QuietUpdates ==
  ASSUME NEW w, NEW h \in Seq(Event), Len(h) >= 1, NEW u \in Seq(Updated)
  PROVE  Quiet(w, h, h \o u)
<1>1. PICK g, m, l : g = h \o u /\ m = Len(h) /\ l = Len(u)
  OBVIOUS
<1>2. u \in Seq(Event) /\ l \in Nat /\ m \in Nat /\ \A i \in 1 .. l : Plain(u[i])
  <2>1. Updated \subseteq Event
    BY DEF Updated
  <2>2. \A i \in 1 .. l : u[i] \in Updated
    BY <1>1, ElementOfSeq
  <2>3. u \in Seq(Event) /\ l \in Nat /\ m \in Nat
    BY <1>1, <2>1, LenProperties
  <2> QED BY <2>2, <2>3 DEF Updated, Plain, About
<1>3. /\ g \in Seq(Event) /\ Len(g) = m + l
      /\ \A i \in 1 .. m + l : g[i] = IF i <= m THEN h[i] ELSE u[i - m]
  BY <1>1, <1>2, ConcatProperties
<1>4. /\ \A n \in 1 .. m : g[n] = h[n]
      /\ Len(g) >= m
  BY <1>2, <1>3
<1>5. \A n \in m + 1 .. Len(g) : Plain(g[n])
  <2>1. SUFFICES ASSUME NEW n \in m + 1 .. m + l
                 PROVE  Plain(g[n])
    BY <1>3
  <2>2. n \in 1 .. m + l /\ ~(n <= m) /\ n - m \in 1 .. l
    BY <1>2
  <2> QED BY <1>2, <1>3, <2>2
<1> QED BY <1>1, <1>3, <1>4, <1>5, QuietMore

-----------------------------------------------------------------------------
(* Steps that say nothing about commands *)

\* Whoever keeps a task keeps the places where its workflow asked for commands.
Follows(S, T) ==
  \A w \in Workflows : T.task[w].token # NoWorker =>
    \A n \in 1 .. Len(T.history[w]) : T.history[w][n].type = "scheduled" =>
      n \in 1 .. Len(S.history[w]) /\ S.history[w][n].type = "scheduled"

LEMMA FollowsItself ==
  ASSUME NEW S, NEW T, T.history = S.history
  PROVE  Follows(S, T)
BY DEF Follows

LEMMA FollowsTransitive ==
  ASSUME NEW S, NEW T, NEW U, Follows(S, T), Follows(T, U), Keeps(T, U)
  PROVE  Follows(S, U)
<1>1. SUFFICES ASSUME NEW w \in Workflows, U.task[w].token # NoWorker,
                      NEW n \in 1 .. Len(U.history[w]), U.history[w][n].type = "scheduled"
               PROVE  n \in 1 .. Len(S.history[w]) /\ S.history[w][n].type = "scheduled"
  BY DEF Follows
<1>2. T.task[w].token # NoWorker
  BY <1>1 DEF Keeps
<1>3. n \in 1 .. Len(T.history[w]) /\ T.history[w][n].type = "scheduled"
  BY <1>1 DEF Follows
<1> QED BY <1>2, <1>3 DEF Follows

\* Workflows may close, timers and activities may go, and no history says
\* anything new about commands.
Calm(S, T) ==
  /\ \A w \in Workflows : Quiet(w, S.history[w], T.history[w])
  /\ \A w \in Workflows : \/ T.status[w] = S.status[w]
                          \/ S.status[w] = "RUNNING" /\ T.status[w] \notin {"none", "RUNNING"}
  /\ T.timers \subseteq S.timers
  /\ T.activities \subseteq S.activities

LEMMA ProgramLength ==
  ASSUME NEW w \in Workflows
  PROVE  Len(Programs[w]) \in Nat
<1>1. Programs[w] \in Seq({"activity", "timer"} \cup Workflows)
  BY WorkflowAssumption
<1> QED BY <1>1, LenProperties

LEMMA CalmOrderly ==
  ASSUME NEW S, NEW P, Orderly(S, P), NEW T, Calm(S, T)
  PROVE  Orderly(T, P) /\ Follows(S, T)
<1>1. \A w \in Workflows : Ordered(w, T.history[w])
  BY DEF Orderly, Calm, Quiet
<1>2. AwaitedOnce(T, P)
  <2>1. SUFFICES ASSUME NEW w \in Workflows, NEW c \in Nat, T.status[w] = "RUNNING",
                        Pending(T, w, c) \/ <<w, c>> \in P
                 PROVE  ScheduledIn(T.history[w], c) /\ ~AnsweredIn(T.history[w], c)
    BY DEF AwaitedOnce
  <2>2. S.status[w] = "RUNNING"
    BY <2>1 DEF Calm
  <2>3. Pending(T, w, c) => Pending(S, w, c)
    BY DEF Pending, Calm
  <2>4. ScheduledIn(S.history[w], c) /\ ~AnsweredIn(S.history[w], c)
    BY <2>1, <2>2, <2>3 DEF Orderly, AwaitedOnce
  <2> QED BY <2>4 DEF Calm, Quiet
<1>3. OfTheirKind(T)
  BY DEF Orderly, OfTheirKind, Calm
<1>4. Begun(T)
  <2>1. \A w \in Workflows : T.status[w] = "none" <=> S.status[w] = "none"
    BY DEF Calm
  <2>2. \A w \in Workflows : \A c \in 1 .. Len(Programs[w]) : c \in Nat
    BY ProgramLength
  <2>3. \A w \in Workflows : \A c \in 1 .. Len(Programs[w]) :
          ScheduledIn(T.history[w], c) => ScheduledIn(S.history[w], c)
    BY <2>2 DEF Calm, Quiet
  <2> QED BY <2>1, <2>3 DEF Orderly, Begun
<1>5. Follows(S, T)
  BY DEF Follows, Calm, Quiet
<1> QED BY <1>1, <1>2, <1>3, <1>4, <1>5 DEF Orderly

\* A lane in order, in which workflows may be being closed or completed (X) and
\* results may be on their way (P).
Fine(S, X, P) == Good(S, X) /\ Orderly(S, P)

\* An event that is not about commands.
LEMMA WakeFine ==
  ASSUME NEW S, NEW X, NEW P, Fine(S, X, P), NEW w \in Workflows, S.status[w] = "RUNNING",
         NEW e \in Event, Plain(e), NEW T, T = Wake(S, w, e)
  PROVE  Orderly(T, P) /\ Follows(S, T)
<1>1. S \in Lanes /\ S.history[w] \in Seq(Event) /\ Len(S.history[w]) >= 1
  BY DEF Fine, Good, Told, Lanes
<1>2. /\ T.history[w] = Append(S.history[w], e)
      /\ \A v \in Workflows \ {w} : T.history[v] = S.history[v]
      /\ T.status = S.status /\ T.timers = S.timers /\ T.activities = S.activities
  BY <1>1, WakeIs
<1>3. \A v \in Workflows : Quiet(v, S.history[v], T.history[v])
  <2>1. Quiet(w, S.history[w], T.history[w])
    BY <1>1, <1>2, QuietAppend
  <2>2. \A v \in Workflows \ {w} : Quiet(v, S.history[v], T.history[v])
    BY <1>2, QuietItself
  <2> QED BY <2>1, <2>2
<1>4. Calm(S, T)
  BY <1>2, <1>3 DEF Calm
<1> QED BY <1>4, CalmOrderly DEF Fine

LEMMA AppendEventDoes ==
  ASSUME NEW S \in Lanes, NEW w \in Workflows, NEW e \in Event, NEW T, T = AppendEvent(S, w, e)
  PROVE  /\ T.history[w] = Append(S.history[w], e)
         /\ \A v \in Workflows \ {w} : T.history[v] = S.history[v]
         /\ T.status = S.status /\ T.task = S.task
         /\ T.timers = S.timers /\ T.activities = S.activities
<1>1. /\ T.history = [S.history EXCEPT ![w] = Append(@, e)]
      /\ T.status = S.status /\ T.task = S.task
      /\ T.timers = S.timers /\ T.activities = S.activities
  BY AppendEventIs
<1> QED BY <1>1 DEF Lanes

LEMMA AppendEventFine ==
  ASSUME NEW S, NEW X, NEW P, Fine(S, X, P), NEW w \in Workflows, S.status[w] = "RUNNING",
         NEW e \in Event, Plain(e), NEW T, T = AppendEvent(S, w, e)
  PROVE  Orderly(T, P) /\ Follows(S, T)
<1>1. S \in Lanes /\ S.history[w] \in Seq(Event) /\ Len(S.history[w]) >= 1
  BY DEF Fine, Good, Told, Lanes
<1>2. /\ T.history[w] = Append(S.history[w], e)
      /\ \A v \in Workflows \ {w} : T.history[v] = S.history[v]
      /\ T.status = S.status /\ T.timers = S.timers /\ T.activities = S.activities
  BY <1>1, AppendEventDoes
<1>3. \A v \in Workflows : Quiet(v, S.history[v], T.history[v])
  <2>1. Quiet(w, S.history[w], Append(S.history[w], e))
    BY <1>1, QuietAppend
  <2> QED BY <1>2, <2>1, QuietItself
<1>4. Calm(S, T)
  BY <1>2, <1>3 DEF Calm
<1> QED BY <1>4, CalmOrderly DEF Fine

\* Only tasks, or fewer timers and activities.
LEMMA SilentFine ==
  ASSUME NEW S, NEW P, Orderly(S, P), NEW T, T.history = S.history, T.status = S.status,
         T.timers \subseteq S.timers, T.activities \subseteq S.activities
  PROVE  Orderly(T, P) /\ Follows(S, T)
<1>1. Calm(S, T)
  BY QuietItself DEF Calm
<1> QED BY <1>1, CalmOrderly

LEMMA DropTaskSilent ==
  ASSUME NEW S \in Lanes, NEW w \in Workflows, NEW T, T = DropTask(S, w)
  PROVE  /\ T.status = S.status /\ T.history = S.history
         /\ T.timers = S.timers /\ T.activities = S.activities
<1>1. /\ T \in Lanes
      /\ T.task = [S.task EXCEPT ![w] = NoTask]
      /\ T.status = S.status /\ T.run = S.run /\ T.history = S.history
      /\ T.timers = S.timers /\ T.activities = S.activities
  BY DropTaskIs, SMTT(30)
<1> QED BY <1>1

LEMMA EnqueueSilent ==
  ASSUME NEW S \in Lanes, NEW w \in Workflows, NEW T, T = Enqueue(S, w)
  PROVE  /\ T.status = S.status /\ T.history = S.history
         /\ T.timers = S.timers /\ T.activities = S.activities
<1>1. CASE S.task[w] = NoTask
  BY <1>1, NoTaskTyped DEF Enqueue, Lanes
<1>2. CASE S.task[w] # NoTask
  BY <1>2 DEF Enqueue
<1> QED BY <1>1, <1>2

LEMMA CloseDownFine ==
  ASSUME NEW S, NEW X, NEW P, Fine(S, X, P), NEW w \in Workflows, S.status[w] = "RUNNING",
         NEW status \in Statuses \ {"none", "RUNNING"}, NEW T, T = CloseDown(S, w, status)
  PROVE  /\ Orderly(T, P) /\ Follows(S, T)
         /\ \A v \in Workflows : T.status[v] = "RUNNING" => S.status[v] = "RUNNING"
<1>1. PICK C, A : C = ClosingWith(S, w) /\ A = Asking(S, w)
  OBVIOUS
<1>2. S \in Lanes
  BY DEF Fine, Good
<1>3. /\ \A v \in Workflows : T.status[v] = IF v = w THEN status
           ELSE IF v \in C THEN "TERMINATED" ELSE S.status[v]
      /\ \A v \in Workflows : T.history[v] = IF v \in C THEN Append(S.history[v], E("closed", 0))
           ELSE IF v \in A THEN Append(S.history[v], E("cancel", 0)) ELSE S.history[v]
      /\ T.timers = {t \in S.timers : t[1] \notin C}
      /\ T.activities = {a \in S.activities : a.workflow \notin C}
  BY <1>1, <1>2, CloseDownIs
<1>4. \A v \in C \cup A : v \in Workflows /\ S.status[v] = "RUNNING"
  BY <1>1, ClosingIs DEF Asking, RunningChildren
<1>5. \A v \in C \cup A : S.history[v] \in Seq(Event) /\ Len(S.history[v]) >= 1
  BY <1>2, <1>4 DEF Fine, Good, Told, Lanes
<1>6. /\ E("closed", 0) \in Event /\ Plain(E("closed", 0))
      /\ E("cancel", 0) \in Event /\ Plain(E("cancel", 0))
  BY EventsTyped DEF EventTypes, Plain, About
<1>7. \A v \in Workflows : Quiet(v, S.history[v], T.history[v])
  BY <1>3, <1>5, <1>6, QuietItself, QuietAppend
<1>8. Calm(S, T)
  BY <1>3, <1>4, <1>7 DEF Calm
<1>9. Orderly(T, P) /\ Follows(S, T)
  BY <1>8, CalmOrderly DEF Fine
<1>10. \A v \in Workflows : T.status[v] = "RUNNING" => S.status[v] = "RUNNING"
  BY <1>3
<1> QED BY <1>9, <1>10

-----------------------------------------------------------------------------
(* Results *)

LEMMA ScheduledCommand ==
  ASSUME NEW w \in Workflows, NEW h, Ordered(w, h), NEW c \in Nat, ScheduledIn(h, c)
  PROVE  c \in 1 .. Len(Programs[w])
<1>1. PICK p \in 1 .. Len(h) : h[p] = E("scheduled", c)
  BY DEF ScheduledIn
<1>2. Fits(w, h, p - 1, h[p])
  BY <1>1 DEF Ordered
<1>3. h[p].type = "scheduled" /\ h[p].command = c
  BY <1>1 DEF E
<1> QED BY <1>2, <1>3 DEF Fits, About

\* The result of a command that is awaited (a pair of Q), and from then on is not.
LEMMA ResultFine ==
  ASSUME NEW S, NEW X, NEW Q, Fine(S, X, Q), NEW P, P \subseteq Q,
         NEW w \in Workflows, S.status[w] = "RUNNING", NEW c \in Nat,
         <<w, c>> \in Q, <<w, c>> \notin P, ~Pending(S, w, c),
         NEW result \in {"done", "failed"}, NEW T, T = Wake(S, w, E(result, c))
  PROVE  Orderly(T, P) /\ Follows(S, T)
<1>1. PICK h, e : h = S.history[w] /\ e = E(result, c)
  OBVIOUS
<1>2. S \in Lanes /\ h \in Seq(Event) /\ Len(h) \in Nat /\ Len(h) >= 1
  <2>1. S \in Lanes /\ h \in Seq(Event) /\ Len(h) >= 1
    BY <1>1 DEF Fine, Good, Told, Lanes
  <2> QED BY <2>1, LenProperties
<1>3. e \in Event /\ e.type \in {"done", "failed"} /\ e.command = c
  BY <1>1, EventsTyped DEF EventTypes
<1>4. /\ T.history[w] = Append(h, e)
      /\ \A v \in Workflows \ {w} : T.history[v] = S.history[v]
      /\ T.task[w] = IF S.task[w] = NoTask THEN FreshTask ELSE S.task[w]
      /\ \A v \in Workflows \ {w} : T.task[v] = S.task[v]
      /\ T.status = S.status /\ T.timers = S.timers /\ T.activities = S.activities
  BY <1>1, <1>2, <1>3, WakeIs, SMTT(30)
<1>5. ScheduledIn(h, c) /\ ~AnsweredIn(h, c) /\ Ordered(w, h)
  BY <1>1 DEF Fine, Orderly, AwaitedOnce
<1>6. Ordered(w, Append(h, e))
  <2>1. c \in 1 .. Len(Programs[w])
    BY <1>5, ScheduledCommand
  <2>2. \E p \in 1 .. Len(h) : h[p] = E("scheduled", e.command)
    BY <1>3, <1>5 DEF ScheduledIn
  <2>3. \A p \in 1 .. Len(h) : ~IsResult(h[p], e.command)
    BY <1>3, <1>5 DEF AnsweredIn
  <2>4. Fits(w, h, Len(h), e)
    BY <1>2, <1>3, <2>1, <2>2, <2>3 DEF Fits
  <2> QED BY <1>2, <1>3, <1>5, <2>4, OrderedMore
<1>7. \A d \in Nat : /\ ScheduledIn(T.history[w], d) <=> ScheduledIn(h, d)
                     /\ AnsweredIn(T.history[w], d) <=> AnsweredIn(h, d) \/ d = c
  <2>1. SUFFICES ASSUME NEW d \in Nat
                 PROVE  /\ ScheduledIn(T.history[w], d) <=> ScheduledIn(h, d)
                        /\ AnsweredIn(T.history[w], d) <=> AnsweredIn(h, d) \/ d = c
    OBVIOUS
  <2>2. e # E("scheduled", d) /\ (IsResult(e, d) <=> d = c)
    BY <1>3, EventsTyped DEF EventTypes, IsResult
  <2>3. ScheduledIn(Append(h, e), d) <=> ScheduledIn(h, d)
    BY <1>2, <1>3, <2>2, ScheduledMore
  <2>4. AnsweredIn(Append(h, e), d) <=> AnsweredIn(h, d) \/ d = c
    BY <1>2, <1>3, <2>2, AnsweredMore
  <2> QED BY <1>4, <2>3, <2>4
<1>8. \A v \in Workflows : Ordered(v, T.history[v])
  BY <1>4, <1>6 DEF Fine, Orderly
<1>9. AwaitedOnce(T, P)
  <2>1. SUFFICES ASSUME NEW v \in Workflows, NEW d \in Nat, T.status[v] = "RUNNING",
                        Pending(T, v, d) \/ <<v, d>> \in P
                 PROVE  ScheduledIn(T.history[v], d) /\ ~AnsweredIn(T.history[v], d)
    BY DEF AwaitedOnce
  <2>2. Pending(S, v, d) \/ <<v, d>> \in P
    BY <1>4, <2>1 DEF Pending
  <2>3. ScheduledIn(S.history[v], d) /\ ~AnsweredIn(S.history[v], d)
    BY <1>4, <2>1, <2>2 DEF Fine, Orderly, AwaitedOnce
  <2>4. CASE v # w
    BY <1>4, <2>3, <2>4
  <2>5. CASE v = w
    <3>1. d # c
      BY <2>2, <2>5
    <3> QED BY <1>1, <1>7, <2>3, <2>5, <3>1
  <2> QED BY <2>4, <2>5
<1>10. OfTheirKind(T)
  BY <1>4 DEF Fine, Orderly, OfTheirKind
<1>11. Begun(T)
  <2>1. \A v \in Workflows : \A d \in 1 .. Len(Programs[v]) : d \in Nat
    BY ProgramLength
  <2>2. \A v \in Workflows : \A d \in 1 .. Len(Programs[v]) :
          ScheduledIn(T.history[v], d) => ScheduledIn(S.history[v], d)
    BY <1>1, <1>4, <1>7, <2>1
  <2> QED BY <1>4, <2>2 DEF Fine, Orderly, Begun
<1>12. Follows(S, T)
  <2>1. PICK g : g = T.history[w]
    OBVIOUS
  <2>2. \A n \in 1 .. Len(g) : g[n].type = "scheduled" => n \in 1 .. Len(h) /\ h[n].type = "scheduled"
    <3>1. /\ Len(g) = Len(h) + 1 /\ g[Len(h) + 1] = e
          /\ \A i \in 1 .. Len(h) : g[i] = h[i]
      BY <1>2, <1>3, <1>4, <2>1, Grown
    <3>2. \A n \in 1 .. Len(g) : n = Len(h) + 1 \/ n \in 1 .. Len(h)
      BY <1>2, <3>1
    <3> QED BY <1>3, <3>1, <3>2
  <2>3. ASSUME NEW v \in Workflows, NEW n \in 1 .. Len(T.history[v]),
               T.history[v][n].type = "scheduled"
        PROVE  n \in 1 .. Len(S.history[v]) /\ S.history[v][n].type = "scheduled"
    <3>1. CASE v = w
      BY <1>1, <2>1, <2>2, <2>3, <3>1
    <3>2. CASE v # w
      BY <1>4, <2>3, <3>2
    <3> QED BY <3>1, <3>2
  <2> QED BY <2>3 DEF Follows
<1> QED BY <1>8, <1>9, <1>10, <1>11, <1>12 DEF Orderly

\* The child's name says which command of the parent it is the result of.
LEMMA ChildPends ==
  ASSUME NEW S, NEW P, Orderly(S, P), NEW w \in Workflows, Parent[w] \in Workflows,
         S.status[w] # "RUNNING"
  PROVE  ~Pending(S, Parent[w], CommandOf(w))
<1>1. PICK p, c : p = Parent[w] /\ c = CommandOf(w)
  OBVIOUS
<1>2. p \in Workflows /\ c \in Nat /\ c \in 1 .. Len(Programs[p]) /\ Programs[p][c] = w
  BY <1>1, CommandOfIs
<1>3. w \notin {"timer", "activity"}
  BY WorkflowAssumption
<1>4. <<p, c>> \notin S.timers
  BY <1>2, <1>3 DEF Orderly, OfTheirKind
<1>5. \A a \in S.activities : ~(a.workflow = p /\ a.command = c)
  BY <1>2, <1>3 DEF Orderly, OfTheirKind
<1>6. ASSUME NEW v \in Workflows, Parent[v] = p, CommandOf(v) = c
      PROVE  S.status[v] # "RUNNING"
  <2>1. Programs[p][c] = v
    BY <1>1, <1>6, CommandOfIs
  <2> QED BY <1>2, <2>1
<1> QED BY <1>1, <1>4, <1>5, <1>6 DEF Pending

LEMMA CloseFine ==
  ASSUME NEW S, NEW X, NEW P, P = {}, Fine(S, X, P), NEW w \in Workflows, S.status[w] = "RUNNING",
         policy \in ChildPolicies, NEW status \in Statuses \ {"none", "RUNNING"},
         NEW T, T = Close(S, w, status)
  PROVE  Orderly(T, P) /\ Follows(S, T)
<1>1. PICK D : D = CloseDown(S, w, status)
  OBVIOUS
<1>2. /\ Good(D, X \cup {w}) /\ Keeps(S, D)
      /\ D.status[w] = status
  BY <1>1, CloseDownGood DEF Fine
<1>3. CASE T = D
  BY <1>1, <1>3, CloseDownFine
<1>4. CASE T # D
  <2>1. S \in Lanes
    BY DEF Fine, Good
  <2>2. PICK p, c, Q : p = Parent[w] /\ c = CommandOf(w) /\ Q = {<<p, c>>}
    OBVIOUS
  <2>3. p \in Workflows /\ D.status[p] = "RUNNING" /\ T = Wake(D, p, News(w, status))
    BY <1>1, <1>4, <2>1, <2>2, CloseIs
  <2>4. c \in Nat
    BY <2>2, <2>3, CommandOfIs
  <2>5. PICK result \in {"done", "failed"} : News(w, status) = E(result, c)
    BY <2>2 DEF News
  <2>6. Fine(S, X, Q)
    <3>1. Pending(S, p, c)
      BY <2>2 DEF Pending
    <3>2. AwaitedOnce(S, Q)
      <4>1. ASSUME NEW v \in Workflows, NEW d \in Nat, Pending(S, v, d) \/ <<v, d>> \in Q
            PROVE  Pending(S, v, d)
        BY <2>2, <3>1, <4>1
      <4> QED BY <4>1 DEF Fine, Orderly, AwaitedOnce
    <3> QED BY <3>2 DEF Fine, Orderly
  <2>7. Orderly(D, Q) /\ Follows(S, D)
    BY <1>1, <2>6, CloseDownFine
  <2>8. Fine(D, X \cup {w}, Q)
    BY <1>2, <2>7 DEF Fine
  <2>9. ~Pending(D, p, c)
    BY <1>2, <2>2, <2>3, <2>7, ChildPends
  <2>10. Orderly(T, P) /\ Follows(D, T)
    <3>1. <<p, c>> \in Q /\ <<p, c>> \notin P /\ P \subseteq Q
      BY <2>2
    <3>2. T = Wake(D, p, E(result, c))
      BY <2>3, <2>5
    <3> QED BY <2>3, <2>4, <2>8, <2>9, <3>1, <3>2, ResultFine
  <2>11. Keeps(D, T)
    <3>1. E(result, c) \in Event /\ E(result, c).type # "closed"
      BY <2>4, EventsTyped DEF EventTypes
    <3>2. T = Wake(D, p, E(result, c))
      BY <2>3, <2>5
    <3> QED BY <1>2, <2>3, <3>1, <3>2, WakeGood
  <2> QED BY <2>7, <2>10, <2>11, FollowsTransitive
<1> QED BY <1>3, <1>4

-----------------------------------------------------------------------------
(* Timers fire, activities and workflows time out *)

\* The same timers, activities and statuses.
SameWork(S, T) == T.status = S.status /\ T.timers = S.timers /\ T.activities = S.activities

LEMMA SameWorkPends ==
  ASSUME NEW S, NEW T, SameWork(S, T), NEW w, NEW c, ~Pending(S, w, c)
  PROVE  ~Pending(T, w, c)
BY DEF SameWork, Pending

\* No child is the timer or the activity with its number.
LEMMA NoChildPends ==
  ASSUME NEW w \in Workflows, NEW c \in Nat, Programs[w][c] \in {"timer", "activity"}
  PROVE  \A v \in Workflows : ~(Parent[v] = w /\ CommandOf(v) = c)
<1>1. \A v \in Workflows : Parent[v] = w /\ CommandOf(v) = c => Programs[w][c] = v
  BY CommandOfIs
<1> QED BY <1>1, WorkflowAssumption

LEMMA FireTimersFine ==
  ASSUME NEW S, NEW X, X = {}, NEW P, P = {}, Fine(S, X, P), NEW due \in SUBSET S.timers,
         NEW T, T = FireTimers(S, due)
  PROVE  Orderly(T, P) /\ Follows(S, T)
<1>1. /\ S \in Lanes /\ IsFiniteSet(due) /\ due \subseteq Workflows \X Nat /\ Good(S, {})
      /\ \A t \in due : S.status[t[1]] = "RUNNING"
  <2>1. IsFiniteSet(due)
    BY FiniteParts DEF Good, Fine
  <2> QED BY <2>1 DEF Fine, Good, Lanes, OnlyRunning
<1>2. PICK base : base = WithTimers(S, S.timers \ due)
  OBVIOUS
<1>3. /\ Good(base, {}) /\ Keeps(S, base) /\ base.status = S.status
      /\ base.timers = S.timers \ due /\ base.activities = S.activities
      /\ base.history = S.history
  <2>1. S.timers \ due \in SUBSET S.timers /\ S.timers \ due \in SUBSET (Workflows \X Nat)
    BY <1>1 DEF Lanes
  <2>2. Good(base, {}) /\ Keeps(S, base) /\ base.status = S.status
    BY <1>1, <1>2, <2>1, WithTimersGood
  <2> QED BY <1>1, <1>2, <2>1, <2>2, TimersAre
<1>4. Orderly(base, due) /\ Follows(S, base)
  <2>1. AwaitedOnce(S, due)
    <3>1. ASSUME NEW v \in Workflows, NEW d \in Nat, Pending(S, v, d) \/ <<v, d>> \in due
          PROVE  Pending(S, v, d)
      BY <3>1 DEF Pending
    <3> QED BY <3>1 DEF Fine, Orderly, AwaitedOnce
  <2>2. Orderly(S, due)
    BY <2>1 DEF Fine, Orderly
  <2> QED BY <1>3, <2>2, SilentFine
<1>5. ASSUME NEW t \in due
      PROVE  /\ t[1] \in Workflows /\ t[2] \in Nat /\ t = <<t[1], t[2]>>
             /\ ~Pending(base, t[1], t[2])
  <2>1. t[1] \in Workflows /\ t[2] \in Nat /\ t = <<t[1], t[2]>>
    BY <1>1
  <2>2. Programs[t[1]][t[2]] = "timer"
    BY DEF Fine, Orderly, OfTheirKind
  <2>3. \A a \in S.activities : ~(a.workflow = t[1] /\ a.command = t[2])
    BY <2>2 DEF Fine, Orderly, OfTheirKind
  <2>4. <<t[1], t[2]>> \notin base.timers
    BY <1>3, <2>1
  <2>5. \A v \in Workflows : ~(Parent[v] = t[1] /\ CommandOf(v) = t[2])
    BY <2>1, <2>2, NoChildPends
  <2> QED BY <1>3, <2>1, <2>3, <2>4, <2>5 DEF Pending
<1>6. PICK iter, choose : Firing(iter, choose, due, base) /\ T = iter[due]
  BY <1>1, <1>2, FireTimersIs
<1>7. PICK G : G = {s \in SUBSET due : /\ Good(iter[s], {}) /\ SameWork(base, iter[s])
                                       /\ Orderly(iter[s], due \ s) /\ Follows(S, iter[s])}
  OBVIOUS
<1>8. {} \in G
  <2>1. iter[{}] = base /\ due \ {} = due
    BY <1>6 DEF Firing
  <2> QED BY <1>3, <1>4, <1>7, <2>1 DEF SameWork
<1>9. ASSUME NEW s \in SUBSET due, s # {}, s \ {choose[s]} \in G
      PROVE  s \in G
  <2>1. PICK x, U, W : x = choose[s] /\ U = iter[s \ {x}] /\ W = iter[s]
    OBVIOUS
  <2>2. x \in s /\ x \in due /\ W = Fire(x, U)
    BY <1>6, <1>9, <2>1 DEF Firing, Chooses
  <2>3. PICK Q, R, v, c : Q = due \ (s \ {x}) /\ R = due \ s /\ v = x[1] /\ c = x[2]
    OBVIOUS
  <2>4. Good(U, {}) /\ SameWork(base, U) /\ Orderly(U, Q) /\ Follows(S, U)
    BY <1>7, <1>9, <2>1, <2>3
  <2>5. v \in Workflows /\ c \in Nat /\ x = <<v, c>> /\ ~Pending(base, v, c)
    BY <1>5, <2>2, <2>3
  <2>6. U.status[v] = "RUNNING"
    BY <1>1, <1>3, <2>2, <2>3, <2>4 DEF SameWork
  <2>7. <<v, c>> \in Q /\ <<v, c>> \notin R /\ R \subseteq Q
    BY <2>2, <2>3, <2>5
  <2>8. ~Pending(U, v, c)
    BY <2>4, <2>5, SameWorkPends
  <2>9. W = Wake(U, v, E("done", c))
    BY <2>2, <2>3 DEF Fire
  <2>10. Orderly(W, R) /\ Follows(U, W)
    <3>1. Fine(U, {}, Q)
      BY <2>4 DEF Fine
    <3> QED BY <2>5, <2>6, <2>7, <2>8, <2>9, <3>1, ResultFine
  <2>11. Good(W, {}) /\ Keeps(U, W)
    <3>1. x \in Workflows \X Nat /\ U.status[x[1]] = "RUNNING"
      BY <1>1, <2>2, <2>3, <2>6
    <3> QED BY <2>2, <2>4, <3>1, FireGood
  <2>12. SameWork(base, W)
    <3>1. E("done", c) \in Event /\ U \in Lanes
      BY <2>4, <2>5, EventsTyped DEF EventTypes, Good
    <3>2. W.status = U.status /\ W.timers = U.timers /\ W.activities = U.activities
      BY <2>5, <2>9, <3>1, WakeIs
    <3> QED BY <2>4, <3>2 DEF SameWork
  <2>13. Follows(S, W)
    BY <2>4, <2>10, <2>11, FollowsTransitive
  <2> QED BY <1>7, <2>1, <2>3, <2>10, <2>11, <2>12, <2>13
<1>10. SUBSET due \subseteq G
  BY <1>1, <1>6, <1>8, <1>9, FoldInduction DEF Firing
<1>11. due \in SUBSET due /\ due \ due = P
  OBVIOUS
<1> QED BY <1>6, <1>7, <1>10, <1>11

LEMMA FailOverdueFine ==
  ASSUME NEW S, NEW X, X = {}, NEW P, P = {}, Fine(S, X, P), NEW late \in SUBSET S.activities,
         NEW T, T = FailOverdue(S, late)
  PROVE  Orderly(T, P) /\ Follows(S, T) /\ T.activities = S.activities \ late
<1>1. /\ S \in Lanes /\ IsFiniteSet(late) /\ late \subseteq Activities /\ Good(S, {})
      /\ \A a \in late : S.status[a.workflow] = "RUNNING"
  <2>1. IsFiniteSet(late)
    BY FiniteParts DEF Good, Fine
  <2> QED BY <2>1 DEF Fine, Good, Lanes, OnlyRunning
<1>2. PICK base : base = WithActivities(S, S.activities \ late)
  OBVIOUS
<1>3. /\ Good(base, {}) /\ Keeps(S, base) /\ base.status = S.status
      /\ base.activities = S.activities \ late /\ base.timers = S.timers
      /\ base.history = S.history
  <2>1. PICK acts : acts = S.activities \ late
    OBVIOUS
  <2>2. acts \in SUBSET S.activities /\ acts \in SUBSET Activities
    BY <1>1, <2>1 DEF Lanes
  <2>3. Working(S, acts)
    <3>1. IsFiniteSet(acts)
      BY <1>1, <2>2, FiniteParts DEF Good
    <3> QED BY <1>1, <2>2, <3>1 DEF Good, OnlyRunning, Working
  <2>4. Good(base, {}) /\ Keeps(S, base) /\ base.status = S.status
    BY <1>1, <1>2, <2>1, <2>3, WithActivitiesGood
  <2> QED BY <1>1, <1>2, <2>1, <2>2, <2>4, ActivitiesAre
<1>4. PICK Pairs : Pairs = [s \in SUBSET late |-> {<<a.workflow, a.command>> : a \in late \ s}]
  OBVIOUS
<1>5. Orderly(base, Pairs[{}]) /\ Follows(S, base)
  <2>1. PICK Q : Q = Pairs[{}]
    OBVIOUS
  <2>2. AwaitedOnce(S, Q)
    <3>1. ASSUME NEW v \in Workflows, NEW d \in Nat, Pending(S, v, d) \/ <<v, d>> \in Q
          PROVE  Pending(S, v, d)
      BY <1>4, <2>1, <3>1 DEF Pending
    <3> QED BY <3>1 DEF Fine, Orderly, AwaitedOnce
  <2>3. Orderly(S, Q)
    BY <2>2 DEF Fine, Orderly
  <2>4. Orderly(base, Q) /\ Follows(S, base)
    BY <1>3, <2>3, SilentFine
  <2> QED BY <2>1, <2>4
<1>6. ASSUME NEW a \in late
      PROVE  /\ a \in Activities /\ a.workflow \in Workflows /\ a.command \in Nat
             /\ ~Pending(base, a.workflow, a.command)
             /\ \A b \in late : <<b.workflow, b.command>> = <<a.workflow, a.command>> => b = a
  <2>1. a \in Activities /\ a.workflow \in Workflows /\ a.command \in Nat
    BY <1>1 DEF Activities
  <2>2. Programs[a.workflow][a.command] = "activity"
    BY DEF Fine, Orderly, OfTheirKind
  <2>3. <<a.workflow, a.command>> \notin S.timers
    BY <2>2 DEF Fine, Orderly, OfTheirKind
  <2>4. \A b \in S.activities : b.workflow = a.workflow /\ b.command = a.command => b = a
    BY DEF Fine, Orderly, OfTheirKind
  <2>5. \A v \in Workflows : ~(Parent[v] = a.workflow /\ CommandOf(v) = a.command)
    BY <2>1, <2>2, NoChildPends
  <2>6. ~Pending(base, a.workflow, a.command)
    BY <1>3, <2>3, <2>4, <2>5 DEF Pending
  <2> QED BY <2>1, <2>4, <2>6
<1>7. PICK iter, choose : Failing(iter, choose, late, base) /\ T = iter[late]
  BY <1>1, <1>2, FailOverdueIs
<1>8. PICK G : G = {s \in SUBSET late : /\ Good(iter[s], {}) /\ SameWork(base, iter[s])
                                        /\ Orderly(iter[s], Pairs[s]) /\ Follows(S, iter[s])}
  OBVIOUS
<1>9. {} \in G
  <2>1. iter[{}] = base
    BY <1>7 DEF Failing
  <2> QED BY <1>3, <1>5, <1>8, <2>1 DEF SameWork
<1>10. ASSUME NEW s \in SUBSET late, s # {}, s \ {choose[s]} \in G
       PROVE  s \in G
  <2>1. PICK x, U, W : x = choose[s] /\ U = iter[s \ {x}] /\ W = iter[s]
    OBVIOUS
  <2>2. x \in s /\ x \in late /\ W = Overdue(x, U)
    BY <1>7, <1>10, <2>1 DEF Failing, Chooses
  <2>3. PICK Q, R, v, c : Q = Pairs[s \ {x}] /\ R = Pairs[s] /\ v = x.workflow /\ c = x.command
    OBVIOUS
  <2>4. Good(U, {}) /\ SameWork(base, U) /\ Orderly(U, Q) /\ Follows(S, U)
    BY <1>8, <1>10, <2>1, <2>3
  <2>5. v \in Workflows /\ c \in Nat /\ ~Pending(base, v, c)
    BY <1>6, <2>2, <2>3
  <2>6. U.status[v] = "RUNNING"
    BY <1>1, <1>3, <2>2, <2>3, <2>4 DEF SameWork
  <2>7. <<v, c>> \in Q /\ <<v, c>> \notin R /\ R \subseteq Q
    <3>1. Q = {<<a.workflow, a.command>> : a \in late \ (s \ {x})} /\
          R = {<<a.workflow, a.command>> : a \in late \ s}
      BY <1>4, <2>3
    <3>2. \A b \in late \ s : <<b.workflow, b.command>> # <<v, c>>
      BY <1>6, <2>2, <2>3
    <3> QED BY <2>2, <2>3, <3>1, <3>2
  <2>8. ~Pending(U, v, c)
    BY <2>4, <2>5, SameWorkPends
  <2>9. W = Wake(U, v, E("failed", c))
    BY <2>2, <2>3 DEF Overdue
  <2>10. Orderly(W, R) /\ Follows(U, W)
    <3>1. Fine(U, {}, Q)
      BY <2>4 DEF Fine
    <3> QED BY <2>5, <2>6, <2>7, <2>8, <2>9, <3>1, ResultFine
  <2>11. Good(W, {}) /\ Keeps(U, W)
    <3>1. x \in Activities /\ U.status[x.workflow] = "RUNNING"
      BY <1>1, <2>2, <2>3, <2>6
    <3> QED BY <2>2, <2>4, <3>1, OverdueGood
  <2>12. SameWork(base, W)
    <3>1. E("failed", c) \in Event /\ U \in Lanes
      BY <2>4, <2>5, EventsTyped DEF EventTypes, Good
    <3>2. W.status = U.status /\ W.timers = U.timers /\ W.activities = U.activities
      BY <2>5, <2>9, <3>1, WakeIs
    <3> QED BY <2>4, <3>2 DEF SameWork
  <2>13. Follows(S, W)
    BY <2>4, <2>10, <2>11, FollowsTransitive
  <2> QED BY <1>8, <2>1, <2>3, <2>10, <2>11, <2>12, <2>13
<1>11. SUBSET late \subseteq G
  BY <1>1, <1>7, <1>9, <1>10, FoldInduction DEF Failing
<1>12. late \in SUBSET late /\ Pairs[late] = P
  BY <1>4
<1>13. T.activities = S.activities \ late
  BY <1>3, <1>7, <1>8, <1>11, <1>12 DEF SameWork
<1> QED BY <1>7, <1>8, <1>11, <1>12, <1>13

LEMMA ExpireFine ==
  ASSUME NEW S, NEW X, X = {}, NEW P, P = {}, Fine(S, X, P), NEW w \in Workflows,
         S.status[w] = "RUNNING", policy \in ChildPolicies, NEW T, T = Expire(w, S)
  PROVE  Orderly(T, P) /\ Follows(S, T)
<1>1. PICK C : C = Close(S, w, "TIMED_OUT")
  OBVIOUS
<1>2. "TIMED_OUT" \in Statuses \ {"none", "RUNNING"}
  BY DEF Statuses
<1>3. Good(C, X \cup {w}) /\ Keeps(S, C)
  BY <1>1, <1>2, CloseGood DEF Fine
<1>4. Orderly(C, P) /\ Follows(S, C)
  BY <1>1, <1>2, CloseFine
<1>5. T = DropTask(C, w) /\ C \in Lanes
  BY <1>1, <1>3 DEF Expire, Good
<1>6. /\ T.history = C.history /\ T.status = C.status
      /\ T.timers \subseteq C.timers /\ T.activities \subseteq C.activities
  <2>1. /\ T.status = C.status /\ T.history = C.history
        /\ T.timers = C.timers /\ T.activities = C.activities
    BY <1>5, DropTaskSilent
  <2> QED BY <2>1
<1>7. Orderly(T, P) /\ Follows(C, T)
  BY <1>4, <1>6, SilentFine
<1>8. Keeps(C, T)
  BY <1>3, <1>5, DropTaskGood
<1> QED BY <1>4, <1>7, <1>8, FollowsTransitive

LEMMA ExpireWorkflowsFine ==
  ASSUME NEW S, NEW X, X = {}, NEW P, P = {}, Fine(S, X, P), NEW late \in SUBSET Roots,
         \A w \in late : S.status[w] = "RUNNING", policy \in ChildPolicies,
         NEW T, T = ExpireWorkflows(S, late)
  PROVE  Orderly(T, P) /\ Follows(S, T)
<1>1. Good(S, {}) /\ S \in Lanes /\ IsFiniteSet(late) /\ late \in SUBSET Workflows
  <2>1. late \in SUBSET Workflows
    BY DEF Roots
  <2> QED BY <2>1, FiniteParts, WorkflowAssumption DEF Fine, Good
<1>2. PICK iter, choose : Expiring(iter, choose, late, S) /\ T = iter[late]
  BY <1>1, ExpireWorkflowsIs
<1>3. PICK G : G = {s \in SUBSET late :
         /\ Good(iter[s], {}) /\ Orderly(iter[s], P) /\ Follows(S, iter[s])
         /\ \A w \in late \ s : iter[s].status[w] = "RUNNING"}
  OBVIOUS
<1>4. {} \in G
  <2>1. iter[{}] = S
    BY <1>2 DEF Expiring
  <2> QED BY <1>1, <1>3, <2>1, FollowsItself DEF Fine
<1>5. ASSUME NEW s \in SUBSET late, s # {}, s \ {choose[s]} \in G
      PROVE  s \in G
  <2>1. PICK x, U, W : x = choose[s] /\ U = iter[s \ {x}] /\ W = iter[s]
    OBVIOUS
  <2>2. x \in s /\ x \in late /\ W = Expire(x, U)
    BY <1>2, <1>5, <2>1 DEF Expiring, Chooses
  <2>3. /\ Good(U, {}) /\ Orderly(U, P) /\ Follows(S, U)
        /\ \A w \in late \ (s \ {x}) : U.status[w] = "RUNNING"
    BY <1>3, <1>5, <2>1
  <2>4. x \in Workflows /\ U.status[x] = "RUNNING"
    BY <1>1, <2>2, <2>3
  <2>5. /\ Good(W, {}) /\ Keeps(U, W)
        /\ \A v \in Roots \ {x} : W.status[v] = U.status[v]
    BY <2>2, <2>3, <2>4, ExpireGood
  <2>6. Orderly(W, P) /\ Follows(U, W)
    <3>1. Fine(U, X, P)
      BY <2>3 DEF Fine
    <3> QED BY <2>2, <2>4, <3>1, ExpireFine
  <2>7. Follows(S, W)
    BY <2>3, <2>5, <2>6, FollowsTransitive
  <2>8. \A w \in late \ s : W.status[w] = "RUNNING"
    BY <2>2, <2>3, <2>5
  <2> QED BY <1>3, <2>1, <2>5, <2>6, <2>7, <2>8
<1>6. SUBSET late \subseteq G
  BY <1>1, <1>2, <1>4, <1>5, FoldInduction DEF Expiring
<1>7. late \in SUBSET late
  OBVIOUS
<1> QED BY <1>2, <1>3, <1>6, <1>7

-----------------------------------------------------------------------------
(* What a completed task does *)

\* The history of a run that begins.
Fresh(w, g) ==
  /\ Ordered(w, g)
  /\ \A d \in Nat : ~ScheduledIn(g, d) /\ ~AnsweredIn(g, d)
  /\ \A n \in 1 .. Len(g) : g[n].type # "scheduled"

LEMMA FirstOrdered ==
  ASSUME NEW w, NEW e \in Event, e.type = "started"
  PROVE  Fresh(w, Append(<<>>, e))
<1>1. PICK h, g : h = <<>> /\ g = Append(h, e)
  OBVIOUS
<1>2. h \in Seq(Event) /\ Len(h) = 0
  BY <1>1
<1>3. Len(g) = 1 /\ g[1] = e
  BY <1>1, <1>2, Grown
<1>4. \A n \in 1 .. Len(g) : n = 1 /\ g[n] = e
  BY <1>3
<1>5. Fits(w, g, 0, e)
  BY DEF Fits, About
<1>6. Ordered(w, g)
  <2>1. \A n \in 1 .. Len(g) : n - 1 = 0
    BY <1>4
  <2> QED BY <1>4, <1>5, <2>1 DEF Ordered
<1>7. \A d \in Nat : ~ScheduledIn(g, d) /\ ~AnsweredIn(g, d)
  BY <1>4 DEF ScheduledIn, AnsweredIn, IsResult, E
<1> QED BY <1>1, <1>4, <1>6, <1>7 DEF Fresh

\* All is in order, but workflow v may be missing.
OrderlyBut(S, P, v) ==
  /\ \A w \in Workflows : Ordered(w, S.history[w])
  /\ AwaitedOnce(S, P)
  /\ OfTheirKind(S)
  /\ \A w \in Workflows : \A c \in 1 .. Len(Programs[w]) :
       ScheduledIn(S.history[w], c) /\ Programs[w][c] \in Workflows \ {v}
       => S.status[Programs[w][c]] # "none"
  /\ \A u \in Workflows :
       Parent[u] \in Workflows /\ S.status[u] # "none" => S.status[Parent[u]] # "none"

\* A workflow starts: one that a client asked for, or a running parent.
LEMMA StartFine ==
  ASSUME NEW S, NEW X, Good(S, X), NEW P, P = {}, NEW v \in Workflows, OrderlyBut(S, P, v),
         S.status[v] = "none",
         Parent[v] \in Workflows =>
           /\ S.status[Parent[v]] = "RUNNING"
           /\ ScheduledIn(S.history[Parent[v]], CommandOf(v))
           /\ ~AnsweredIn(S.history[Parent[v]], CommandOf(v)),
         NEW T, T = Start(S, v)
  PROVE  Orderly(T, P) /\ Follows(S, T)
<1>1. S \in Lanes /\ S.history[v] = <<>>
  BY DEF Good, Told
<1>2. PICK e : e = E("started", 1)
  OBVIOUS
<1>3. /\ e \in Event /\ T.history[v] = Append(<<>>, e)
      /\ T.task[v] = IF S.task[v] = NoTask THEN FreshTask ELSE S.task[v]
      /\ T.status[v] = "RUNNING"
      /\ \A w \in Workflows \ {v} : /\ T.history[w] = S.history[w] /\ T.task[w] = S.task[w]
                                    /\ T.status[w] = S.status[w]
      /\ T.timers = S.timers /\ T.activities = S.activities
  BY <1>1, <1>2, StartIs
<1>4. PICK g : g = T.history[v]
  OBVIOUS
<1>5. Fresh(v, g)
  <2>1. e.type = "started"
    BY <1>2 DEF E
  <2> QED BY <1>3, <1>4, <2>1, FirstOrdered
<1>6. \A w \in Workflows : Ordered(w, T.history[w])
  BY <1>3, <1>4, <1>5 DEF OrderlyBut, Fresh
<1>7. AwaitedOnce(T, P)
  <2>1. SUFFICES ASSUME NEW u \in Workflows, NEW d \in Nat, T.status[u] = "RUNNING", Pending(T, u, d)
                 PROVE  ScheduledIn(T.history[u], d) /\ ~AnsweredIn(T.history[u], d)
    BY DEF AwaitedOnce
  <2>2. CASE u = v
    <3>1. \A t \in S.timers : t[1] # v
      BY DEF Good, OnlyRunning
    <3>2. \A a \in S.activities : a.workflow # v
      BY DEF Good, OnlyRunning
    <3>3. <<u, d>> \notin T.timers /\ \A a \in T.activities : a.workflow # u
      BY <1>3, <2>2, <3>1, <3>2
    <3>4. PICK x \in Workflows : Parent[x] = v /\ T.status[x] = "RUNNING"
      BY <2>1, <2>2, <3>3 DEF Pending
    <3>5. x # v
      BY <3>4
    <3>6. S.status[x] = "RUNNING"
      BY <1>3, <3>4, <3>5
    <3> QED BY <3>4, <3>6 DEF OrderlyBut
  <2>3. CASE u # v /\ Pending(S, u, d)
    <3>1. S.status[u] = "RUNNING" /\ T.history[u] = S.history[u]
      BY <1>3, <2>1, <2>3
    <3> QED BY <2>3, <3>1 DEF OrderlyBut, AwaitedOnce
  <2>4. CASE u # v /\ ~Pending(S, u, d)
    <3>1. PICK x \in Workflows : Parent[x] = u /\ CommandOf(x) = d /\ T.status[x] = "RUNNING"
      BY <1>3, <2>1, <2>4 DEF Pending
    <3>2. x = v
      BY <1>3, <2>4, <3>1 DEF Pending
    <3> QED BY <1>3, <2>4, <3>1, <3>2
  <2> QED BY <2>2, <2>3, <2>4
<1>8. OfTheirKind(T)
  BY <1>3 DEF OrderlyBut, OfTheirKind
<1>9. Begun(T)
  <2>1. \A w \in Workflows : \A c \in 1 .. Len(Programs[w]) :
          ScheduledIn(T.history[w], c) /\ Programs[w][c] \in Workflows => T.status[Programs[w][c]] # "none"
    <3>1. SUFFICES ASSUME NEW w \in Workflows, NEW c \in 1 .. Len(Programs[w]),
                          ScheduledIn(T.history[w], c), Programs[w][c] \in Workflows
                   PROVE  T.status[Programs[w][c]] # "none"
      OBVIOUS
    <3>2. c \in Nat
      BY ProgramLength
    <3>3. w # v
      BY <1>4, <1>5, <3>1, <3>2 DEF Fresh
    <3>4. CASE Programs[w][c] = v
      BY <1>3, <3>4
    <3>5. CASE Programs[w][c] # v
      <4>1. S.status[Programs[w][c]] # "none"
        BY <1>3, <3>1, <3>3, <3>5 DEF OrderlyBut
      <4> QED BY <1>3, <3>1, <3>5, <4>1
    <3> QED BY <3>4, <3>5
  <2>2. \A u \in Workflows :
          Parent[u] \in Workflows /\ T.status[u] # "none" => T.status[Parent[u]] # "none"
    BY <1>3 DEF OrderlyBut
  <2> QED BY <2>1, <2>2 DEF Begun
<1>10. Follows(S, T)
  BY <1>3, <1>4, <1>5 DEF Follows, Fresh
<1> QED BY <1>6, <1>7, <1>8, <1>9, <1>10 DEF Orderly

\* A new run begins when every command of the last one is done.
LEMMA ContinueFine ==
  ASSUME NEW S, NEW X, NEW P, P = {}, Fine(S, X, P), NEW w \in Workflows, S.status[w] = "RUNNING",
         S.task[w] = NoTask,
         \A c \in 1 .. Len(Programs[w]) : AnsweredIn(S.history[w], c),
         NEW T, T = ContinueAsNew(S, w)
  PROVE  Orderly(T, P) /\ Follows(S, T)
<1>1. S \in Lanes /\ S.run[w] + 1 \in Nat
  BY DEF Fine, Good, Lanes
<1>2. PICK e : e = E("started", S.run[w] + 1)
  OBVIOUS
<1>3. /\ e \in Event /\ T.history[w] = Append(<<>>, e)
      /\ T.task[w] = FreshTask
      /\ \A v \in Workflows \ {w} : T.history[v] = S.history[v] /\ T.task[v] = S.task[v]
      /\ T.status = S.status
      /\ T.timers = {t \in S.timers : t[1] \notin {w}}
      /\ T.activities = {a \in S.activities : a.workflow \notin {w}}
  BY <1>1, <1>2, ContinueIs
<1>4. PICK g : g = T.history[w]
  OBVIOUS
<1>5. Fresh(w, g)
  <2>1. e.type = "started"
    BY <1>2 DEF E
  <2> QED BY <1>3, <1>4, <2>1, FirstOrdered
<1>6. \A v \in Workflows : Ordered(v, T.history[v])
  BY <1>3, <1>4, <1>5 DEF Fine, Orderly, Fresh
<1>7. AwaitedOnce(T, P)
  <2>1. SUFFICES ASSUME NEW u \in Workflows, NEW d \in Nat, T.status[u] = "RUNNING", Pending(T, u, d)
                 PROVE  ScheduledIn(T.history[u], d) /\ ~AnsweredIn(T.history[u], d)
    BY DEF AwaitedOnce
  <2>2. Pending(S, u, d)
    BY <1>3, <2>1 DEF Pending
  <2>3. ScheduledIn(S.history[u], d) /\ ~AnsweredIn(S.history[u], d)
    BY <1>3, <2>1, <2>2 DEF Fine, Orderly, AwaitedOnce
  <2>4. u # w
    <3>1. SUFFICES ASSUME u = w
                   PROVE  FALSE
      OBVIOUS
    <3>2. <<u, d>> \notin T.timers /\ \A a \in T.activities : a.workflow # u
      BY <1>3, <3>1
    <3>3. PICK x \in Workflows : Parent[x] = w /\ CommandOf(x) = d
      BY <2>1, <3>1, <3>2 DEF Pending
    <3>4. d \in 1 .. Len(Programs[w])
      BY <3>3, CommandOfIs
    <3> QED BY <2>3, <3>1, <3>4
  <2> QED BY <1>3, <2>3, <2>4
<1>8. OfTheirKind(T)
  BY <1>3 DEF Fine, Orderly, OfTheirKind
<1>9. Begun(T)
  <2>1. \A v \in Workflows : \A c \in 1 .. Len(Programs[v]) : c \in Nat
    BY ProgramLength
  <2>2. \A v \in Workflows : \A c \in 1 .. Len(Programs[v]) :
          ScheduledIn(T.history[v], c) => ScheduledIn(S.history[v], c)
    BY <1>3, <1>4, <1>5, <2>1 DEF Fresh
  <2> QED BY <1>3, <2>2 DEF Fine, Orderly, Begun
<1>10. Follows(S, T)
  BY <1>3 DEF Follows, FreshTask
<1> QED BY <1>6, <1>7, <1>8, <1>9, <1>10 DEF Orderly

\* Command c comes next: those before it are done, and none from it on was asked for.
Foremost(h, c) ==
  /\ \A p \in 1 .. Len(h) : h[p].type = "scheduled" => h[p].command < c
  /\ \A k \in 1 .. c - 1 : \E p \in 1 .. Len(h) : h[p] = E("done", k)

LEMMA AnsweredScheduled ==
  ASSUME NEW w, NEW h \in Seq(Event), Ordered(w, h), NEW c, AnsweredIn(h, c)
  PROVE  ScheduledIn(h, c)
<1>1. PICK p \in 1 .. Len(h) : IsResult(h[p], c)
  BY DEF AnsweredIn
<1>2. Fits(w, h, p - 1, h[p])
  BY DEF Ordered
<1>3. PICK q \in 1 .. p - 1 : h[q] = E("scheduled", c)
  BY <1>1, <1>2 DEF Fits, IsResult
<1>4. q \in 1 .. Len(h)
  BY LenProperties
<1> QED BY <1>3, <1>4 DEF ScheduledIn

LEMMA NextIsNew ==
  ASSUME NEW w, NEW h \in Seq(Event), Ordered(w, h), NEW c \in Nat, Foremost(h, c)
  PROVE  ~ScheduledIn(h, c) /\ ~AnsweredIn(h, c)
<1>1. ~ScheduledIn(h, c)
  <2>1. SUFFICES ASSUME NEW p \in 1 .. Len(h), h[p] = E("scheduled", c)
                 PROVE  FALSE
    BY DEF ScheduledIn
  <2>2. h[p].type = "scheduled" /\ h[p].command = c
    BY <2>1 DEF E
  <2> QED BY <2>2 DEF Foremost
<1> QED BY <1>1, AnsweredScheduled

\* The child of the command was never started, so no command before names it.
LEMMA NextChild ==
  ASSUME NEW S, NEW P, Orderly(S, P), NEW w \in Workflows, S.history[w] \in Seq(Event),
         NEW c \in 1 .. Len(Programs[w]), Foremost(S.history[w], c),
         NEW v \in Workflows, v = Programs[w][c], Parent[v] = w, S.status[v] = "none"
  PROVE  CommandOf(v) = c
<1>1. PICK d, h : d = CommandOf(v) /\ h = S.history[w]
  OBVIOUS
<1>2. /\ d \in Nat /\ d \in 1 .. Len(Programs[w]) /\ Programs[w][d] = v
      /\ \A k \in 1 .. d - 1 : Programs[w][k] # v
  BY <1>1, CommandOfIs
<1>3. c \in Nat /\ c >= 1 /\ Len(Programs[w]) \in Nat
  BY ProgramLength
<1>4. ~(c < d)
  BY <1>2, <1>3
<1>5. ASSUME d < c
      PROVE  FALSE
  <2>1. d \in 1 .. c - 1
    BY <1>2, <1>3, <1>5
  <2>2. PICK p \in 1 .. Len(h) : h[p] = E("done", d)
    BY <1>1, <2>1 DEF Foremost
  <2>3. AnsweredIn(h, d)
    BY <2>2 DEF AnsweredIn, IsResult, E
  <2>4. ScheduledIn(h, d)
    BY <1>1, <2>3, AnsweredScheduled DEF Orderly
  <2> QED BY <1>1, <1>2, <2>4 DEF Orderly, Begun
<1> QED BY <1>1, <1>2, <1>3, <1>4, <1>5

LEMMA ForemostMore ==
  ASSUME NEW h \in Seq(Event), NEW g \in Seq(Event), NEW c \in Nat, Foremost(h, c),
         Len(g) >= Len(h), \A n \in 1 .. Len(h) : g[n] = h[n],
         \A n \in 1 .. Len(g) : g[n].type = "scheduled" => n \in 1 .. Len(h)
  PROVE  Foremost(g, c)
<1>1. PICK m, l : m = Len(h) /\ l = Len(g)
  OBVIOUS
<1>2. m \in Nat /\ l \in Nat /\ \A n \in 1 .. m : n \in 1 .. l
  BY <1>1, LenProperties
<1> QED BY <1>1, <1>2 DEF Foremost

LEMMA ForemostFits ==
  ASSUME NEW w \in Workflows, NEW h \in Seq(Event), Len(h) >= 1, Ordered(w, h),
         NEW c \in 1 .. Len(Programs[w]), Foremost(h, c), NEW e, e = E("scheduled", c)
  PROVE  /\ Ordered(w, Append(h, e))
         /\ \A d \in Nat : /\ ScheduledIn(Append(h, e), d) <=> ScheduledIn(h, d) \/ d = c
                           /\ AnsweredIn(Append(h, e), d) <=> AnsweredIn(h, d)
<1>1. c \in Nat /\ Len(h) # 0
  BY ProgramLength
<1>2. e \in Event /\ e.type = "scheduled" /\ e.command = c
  BY <1>1, EventsTyped DEF EventTypes
<1>3. Fits(w, h, Len(h), e)
  BY <1>1, <1>2 DEF Fits, Foremost, About
<1>4. Ordered(w, Append(h, e))
  BY <1>2, <1>3, OrderedMore
<1>5. ASSUME NEW d \in Nat
      PROVE  /\ ScheduledIn(Append(h, e), d) <=> ScheduledIn(h, d) \/ d = c
             /\ AnsweredIn(Append(h, e), d) <=> AnsweredIn(h, d)
  <2>1. e = E("scheduled", d) <=> d = c
    BY <1>2 DEF E
  <2>2. ~IsResult(e, d)
    BY <1>2 DEF IsResult
  <2>3. ScheduledIn(Append(h, e), d) <=> ScheduledIn(h, d) \/ e = E("scheduled", d)
    BY <1>2, ScheduledMore
  <2>4. AnsweredIn(Append(h, e), d) <=> AnsweredIn(h, d) \/ IsResult(e, d)
    BY <1>2, AnsweredMore
  <2> QED BY <2>1, <2>2, <2>3, <2>4
<1> QED BY <1>4, <1>5

\* The next command is asked for.
LEMMA ScheduleFine ==
  ASSUME NEW S, NEW X, NEW P, P = {}, Fine(S, X, P), NEW w \in Workflows, S.status[w] = "RUNNING",
         S.task[w] = NoTask,
         NEW c \in 1 .. Len(Programs[w]), Foremost(S.history[w], c),
         Programs[w][c] \in Workflows => S.status[Programs[w][c]] = "none",
         NEW T, T = Schedule(S, w, c)
  PROVE  Orderly(T, P) /\ Follows(S, T)
<1>1. PICK h, e, A : h = S.history[w] /\ e = E("scheduled", c) /\ A = AppendEvent(S, w, e)
  OBVIOUS
<1>2. S \in Lanes /\ h \in Seq(Event) /\ Len(h) >= 1 /\ c \in Nat /\ Ordered(w, h)
  BY <1>1, CommandIs DEF Fine, Good, Told, Lanes, Orderly
<1>3. e \in Event /\ e.type # "closed"
  BY <1>1, <1>2, EventsTyped DEF EventTypes
<1>4. /\ A.history[w] = Append(S.history[w], e)
      /\ \A v \in Workflows \ {w} : A.history[v] = S.history[v]
      /\ A.status = S.status /\ A.task = S.task
      /\ A.timers = S.timers /\ A.activities = S.activities
  BY <1>1, <1>2, <1>3, AppendEventDoes
<1>5. PICK g : g = Append(h, e)
  OBVIOUS
<1>6. A.history[w] = g /\ \A v \in Workflows \ {w} : A.history[v] = S.history[v]
  BY <1>1, <1>4, <1>5
<1>7. Good(A, X) /\ Keeps(S, A)
  BY <1>1, <1>3, AppendEventGood DEF Fine
<1>8. /\ Ordered(w, g)
      /\ \A d \in Nat : /\ ScheduledIn(g, d) <=> ScheduledIn(h, d) \/ d = c
                        /\ AnsweredIn(g, d) <=> AnsweredIn(h, d)
  BY <1>1, <1>2, <1>5, ForemostFits
<1>9. ~ScheduledIn(h, c) /\ ~AnsweredIn(h, c)
  BY <1>1, <1>2, NextIsNew
<1>10. ~Pending(S, w, c)
  BY <1>1, <1>2, <1>9 DEF Fine, Orderly, AwaitedOnce
<1>11. PICK Q : Q = {<<w, c>>}
  OBVIOUS
<1>12. \A v \in Workflows : Ordered(v, A.history[v])
  BY <1>6, <1>8 DEF Fine, Orderly
<1>13. AwaitedOnce(A, Q)
  <2>1. SUFFICES ASSUME NEW u \in Workflows, NEW d \in Nat, A.status[u] = "RUNNING",
                        Pending(A, u, d) \/ <<u, d>> \in Q
                 PROVE  ScheduledIn(A.history[u], d) /\ ~AnsweredIn(A.history[u], d)
    BY DEF AwaitedOnce
  <2>2. CASE <<u, d>> = <<w, c>>
    BY <1>6, <1>8, <1>9, <2>2
  <2>3. CASE <<u, d>> # <<w, c>>
    <3>1. Pending(S, u, d)
      BY <1>4, <1>11, <2>1, <2>3 DEF Pending
    <3>2. ScheduledIn(S.history[u], d) /\ ~AnsweredIn(S.history[u], d)
      BY <1>4, <2>1, <3>1 DEF Fine, Orderly, AwaitedOnce
    <3> QED BY <1>1, <1>6, <1>8, <3>2
  <2> QED BY <2>2, <2>3
<1>14. OfTheirKind(A)
  BY <1>4 DEF Fine, Orderly, OfTheirKind
<1>15. \A u \in Workflows : \A d \in 1 .. Len(Programs[u]) :
         ScheduledIn(A.history[u], d) => ScheduledIn(S.history[u], d) \/ <<u, d>> = <<w, c>>
  <2>1. \A u \in Workflows : \A d \in 1 .. Len(Programs[u]) : d \in Nat
    BY ProgramLength
  <2> QED BY <1>1, <1>6, <1>8, <2>1
<1>16. Follows(S, A)
  BY <1>4, <1>6 DEF Follows, NoTask
<1>17. CASE Programs[w][c] = "timer"
  <2>1. T.timers = A.timers \cup Q /\ T.activities = A.activities
        /\ T.status = A.status /\ T.history = A.history /\ T.task = A.task
    <3>1. PICK ts : ts = A.timers \cup {<<w, c>>}
      OBVIOUS
    <3>2. A \in Lanes
      BY <1>7 DEF Good
    <3>3. T = [A EXCEPT !.timers = ts]
      BY <1>1, <1>17, <3>1 DEF Schedule
    <3>4. ts \in SUBSET (Workflows \X Nat) /\ T = WithTimers(A, ts)
      BY <1>2, <3>1, <3>2, <3>3 DEF Lanes, WithTimers
    <3> QED BY <1>11, <3>1, <3>2, <3>4, TimersAre
  <2>2. AwaitedOnce(T, P)
    BY <1>13, <2>1 DEF AwaitedOnce, Pending
  <2>3. OfTheirKind(T)
    BY <1>11, <1>14, <1>17, <2>1 DEF OfTheirKind
  <2>4. Begun(T)
    <3>1. Programs[w][c] \notin Workflows
      BY <1>17, WorkflowAssumption
    <3> QED BY <1>4, <1>15, <2>1, <3>1 DEF Fine, Orderly, Begun
  <2>5. Follows(S, T)
    BY <1>16, <2>1 DEF Follows
  <2> QED BY <1>12, <2>1, <2>2, <2>3, <2>4, <2>5 DEF Orderly
<1>18. CASE Programs[w][c] = "activity"
  <2>1. PICK a : a = [workflow |-> w, command |-> c, attempt |-> 1, lease |-> "none", token |-> NoWorker]
    OBVIOUS
  <2>2. a \in Activities /\ a.workflow = w /\ a.command = c
    BY <1>2, <2>1, WorkflowAssumption DEF Activities, Leases
  <2>3. T.activities = A.activities \cup {a} /\ T.timers = A.timers
        /\ T.status = A.status /\ T.history = A.history /\ T.task = A.task
    <3>1. PICK acts : acts = A.activities \cup {a}
      OBVIOUS
    <3>2. A \in Lanes
      BY <1>7 DEF Good
    <3>3. T = [A EXCEPT !.activities = acts]
      BY <1>1, <1>18, <2>1, <3>1, CommandIs DEF Schedule
    <3>4. acts \in SUBSET Activities /\ T = WithActivities(A, acts)
      BY <2>2, <3>1, <3>2, <3>3 DEF Lanes, WithActivities
    <3> QED BY <3>1, <3>2, <3>4, ActivitiesAre
  <2>4. AwaitedOnce(T, P)
    BY <1>11, <1>13, <2>2, <2>3 DEF AwaitedOnce, Pending
  <2>5. OfTheirKind(T)
    <3>1. \A b \in A.activities : ~(b.workflow = w /\ b.command = c)
      BY <1>4, <1>10 DEF Pending
    <3> QED BY <1>14, <1>18, <2>2, <2>3, <3>1 DEF OfTheirKind
  <2>6. Begun(T)
    <3>1. Programs[w][c] \notin Workflows
      BY <1>18, WorkflowAssumption
    <3> QED BY <1>4, <1>15, <2>3, <3>1 DEF Fine, Orderly, Begun
  <2>7. Follows(S, T)
    BY <1>16, <2>3 DEF Follows
  <2> QED BY <1>12, <2>3, <2>4, <2>5, <2>6, <2>7 DEF Orderly
<1>19. CASE Programs[w][c] \notin {"timer", "activity"}
  <2>1. PICK v : v = Programs[w][c]
    OBVIOUS
  <2>2. v \in Workflows /\ Parent[v] = w /\ S.status[v] = "none"
    BY <1>19, <2>1, CommandIs
  <2>3. T = Start(A, v)
    BY <1>1, <1>19, <2>1 DEF Schedule
  <2>4. CommandOf(v) = c
    BY <1>1, <1>2, <2>1, <2>2, NextChild DEF Fine
  <2>5. OrderlyBut(A, P, v)
    <3>1. AwaitedOnce(A, P)
      BY <1>13 DEF AwaitedOnce
    <3>2. \A u \in Workflows : \A d \in 1 .. Len(Programs[u]) :
            ScheduledIn(A.history[u], d) /\ Programs[u][d] \in Workflows \ {v}
            => A.status[Programs[u][d]] # "none"
      BY <1>4, <1>15, <2>1 DEF Fine, Orderly, Begun
    <3>3. \A u \in Workflows :
            Parent[u] \in Workflows /\ A.status[u] # "none" => A.status[Parent[u]] # "none"
      BY <1>4 DEF Fine, Orderly, Begun
    <3> QED BY <1>12, <1>14, <3>1, <3>2, <3>3 DEF OrderlyBut
  <2>6. /\ A.status[w] = "RUNNING" /\ A.status[v] = "none"
        /\ ScheduledIn(A.history[w], c) /\ ~AnsweredIn(A.history[w], c)
    BY <1>2, <1>4, <1>6, <1>8, <1>9, <2>2
  <2>7. Orderly(T, P) /\ Follows(A, T)
    BY <1>7, <2>2, <2>3, <2>4, <2>5, <2>6, StartFine
  <2>8. Keeps(A, T)
    BY <1>7, <2>2, <2>3, <2>6, StartGood
  <2> QED BY <1>16, <2>7, <2>8, FollowsTransitive
<1> QED BY <1>17, <1>18, <1>19

\* What the history must tell when the code decides so.
Justified(w, h, decision) ==
  /\ decision.type = "schedule" => Foremost(h, decision.command)
  /\ decision.type = "continue" => \A c \in 1 .. Len(Programs[w]) : AnsweredIn(h, c)

LEMMA ApplyFine ==
  ASSUME NEW S, NEW X, X = {}, NEW P, P = {}, Fine(S, X, P), NEW w \in Workflows,
         S.status[w] = "RUNNING", S.task[w] = NoTask, policy \in ChildPolicies,
         NEW answer \in Answers(w), ~ChildExists(S, w, answer.decision),
         Justified(w, S.history[w], answer.decision), NEW T, T = Apply(S, w, answer)
  PROVE  Orderly(T, P) /\ Follows(S, T)
<1>1. S \in Lanes /\ Good(S, {})
  BY DEF Fine, Good
<1>2. PICK h, u, g, d : h = S.history[w] /\ u = answer.updates /\ g = h \o u /\ d = answer.decision
  OBVIOUS
<1>3. /\ h \in Seq(Event) /\ Told("RUNNING", h) /\ Len(h) >= 1
      /\ u \in Seq(Updated) /\ d \in Decisions(w)
  BY <1>1, <1>2 DEF Lanes, Good, Answers, Told
<1>4. Extends(g, h)
  BY <1>2, <1>3, UpdatesExtend
<1>5. PICK U : U = [S EXCEPT !.history[w] = g]
  OBVIOUS
<1>6. /\ U \in Lanes /\ U.history[w] = g
      /\ \A v \in Workflows \ {w} : U.history[v] = S.history[v]
      /\ U.status = S.status /\ U.run = S.run /\ U.task = S.task
      /\ U.timers = S.timers /\ U.activities = S.activities
  <2>1. g \in Seq(Event)
    BY <1>4 DEF Extends
  <2>2. [S.history EXCEPT ![w] = g] \in [Workflows -> Seq(Event)]
    BY <1>1, <2>1 DEF Lanes
  <2> QED BY <1>1, <1>5, <2>2 DEF Lanes
<1>7. Good(U, {}) /\ Keeps(S, U)
  BY <1>1, <1>2, <1>4, <1>6, HistoryGood
<1>8. U = [S EXCEPT !.history[w] = @ \o answer.updates]
  BY <1>2, <1>5
<1>9. Quiet(w, h, g)
  BY <1>2, <1>3, QuietUpdates
<1>10. Orderly(U, P) /\ Follows(S, U)
  <2>1. Calm(S, U)
    BY <1>2, <1>6, <1>9, QuietItself DEF Calm
  <2> QED BY <2>1, CalmOrderly DEF Fine
<1>11. Fine(U, X, P)
  BY <1>7, <1>10 DEF Fine
<1>12. SUFFICES Orderly(T, P) /\ Follows(U, T) /\ Keeps(U, T)
  BY <1>10, FollowsTransitive
<1>13. d.type \in {"none", "complete", "fail", "cancelled", "continue", "schedule"}
  BY <1>3 DEF Decisions
<1>14. CASE d.type \in {"complete", "fail", "cancelled"}
  <2>1. PICK status \in Statuses \ {"none", "RUNNING"} : T = Close(U, w, status)
    BY <1>2, <1>8, <1>14 DEF Apply, Statuses
  <2>2. Orderly(T, P) /\ Follows(U, T)
    BY <1>6, <1>11, <2>1, CloseFine
  <2>3. U.status[w] = "RUNNING"
    BY <1>6
  <2>4. Keeps(U, T)
    <3>1. PICK Y : Y = {}
      OBVIOUS
    <3>2. Good(U, Y)
      BY <1>7, <3>1
    <3>3. /\ Good(T, Y \cup {w}) /\ Keeps(U, T)
          /\ T.task[w] = U.task[w] /\ T.status[w] = status
          /\ \A v \in Roots \ {w} : T.status[v] = U.status[v]
      BY <2>1, <2>3, <3>2, CloseGood, SMTT(30)
    <3> QED BY <3>3
  <2> QED BY <2>2, <2>4
<1>15. CASE d.type = "continue"
  <2>1. T = ContinueAsNew(U, w)
    BY <1>2, <1>8, <1>15 DEF Apply
  <2>2. \A c \in 1 .. Len(Programs[w]) : AnsweredIn(g, c)
    <3>1. \A c \in 1 .. Len(Programs[w]) : c \in Nat
      BY ProgramLength
    <3> QED BY <1>2, <1>9, <1>15, <3>1 DEF Justified, Quiet
  <2>3. Orderly(T, P) /\ Follows(U, T)
    BY <1>6, <1>11, <2>1, <2>2, ContinueFine
  <2>4. Keeps(U, T)
    BY <1>6, <1>7, <2>1, ContinueGood
  <2> QED BY <2>3, <2>4
<1>16. CASE d.type = "schedule"
  <2>1. T = Schedule(U, w, d.command)
    BY <1>2, <1>8, <1>16 DEF Apply
  <2>2. PICK c : c = d.command
    OBVIOUS
  <2>3. c \in 1 .. Len(Programs[w])
    BY <1>3, <1>16, <2>2 DEF Decisions
  <2>4. Programs[w][c] \in Workflows => U.status[Programs[w][c]] = "none"
    BY <1>2, <1>6, <1>16, <2>2 DEF ChildExists
  <2>5. Foremost(g, c)
    <3>1. Foremost(h, c) /\ c \in Nat
      BY <1>2, <1>16, <2>2, <2>3, ProgramLength DEF Justified
    <3>2. \A n \in 1 .. Len(g) : g[n].type = "scheduled" => n \in 1 .. Len(h)
      BY <1>9 DEF Quiet
    <3>3. g \in Seq(Event) /\ Len(g) >= Len(h)
      BY <1>4 DEF Extends
    <3>4. \A n \in 1 .. Len(h) : g[n] = h[n]
      <4>1. u \in Seq(Event) /\ Len(u) \in Nat /\ Len(h) \in Nat
        <5>1. Updated \subseteq Event
          BY DEF Updated
        <5> QED BY <1>3, <5>1, LenProperties
      <4>2. PICK m, l : m = Len(h) /\ l = Len(u)
        OBVIOUS
      <4>3. \A i \in 1 .. m + l : g[i] = IF i <= m THEN h[i] ELSE u[i - m]
        BY <1>2, <1>3, <4>1, <4>2, ConcatProperties
      <4>4. \A i \in 1 .. m : i \in 1 .. m + l /\ i <= m
        BY <4>1, <4>2
      <4> QED BY <4>2, <4>3, <4>4
    <3> QED BY <1>3, <3>1, <3>2, <3>3, <3>4, ForemostMore
  <2>6. Orderly(T, P) /\ Follows(U, T)
    BY <1>6, <1>11, <2>1, <2>2, <2>3, <2>4, <2>5, ScheduleFine
  <2>7. Keeps(U, T)
    BY <1>6, <1>7, <2>1, <2>2, <2>3, <2>4, ScheduleGood
  <2> QED BY <2>6, <2>7
<1>17. CASE d.type = "none"
  <2>1. T = U
    BY <1>2, <1>8, <1>17 DEF Apply
  <2> QED BY <1>6, <1>10, <2>1, FollowsItself, KeepsItself
<1> QED BY <1>13, <1>14, <1>15, <1>16, <1>17

-----------------------------------------------------------------------------
(* What a replay finds *)

\* Nothing from i to before j is a command or a result.
Passed(h, i, j) ==
  \A k \in i .. j - 1 : h[k].type \in {"signal", "update", "updated", "cancel", "taskFailed", "retry"}

\* The events before i tell that the commands before c are done, and no more.
Behind(h, i, c) ==
  /\ \A k \in 1 .. c - 1 : \E p \in 1 .. i - 1 : h[p] = E("done", k)
  /\ \A p \in 1 .. i - 1 : h[p].type = "scheduled" => h[p].command < c

\* Events that no run of the program explains, found when command c is next at i.
Inexplicable(h, i, c) ==
  \/ ~Matched(h, i)
  \/ \E s \in i .. Len(h) :
       /\ s = AfterExternals(h, i)
       /\ \/ h[s] # E("scheduled", c)
          \/ h[s] = E("scheduled", c) /\ ~Matched(h, s + 1)
          \/ /\ h[s] = E("scheduled", c)
             /\ \E j \in s + 1 .. Len(h) :
                  /\ Passed(h, s + 1, j)
                  /\ h[j].type \in {"retry", "done", "failed"} /\ h[j].command # c

\* Command c is an activity and a retry stands at j.
Stray(w, h, j, c) == Programs[w][c] = "activity" /\ j <= Len(h) /\ h[j].type = "retry"

\* Command c was asked for, and no result stands where its result is awaited.
Awaited(w, h, i, c) ==
  \E s \in i .. Len(h) : \E b \in s + 1 .. Len(h) + 1 : \E j \in b .. Len(h) + 1 :
    /\ s = AfterExternals(h, i) /\ h[s] = E("scheduled", c)
    /\ b = AfterExternals(h, s + 1)
    /\ j = IF Programs[w][c] = "activity" THEN AfterRetries(h, b, c) ELSE b
    /\ j <= Len(h) => h[j].type \notin {"done", "failed"} /\ ~Stray(w, h, j, c)

\* Command c was found done, and rest answers what follows.
Continued(h, i, c, rest, a) ==
  \E s \in i .. Len(h) : \E j \in s + 1 .. Len(h) :
    /\ Passed(h, i, s) /\ h[s] = E("scheduled", c) /\ Passed(h, s + 1, j) /\ h[j] = E("done", c)
    /\ a.ok = rest[j + 1].ok /\ a.decision = rest[j + 1].decision

LEMMA PlainAnswers ==
  /\ Waiting.ok /\ Waiting.decision.type = "none" /\ Failure.decision.type = "none"
  /\ \A decision, c : Answer(decision, c).ok /\ Answer(decision, c).decision = E(decision, c)
  /\ \A type, c : E(type, c).type = type /\ E(type, c).command = c
<1>1. \A decision, c : Answer(decision, c).ok /\ Answer(decision, c).decision = E(decision, c)
  BY DEF Answer
<1>2. \A type, c : E(type, c).type = type /\ E(type, c).command = c
  BY DEF E
<1>3. Waiting = Answer("none", 0)
  BY DEF Waiting
<1>4. Failure.decision = Waiting.decision
  BY DEF Failure, Waiting, Answer
<1> QED BY <1>1, <1>2, <1>3, <1>4

LEMMA DispatchDoes ==
  ASSUME NEW w \in Workflows, NEW h \in Seq(Event), NEW i \in Nat, NEW Then,
         Matched(h, i) /\ ~Cancelled(h, i) => Then \in Answers(w),
         NEW a, a = Dispatch(h, i, Then)
  PROVE  \/ ~Matched(h, i) /\ a.decision.type = "none"
         \/ a.ok /\ a.decision.type = "cancelled"
         \/ Matched(h, i) /\ a.ok = Then.ok /\ a.decision = Then.decision
<1>1. PICK answer : answer = IF ~Matched(h, i) THEN Failure
                             ELSE IF Cancelled(h, i) THEN Answer("cancelled", 0) ELSE Then
  OBVIOUS
<1>2. answer \in Answers(w)
  BY <1>1, AnswersAre
<1>3. PICK u : u = Updates(h, i) \o answer.updates
  OBVIOUS
<1>4. a = [answer EXCEPT !.updates = u]
  BY <1>1, <1>3 DEF Dispatch
<1>5. a.ok = answer.ok /\ a.decision = answer.decision
  BY <1>2, <1>4 DEF Answers
<1>6. CASE ~Matched(h, i)
  BY <1>1, <1>5, <1>6, PlainAnswers
<1>7. CASE Matched(h, i) /\ Cancelled(h, i)
  <2>1. answer = Answer("cancelled", 0)
    BY <1>1, <1>7
  <2> QED BY <1>5, <2>1, PlainAnswers
<1>8. CASE Matched(h, i) /\ ~Cancelled(h, i)
  BY <1>1, <1>5, <1>8
<1> QED BY <1>6, <1>7, <1>8

LEMMA ExternalsPassed ==
  ASSUME NEW h \in Seq(Event), NEW i \in Nat, i <= Len(h) + 1, NEW s, s = AfterExternals(h, i)
  PROVE  s \in i .. Len(h) + 1 /\ Passed(h, i, s)
<1>1. /\ s \in i .. Len(h) + 1
      /\ \A k \in i .. s - 1 : IsExternal(h[k]) \/ (k > i /\ Completes(h, k))
  BY AfterExternalsIs
<1> QED BY <1>1 DEF Passed, IsExternal, Completes

LEMMA ResolveDoes ==
  ASSUME NEW w \in Workflows, NEW h \in Seq(Event), NEW i \in 2 .. Len(h) + 1,
         NEW c \in 1 .. Len(Programs[w]), NEW rest \in [2 .. Len(h) + 1 -> Answers(w)],
         NEW a, a = Resolve(w, h, i, c, rest)
  PROVE  \/ a.ok /\ a.decision.type \in {"cancelled", "fail"}
         \/ a.ok /\ a.decision.type = "none" /\ Awaited(w, h, i, c)
         \/ a.ok /\ Passed(h, i, Len(h) + 1) /\ a.decision = E("schedule", c)
         \/ Continued(h, i, c, rest, a)
         \/ Inexplicable(h, i, c) /\ a.decision.type = "none"
<1>1. Len(h) \in Nat /\ i \in Nat /\ i <= Len(h) + 1
  BY LenProperties
<1>2. PICK s : s = AfterExternals(h, i)
  OBVIOUS
<1>3. s \in i .. Len(h) + 1 /\ Passed(h, i, s)
  BY <1>1, <1>2, ExternalsPassed
<1>4. PICK behind : behind = AfterExternals(h, s + 1)
  OBVIOUS
<1>5. PICK j : j = IF Programs[w][c] = "activity" THEN AfterRetries(h, behind, c) ELSE behind
  OBVIOUS
<1>6. PICK done : done = IF Stray(w, h, j, c) THEN Failure ELSE Completion(h, j, c, rest)
  OBVIOUS
<1>7. ASSUME s <= Len(h)
      PROVE  /\ j \in s + 1 .. Len(h) + 1 /\ Passed(h, s + 1, j) /\ done \in Answers(w)
             /\ j <= Len(h) => j + 1 \in 2 .. Len(h) + 1
             /\ behind \in s + 1 .. Len(h) + 1 /\ j \in behind .. Len(h) + 1
  <2>1. s + 1 \in Nat /\ s + 1 <= Len(h) + 1
    BY <1>1, <1>3, <1>7
  <2>2. behind \in s + 1 .. Len(h) + 1 /\ Passed(h, s + 1, behind)
    BY <1>4, <2>1, ExternalsPassed
  <2>3. behind \in Nat /\ behind <= Len(h) + 1 /\ behind >= 2
    BY <1>1, <1>3, <2>2
  <2>4. j \in behind .. Len(h) + 1 /\ \A k \in behind .. j - 1 : h[k].type = "retry"
    BY <1>1, <1>5, <2>3, AfterRetriesIs, PlainAnswers
  <2>5. j <= Len(h) => j + 1 \in 2 .. Len(h) + 1
    BY <1>1, <2>3, <2>4
  <2>6. j <= Len(h) => rest[j + 1] \in Answers(w)
    BY <2>5
  <2>7. j > Len(h) \/ j <= Len(h)
    BY <1>1, <2>3, <2>4
  <2>8. done \in Answers(w)
    BY <1>6, <2>6, <2>7, AnswersAre DEF Completion
  <2>9. Passed(h, s + 1, j)
    <3>1. \A k \in s + 1 .. j - 1 : k \in s + 1 .. behind - 1 \/ k \in behind .. j - 1
      BY <1>1, <1>3, <2>3, <2>4
    <3> QED BY <2>2, <2>4, <3>1 DEF Passed
  <2>10. j \in s + 1 .. Len(h) + 1
    BY <1>1, <1>3, <2>2, <2>4
  <2> QED BY <2>2, <2>4, <2>5, <2>8, <2>9, <2>10
<1>8. PICK inner : inner = Dispatch(h, s + 1, done)
  OBVIOUS
<1>9. PICK outer : outer = IF s > Len(h) THEN Answer("schedule", c)
                           ELSE IF h[s] # E("scheduled", c) THEN Failure ELSE inner
  OBVIOUS
<1>10. s + 1 \in Nat /\ (s > Len(h) \/ s <= Len(h))
  BY <1>1, <1>3
<1>11. s <= Len(h) => inner \in Answers(w)
  BY <1>7, <1>8, <1>10, DispatchIs
<1>12. outer \in Answers(w)
  BY <1>9, <1>10, <1>11, AnswersAre
<1>13. a = Dispatch(h, i, outer)
  BY <1>2, <1>4, <1>5, <1>6, <1>8, <1>9 DEF Resolve, Stray
<1>14. \/ ~Matched(h, i) /\ a.decision.type = "none"
       \/ a.ok /\ a.decision.type = "cancelled"
       \/ Matched(h, i) /\ a.ok = outer.ok /\ a.decision = outer.decision
  BY <1>1, <1>12, <1>13, DispatchDoes
<1>15. CASE ~Matched(h, i) /\ a.decision.type = "none"
  BY <1>15 DEF Inexplicable
<1>16. CASE a.ok /\ a.decision.type = "cancelled"
  BY <1>16
<1>17. ASSUME a.ok = outer.ok, a.decision = outer.decision, s > Len(h)
       PROVE  a.ok /\ Passed(h, i, Len(h) + 1) /\ a.decision = E("schedule", c)
  <2>1. s = Len(h) + 1
    BY <1>1, <1>3, <1>17
  <2> QED BY <1>3, <1>9, <1>17, <2>1 DEF Answer
<1>18. ASSUME a.ok = outer.ok, a.decision = outer.decision, s <= Len(h), h[s] # E("scheduled", c)
       PROVE  Inexplicable(h, i, c) /\ a.decision.type = "none"
  <2>1. s \in i .. Len(h) /\ ~(s > Len(h))
    BY <1>1, <1>3, <1>18
  <2>2. a.decision.type = "none"
    BY <1>9, <1>18, <2>1 DEF Failure, Waiting, Answer, E
  <2> QED BY <1>2, <1>18, <2>1, <2>2 DEF Inexplicable
<1>19. ASSUME a.ok = outer.ok, a.decision = outer.decision, s <= Len(h), h[s] = E("scheduled", c)
       PROVE  \/ a.ok /\ a.decision.type \in {"cancelled", "fail"}
              \/ a.ok /\ a.decision.type = "none" /\ Awaited(w, h, i, c)
              \/ Continued(h, i, c, rest, a)
              \/ Inexplicable(h, i, c) /\ a.decision.type = "none"
  <2>1. s \in i .. Len(h) /\ ~(s > Len(h))
    BY <1>1, <1>3, <1>19
  <2>2. a.ok = inner.ok /\ a.decision = inner.decision
    BY <1>9, <1>19, <2>1
  <2>3. \/ ~Matched(h, s + 1) /\ inner.decision.type = "none"
        \/ inner.ok /\ inner.decision.type = "cancelled"
        \/ Matched(h, s + 1) /\ inner.ok = done.ok /\ inner.decision = done.decision
    BY <1>7, <1>8, <1>10, <1>19, DispatchDoes
  <2>4. CASE ~Matched(h, s + 1) /\ inner.decision.type = "none"
    BY <1>2, <1>19, <2>1, <2>2, <2>4 DEF Inexplicable
  <2>5. CASE inner.ok /\ inner.decision.type = "cancelled"
    BY <2>2, <2>5
  <2>6. ASSUME inner.ok = done.ok, inner.decision = done.decision
        PROVE  \/ a.ok /\ a.decision.type \in {"cancelled", "fail"}
               \/ a.ok /\ a.decision.type = "none" /\ Awaited(w, h, i, c)
               \/ Continued(h, i, c, rest, a)
               \/ Inexplicable(h, i, c) /\ a.decision.type = "none"
    <3>1. j \in s + 1 .. Len(h) + 1 /\ Passed(h, s + 1, j)
      BY <1>7, <1>19
    <3>2. Waiting.ok /\ Waiting.decision.type = "none" /\ Failure.decision.type = "none"
          /\ Answer("fail", 0).ok /\ Answer("fail", 0).decision.type = "fail"
      BY DEF Waiting, Failure, Answer, E
    <3>3. CASE j > Len(h)
      <4>1. a.ok /\ a.decision.type = "none"
        BY <1>1, <1>6, <2>2, <2>6, <3>1, <3>2, <3>3 DEF Completion, Stray
      <4>2. Awaited(w, h, i, c)
        <5>1. behind \in s + 1 .. Len(h) + 1 /\ j \in behind .. Len(h) + 1 /\ ~(j <= Len(h))
          BY <1>1, <1>7, <1>19, <3>3
        <5> QED BY <1>2, <1>4, <1>5, <1>19, <2>1, <5>1 DEF Awaited
      <4> QED BY <4>1, <4>2
    <3>4. CASE ~(j > Len(h)) /\ h[j] = E("done", c)
      <4>1. done = rest[j + 1]
        BY <1>6, <3>4, PlainAnswers DEF Completion, Stray
      <4>2. j \in s + 1 .. Len(h)
        BY <1>1, <1>3, <3>1, <3>4
      <4>3. a.ok = rest[j + 1].ok /\ a.decision = rest[j + 1].decision
        BY <2>2, <2>6, <4>1
      <4> QED BY <1>3, <1>19, <2>1, <3>1, <3>4, <4>2, <4>3 DEF Continued
    <3>5. CASE ~(j > Len(h)) /\ h[j] # E("done", c) /\ h[j] = E("failed", c)
      <4>1. done = Answer("fail", 0)
        BY <1>6, <3>5, PlainAnswers DEF Completion, Stray
      <4> QED BY <2>2, <2>6, <3>2, <4>1
    <3>6. CASE /\ ~(j > Len(h)) /\ h[j] # E("done", c) /\ h[j] # E("failed", c)
               /\ h[j].type \in {"done", "failed"}
      <4>1. j \in s + 1 .. Len(h)
        BY <1>1, <1>3, <3>1, <3>6
      <4>2. h[j] \in Event
        <5>1. j \in 1 .. Len(h)
          BY <1>1, <1>3, <4>1
        <5> QED BY <5>1, ElementOfSeq
      <4>3. h[j].command # c
        BY <3>6, <4>2 DEF Event, E
      <4>4. a.decision.type = "none"
        BY <1>6, <2>2, <2>6, <3>2, <3>6 DEF Completion, Stray
      <4> QED BY <1>2, <1>19, <2>1, <3>1, <3>6, <4>1, <4>3, <4>4 DEF Inexplicable
    <3>7. CASE /\ ~(j > Len(h)) /\ h[j] # E("done", c) /\ h[j] # E("failed", c)
               /\ h[j].type \notin {"done", "failed"} /\ ~Stray(w, h, j, c)
      <4>1. a.ok /\ a.decision.type = "none"
        BY <1>6, <2>2, <2>6, <3>2, <3>7 DEF Completion
      <4>2. Awaited(w, h, i, c)
        <5>1. behind \in s + 1 .. Len(h) + 1 /\ j \in behind .. Len(h) + 1
          BY <1>7, <1>19
        <5> QED BY <1>2, <1>4, <1>5, <1>19, <2>1, <3>7, <5>1 DEF Awaited
      <4> QED BY <4>1, <4>2
    <3>8. CASE ~(j > Len(h)) /\ Stray(w, h, j, c)
      <4>1. j \in s + 1 .. Len(h) /\ j <= Len(h) /\ s + 1 >= 3
        BY <1>1, <1>3, <3>1, <3>8
      <4>2. h[j].type = "retry" /\ a.decision.type = "none"
        BY <1>6, <2>2, <2>6, <3>2, <3>8 DEF Stray
      <4>3. h[j] # E("retry", c)
        <5>1. j = AfterRetries(h, behind, c)
          BY <1>5, <3>8 DEF Stray
        <5>2. behind \in Nat /\ behind <= Len(h) + 1
          BY <1>1, <1>3, <1>7, <1>19
        <5> QED BY <4>1, <5>1, <5>2, AfterRetriesIs
      <4>4. h[j] \in Event
        <5>1. j \in 1 .. Len(h)
          BY <1>1, <1>3, <4>1
        <5> QED BY <5>1, ElementOfSeq
      <4>5. h[j].command # c
        BY <4>2, <4>3, <4>4 DEF Event, E
      <4> QED BY <1>2, <1>19, <2>1, <3>1, <4>1, <4>2, <4>5 DEF Inexplicable
    <3> QED BY <3>3, <3>4, <3>5, <3>6, <3>7, <3>8
  <2> QED BY <2>3, <2>4, <2>5, <2>6
<1> QED BY <1>10, <1>14, <1>15, <1>16, <1>17, <1>18, <1>19

\* What a replay decides is justified by the events it was given.
LEMMA BehindMore ==
  ASSUME NEW h \in Seq(Event), NEW i \in 2 .. Len(h) + 1, NEW c \in Nat, Behind(h, i, c),
         NEW s \in i .. Len(h), NEW j \in s + 1 .. Len(h),
         Passed(h, i, s), h[s] = E("scheduled", c), Passed(h, s + 1, j), h[j] = E("done", c)
  PROVE  Behind(h, j + 1, c + 1)
<1>1. Len(h) \in Nat /\ i \in Nat /\ s \in Nat /\ j \in Nat /\ i >= 2
  BY LenProperties
<1>2. \A p \in 1 .. j : p \in 1 .. i - 1 \/ p \in i .. s - 1 \/ p = s \/ p \in s + 1 .. j - 1 \/ p = j
  BY <1>1
<1>3. ASSUME NEW k \in 1 .. c
      PROVE  \E p \in 1 .. j : h[p] = E("done", k)
  <2>1. CASE k = c
    <3>1. j \in 1 .. j
      BY <1>1
    <3> QED BY <2>1, <3>1
  <2>2. CASE k # c
    <3>1. k \in 1 .. c - 1
      BY <2>2
    <3>2. PICK p \in 1 .. i - 1 : h[p] = E("done", k)
      BY <3>1 DEF Behind
    <3>3. p \in 1 .. j
      BY <1>1
    <3> QED BY <3>2, <3>3
  <2> QED BY <2>1, <2>2
<1>4. ASSUME NEW p \in 1 .. j, h[p].type = "scheduled"
      PROVE  h[p].command < c + 1
  <2>1. CASE p \in 1 .. i - 1
    <3>1. h[p].command < c
      BY <1>4, <2>1 DEF Behind
    <3>2. p \in 1 .. Len(h)
      BY <1>1
    <3>3. h[p] \in Event
      BY <3>2, ElementOfSeq
    <3>4. h[p].command \in Nat
      BY <3>3 DEF Event
    <3> QED BY <3>1, <3>4
  <2>2. CASE p \in i .. s - 1
    BY <1>4, <2>2 DEF Passed
  <2>3. CASE p = s
    <3>1. h[p].command = c
      BY <2>3, PlainAnswers
    <3> QED BY <3>1
  <2>4. CASE p \in s + 1 .. j - 1
    BY <1>4, <2>4 DEF Passed
  <2>5. CASE p = j
    BY <1>4, <2>5, PlainAnswers
  <2> QED BY <1>2, <2>1, <2>2, <2>3, <2>4, <2>5
<1>5. j + 1 - 1 = j /\ c + 1 - 1 = c
  BY <1>1
<1> QED BY <1>3, <1>4, <1>5 DEF Behind

\* Every answer with so many commands left is justified.
AllJustified(f, w, h, n, left) ==
  \A i \in 2 .. n + 1 :
    Behind(h, i, Len(Programs[w]) + 1 - left) => Justified(w, h, f[left][i].decision)

LEMMA JustifiedNext ==
  ASSUME NEW w \in Workflows, NEW h \in Seq(Event), NEW n, n = Len(h), n >= 1,
         NEW last, last = Len(Programs[w]), NEW ends,
         NEW f \in [0 .. last -> [2 .. n + 1 -> Answers(w)]], Answering(f, w, h, n, ends),
         NEW left \in 1 .. last, AllJustified(f, w, h, n, left - 1)
  PROVE  AllJustified(f, w, h, n, left)
<1>1. n \in Nat /\ last \in Nat
  BY LenProperties, ProgramLength
<1>2. PICK c : c = last + 1 - left
  OBVIOUS
<1>3. c \in 1 .. last /\ c \in Nat /\ left - 1 \in 0 .. last /\ last + 1 - (left - 1) = c + 1
  BY <1>1, <1>2
<1>4. PICK rest : rest = f[left - 1]
  OBVIOUS
<1>5. rest \in [2 .. n + 1 -> Answers(w)]
  BY <1>3, <1>4
<1>6. SUFFICES ASSUME NEW i \in 2 .. n + 1, Behind(h, i, c)
               PROVE  Justified(w, h, f[left][i].decision)
  BY <1>2 DEF AllJustified
<1>7. PICK a : a = f[left][i]
  OBVIOUS
<1>8. a = Resolve(w, h, i, c, rest)
  <2>1. f[left] = [k \in 2 .. n + 1 |-> Resolve(w, h, k, c, rest)]
    BY <1>2, <1>4 DEF Answering
  <2> QED BY <1>7, <2>1
<1>9. \/ a.ok /\ a.decision.type \in {"cancelled", "fail"}
      \/ a.ok /\ a.decision.type = "none" /\ Awaited(w, h, i, c)
      \/ a.ok /\ Passed(h, i, Len(h) + 1) /\ a.decision = E("schedule", c)
      \/ Continued(h, i, c, rest, a)
      \/ Inexplicable(h, i, c) /\ a.decision.type = "none"
  BY <1>3, <1>5, <1>8, ResolveDoes
<1>10. CASE a.decision.type \in {"none", "cancelled", "fail"}
  BY <1>7, <1>10 DEF Justified
<1>11. CASE Passed(h, i, Len(h) + 1) /\ a.decision = E("schedule", c)
  <2>1. a.decision.type = "schedule" /\ a.decision.command = c
    BY <1>11, PlainAnswers
  <2>2. \A p \in 1 .. Len(h) : p \in 1 .. i - 1 \/ p \in i .. Len(h) + 1 - 1
    BY <1>1
  <2>3. \A p \in 1 .. Len(h) : h[p].type = "scheduled" => h[p].command < c
    BY <1>6, <1>11, <2>2 DEF Behind, Passed
  <2>4. \A p \in 1 .. i - 1 : p \in 1 .. Len(h)
    BY <1>1
  <2>5. \A k \in 1 .. c - 1 : \E p \in 1 .. Len(h) : h[p] = E("done", k)
    BY <1>6, <2>4 DEF Behind
  <2> QED BY <1>7, <2>1, <2>3, <2>5 DEF Justified, Foremost
<1>12. CASE Continued(h, i, c, rest, a)
  <2>0. PICK s \in i .. Len(h) : \E j \in s + 1 .. Len(h) :
          /\ Passed(h, i, s) /\ h[s] = E("scheduled", c)
          /\ Passed(h, s + 1, j) /\ h[j] = E("done", c)
          /\ a.decision = rest[j + 1].decision
    BY <1>12 DEF Continued
  <2>1. PICK j \in s + 1 .. Len(h) :
          /\ Passed(h, i, s) /\ h[s] = E("scheduled", c)
          /\ Passed(h, s + 1, j) /\ h[j] = E("done", c)
          /\ a.decision = rest[j + 1].decision
    BY <2>0
  <2>2. Behind(h, j + 1, c + 1)
    BY <1>3, <1>6, <2>1, BehindMore
  <2>3. j + 1 \in 2 .. n + 1
    BY <1>1
  <2>4. Justified(w, h, f[left - 1][j + 1].decision)
    BY <1>3, <2>2, <2>3 DEF AllJustified
  <2> QED BY <1>4, <1>7, <2>1, <2>4
<1> QED BY <1>9, <1>10, <1>11, <1>12

LEMMA DecisionJustified ==
  ASSUME NEW w \in Workflows, lane \in Lanes, NEW n \in 1 .. Len(lane.history[w]),
         lane.history[w][1].type = "started",
         NEW h, h = SubSeq(lane.history[w], 1, n)
  PROVE  Justified(w, h, Replay(w, n).decision)
<1>1. PICK last : last = Len(Programs[w])
  OBVIOUS
<1>2. lane.history[w] \in Seq(Event) /\ last \in Nat
  BY <1>1, ProgramLength DEF Lanes
<1>3. Len(lane.history[w]) \in Nat /\ n \in Nat /\ n >= 1
  BY <1>2, LenProperties
<1>4. h \in Seq(Event) /\ Len(h) = n /\ h[1] = lane.history[w][1]
  BY <1>2, <1>3, SubSeqProperties
<1>5. PICK f \in [0 .. last -> [2 .. n + 1 -> Answers(w)]] :
         Answering(f, w, h, n, Ends(w)) /\ Replay(w, n) = f[last][2]
  BY <1>1, ReplayFollows
<1>6. AllJustified(f, w, h, n, 0)
  <2>1. SUFFICES ASSUME NEW i \in 2 .. n + 1, Behind(h, i, last + 1)
                 PROVE  Justified(w, h, f[0][i].decision)
    BY <1>1, <1>2 DEF AllJustified
  <2>2. f[0][i] = Ends(w)
    BY <1>5 DEF Answering
  <2>3. f[0][i].decision.type \in {"continue", "complete"}
    <3>1. Ends(w) = Answer("continue", 0) \/ Ends(w) = Answer("complete", 0)
      BY DEF Ends
    <3> QED BY <2>2, <3>1, PlainAnswers
  <2>4. ASSUME NEW c \in 1 .. last
        PROVE  AnsweredIn(h, c)
    <3>2. PICK p \in 1 .. i - 1 : h[p] = E("done", c)
      <4>1. PICK b : b = last + 1
        OBVIOUS
      <4>2. Behind(h, i, b)
        BY <2>1, <4>1
      <4>3. \A k \in 1 .. b - 1 : \E p \in 1 .. i - 1 : h[p] = E("done", k)
        BY <4>2 DEF Behind
      <4>4. c \in 1 .. b - 1
        BY <1>2, <4>1
      <4> QED BY <4>3, <4>4
    <3>3. p \in 1 .. Len(h)
      BY <1>3, <1>4
    <3>4. IsResult(h[p], c)
      BY <3>2, PlainAnswers DEF IsResult
    <3> QED BY <3>3, <3>4 DEF AnsweredIn
  <2> QED BY <1>1, <2>3, <2>4 DEF Justified
<1>7. \A left \in 1 .. last : AllJustified(f, w, h, n, left - 1) => AllJustified(f, w, h, n, left)
  BY <1>1, <1>3, <1>4, <1>5, JustifiedNext
<1>8. PICK T : T = {left \in Nat : left <= last => AllJustified(f, w, h, n, left)}
  OBVIOUS
<1>9. 0 \in T
  BY <1>6, <1>8
<1>10. ASSUME NEW left \in Nat, left \in T
       PROVE  left + 1 \in T
  <2>1. SUFFICES ASSUME left + 1 <= last
                 PROVE  AllJustified(f, w, h, n, left + 1)
    BY <1>8
  <2>2. left + 1 \in 1 .. last /\ left + 1 - 1 = left /\ left <= last
    BY <1>2, <2>1
  <2>3. AllJustified(f, w, h, n, left)
    BY <1>8, <1>10, <2>2
  <2> QED BY <1>7, <2>2, <2>3
<1>11. Nat \subseteq T
  BY <1>9, <1>10, SetInduction
<1>12. AllJustified(f, w, h, n, last)
  BY <1>2, <1>8, <1>11
<1>13. Behind(h, 2, Len(Programs[w]) + 1 - last)
  <2>1. Len(Programs[w]) + 1 - last = 1
    BY <1>1, <1>2
  <2>2. \A p \in 1 .. 2 - 1 : p = 1
    OBVIOUS
  <2>3. \A p \in 1 .. 2 - 1 : h[p].type # "scheduled"
    BY <1>4, <2>2
  <2> QED BY <2>1, <2>3 DEF Behind
<1>14. 2 \in 2 .. n + 1
  BY <1>3
<1> QED BY <1>5, <1>12, <1>13, <1>14 DEF AllJustified

-----------------------------------------------------------------------------
(* No replay fails *)

\* The completion of an update comes right behind its request.
Straight(h) ==
  \A k \in 2 .. Len(h) : h[k].type = "updated" => h[k - 1] = E("update", h[k].command)

LEMMA StraightMatched ==
  ASSUME NEW h, Straight(h), NEW i
  PROVE  Matched(h, i)
<1>1. SUFFICES ASSUME NEW k \in i + 1 .. AfterExternals(h, i) - 1, Completes(h, k)
               PROVE  h[k].command = h[k - 1].command
  BY DEF Matched
<1>2. h[k - 1] = E("update", h[k].command)
  BY <1>1 DEF Completes, Straight
<1> QED BY <1>2, PlainAnswers

\* A result found behind the events about the commands before c is not of one of them.
LEMMA OldResult ==
  ASSUME NEW w, NEW h, NEW i \in Nat, NEW c \in Nat, Behind(h, i, c),
         NEW n \in Nat, i - 1 <= n, NEW e, Fits(w, h, n, e), e.command \in Nat,
         e.type \in {"retry", "done", "failed"},
         NEW p \in 1 .. i - 1, h[p] = E("scheduled", e.command)
  PROVE  FALSE
<1>1. e.command < c
  BY PlainAnswers DEF Behind
<1>2. e.command \in 1 .. Len(Programs[w])
  BY DEF Fits, About
<1>3. PICK d : d = e.command
  OBVIOUS
<1>4. \A k \in 1 .. c - 1 : \E q \in 1 .. i - 1 : h[q] = E("done", k)
  BY DEF Behind
<1>5. d \in 1 .. c - 1
  BY <1>1, <1>2, <1>3
<1>6. PICK q \in 1 .. i - 1 : h[q] = E("done", d)
  BY <1>4, <1>5
<1>7. q \in 1 .. n /\ IsResult(h[q], d)
  BY <1>6, PlainAnswers DEF IsResult
<1> QED BY <1>3, <1>7 DEF Fits

\* The command asked for behind those before c is c.
LEMMA NextCommand ==
  ASSUME NEW w \in Workflows, NEW h \in Seq(Event), Ordered(w, h),
         NEW i \in 2 .. Len(h) + 1, NEW c \in 1 .. Len(Programs[w]), Behind(h, i, c),
         NEW s \in i .. Len(h), Passed(h, i, s), h[s].type = "scheduled"
  PROVE  h[s].command = c
<1>1. Len(h) \in Nat /\ i \in Nat /\ s \in Nat /\ c \in Nat /\ i >= 2 /\ s \in 1 .. Len(h)
  BY LenProperties, ProgramLength
<1>2. PICK d : d = h[s].command
  OBVIOUS
<1>3. h[s] \in Event
  BY <1>1, ElementOfSeq
<1>4. d \in Nat
  BY <1>2, <1>3 DEF Event
<1>5. /\ d \in 1 .. Len(Programs[w])
      /\ \A p \in 1 .. s - 1 : h[p].type = "scheduled" => h[p].command < d
      /\ \A k \in 1 .. d - 1 : \E p \in 1 .. s - 1 : h[p] = E("done", k)
  BY <1>1, <1>2 DEF Ordered, Fits, About
\* A command that is done was asked for before.
<1>6. ASSUME NEW q \in 1 .. i - 1, NEW k, h[q] = E("done", k)
      PROVE  \E p \in 1 .. i - 1 : h[p].type = "scheduled" /\ h[p].command = k
  <2>1. q \in 1 .. Len(h) /\ q \in Nat
    BY <1>1
  <2>2. Fits(w, h, q - 1, h[q])
    BY <2>1 DEF Ordered
  <2>3. h[q].type = "done" /\ h[q].command = k
    BY <1>6, PlainAnswers
  <2>4. PICK p \in 1 .. q - 1 : h[p] = E("scheduled", k)
    BY <2>2, <2>3 DEF Fits
  <2>5. p \in 1 .. i - 1
    BY <1>1
  <2> QED BY <2>4, <2>5, PlainAnswers
<1>7. CASE d < c
  <2>1. d \in 1 .. c - 1
    BY <1>1, <1>5, <1>7
  <2>2. \A k \in 1 .. c - 1 : \E q \in 1 .. i - 1 : h[q] = E("done", k)
    BY DEF Behind
  <2>3. PICK q \in 1 .. i - 1 : h[q] = E("done", d)
    BY <2>1, <2>2
  <2>4. PICK p \in 1 .. i - 1 : h[p].type = "scheduled" /\ h[p].command = d
    BY <1>6, <2>3
  <2>5. p \in 1 .. s - 1
    BY <1>1
  <2> QED BY <1>4, <1>5, <2>4, <2>5
<1>8. CASE c < d
  <2>1. c \in 1 .. d - 1
    BY <1>1, <1>4, <1>8
  <2>2. PICK q \in 1 .. s - 1 : h[q] = E("done", c)
    BY <1>5, <2>1
  <2>3. q \in 1 .. i - 1
    <3>1. h[q].type = "done"
      BY <2>2, PlainAnswers
    <3>2. q \in i .. s - 1 \/ q \in 1 .. i - 1
      BY <1>1
    <3> QED BY <3>1, <3>2 DEF Passed
  <2>4. PICK p \in 1 .. i - 1 : h[p].type = "scheduled" /\ h[p].command = c
    BY <1>6, <2>2, <2>3
  <2>5. c < c
    BY <2>4 DEF Behind
  <2> QED BY <1>1, <2>5
<1> QED BY <1>1, <1>2, <1>4, <1>7, <1>8

LEMMA Explicable ==
  ASSUME NEW w \in Workflows, NEW h \in Seq(Event), Ordered(w, h), Straight(h),
         \A k \in 1 .. Len(h) : h[k].type # "closed",
         NEW i \in 2 .. Len(h) + 1, h[i - 1].type # "update",
         NEW c \in 1 .. Len(Programs[w]), Behind(h, i, c)
  PROVE  ~Inexplicable(h, i, c)
<1>1. Len(h) \in Nat /\ i \in Nat /\ c \in Nat /\ i >= 2 /\ i <= Len(h) + 1
  BY LenProperties, ProgramLength
<1>2. SUFFICES ASSUME NEW s \in i .. Len(h), s = AfterExternals(h, i),
                      \/ h[s] # E("scheduled", c)
                      \/ h[s] = E("scheduled", c) /\
                           \E j \in s + 1 .. Len(h) :
                             /\ Passed(h, s + 1, j)
                             /\ h[j].type \in {"retry", "done", "failed"} /\ h[j].command # c
               PROVE  FALSE
  BY StraightMatched DEF Inexplicable
<1>3. s \in Nat /\ s \in 1 .. Len(h) /\ s - 1 \in Nat /\ s - 1 # 0 /\ i - 1 <= s - 1
  BY <1>1
<1>4. Passed(h, i, s)
  BY <1>1, <1>2, ExternalsPassed
<1>5. ~IsExternal(h[s]) /\ ~(s > i /\ Completes(h, s))
  BY <1>1, <1>2, AfterExternalsIs
<1>6. h[s] \in Event /\ Fits(w, h, s - 1, h[s]) /\ h[s].type # "closed"
  BY <1>3, ElementOfSeq DEF Ordered
<1>7. CASE h[s] # E("scheduled", c)
  <2>1. h[s].type # "started"
    BY <1>3, <1>6 DEF Fits
  <2>2. h[s].type # "updated"
    <3>1. SUFFICES ASSUME h[s].type = "updated"
                   PROVE  FALSE
      OBVIOUS
    <3>2. s \in 2 .. Len(h)
      BY <1>1
    <3>3. h[s - 1].type = "update"
      BY <3>1, <3>2, PlainAnswers DEF Straight
    <3>4. Completes(h, s)
      BY <3>1, <3>2, <3>3 DEF Completes
    <3>5. s = i
      BY <1>1, <1>3, <1>5, <3>4
    <3> QED BY <3>3, <3>5
  <2>3. h[s].type \notin {"retry", "done", "failed"}
    <3>1. SUFFICES ASSUME h[s].type \in {"retry", "done", "failed"}
                   PROVE  FALSE
      OBVIOUS
    <3>2. PICK p \in 1 .. s - 1 : h[p] = E("scheduled", h[s].command)
      BY <1>6, <3>1 DEF Fits
    <3>3. h[p].type = "scheduled" /\ (p \in 1 .. i - 1 \/ p \in i .. s - 1)
      BY <1>1, <1>3, <3>2, PlainAnswers
    <3>4. p \in 1 .. i - 1
      BY <1>4, <3>3 DEF Passed
    <3>5. h[s].command \in Nat
      BY <1>6 DEF Event
    <3> QED BY <1>1, <1>3, <1>6, <3>1, <3>2, <3>4, <3>5, OldResult
  <2>4. h[s].type = "scheduled"
    BY <1>5, <1>6, <2>1, <2>2, <2>3 DEF Event, EventTypes, IsExternal
  <2>5. h[s].command = c
    BY <1>4, <2>4, NextCommand
  <2> QED BY <1>6, <1>7, <2>4, <2>5 DEF Event, E
<1>8. CASE h[s] = E("scheduled", c)
  <2>1. PICK j \in s + 1 .. Len(h) :
          /\ Passed(h, s + 1, j)
          /\ h[j].type \in {"retry", "done", "failed"} /\ h[j].command # c
    BY <1>2, <1>8
  <2>2. j \in Nat /\ j \in 1 .. Len(h) /\ j - 1 \in Nat /\ i - 1 <= j - 1
    BY <1>1, <1>3
  <2>3. h[j] \in Event /\ Fits(w, h, j - 1, h[j])
    BY <2>2, ElementOfSeq DEF Ordered
  <2>4. PICK p \in 1 .. j - 1 : h[p] = E("scheduled", h[j].command)
    BY <2>1, <2>3 DEF Fits
  <2>5. h[p].type = "scheduled" /\ h[p].command = h[j].command
    BY <2>4, PlainAnswers
  <2>6. p \in 1 .. i - 1 \/ p \in i .. s - 1 \/ p = s \/ p \in s + 1 .. j - 1
    BY <1>1, <1>3, <2>2
  <2>7. p # s
    BY <1>8, <2>1, <2>5, PlainAnswers
  <2>8. p \in 1 .. i - 1
    BY <1>4, <2>1, <2>5, <2>6, <2>7 DEF Passed
  <2>9. h[j].command \in Nat
    BY <2>3 DEF Event
  <2> QED BY <1>1, <2>1, <2>2, <2>3, <2>4, <2>8, <2>9, OldResult
<1> QED BY <1>7, <1>8

\* Every answer with so many commands left is one.
AllAnswer(f, w, h, n, left) ==
  \A i \in 2 .. n + 1 :
    Behind(h, i, Len(Programs[w]) + 1 - left) /\ h[i - 1].type # "update" => f[left][i].ok

LEMMA AnswerNext ==
  ASSUME NEW w \in Workflows, NEW h \in Seq(Event), NEW n, n = Len(h), n >= 1,
         Ordered(w, h), Straight(h), \A k \in 1 .. Len(h) : h[k].type # "closed",
         NEW last, last = Len(Programs[w]), NEW ends,
         NEW f \in [0 .. last -> [2 .. n + 1 -> Answers(w)]], Answering(f, w, h, n, ends),
         NEW left \in 1 .. last, AllAnswer(f, w, h, n, left - 1)
  PROVE  AllAnswer(f, w, h, n, left)
<1>1. n \in Nat /\ last \in Nat
  BY LenProperties, ProgramLength
<1>2. PICK c : c = last + 1 - left
  OBVIOUS
<1>3. c \in 1 .. last /\ c \in Nat /\ left - 1 \in 0 .. last /\ last + 1 - (left - 1) = c + 1
  BY <1>1, <1>2
<1>4. PICK rest : rest = f[left - 1]
  OBVIOUS
<1>5. rest \in [2 .. n + 1 -> Answers(w)]
  BY <1>3, <1>4
<1>6. SUFFICES ASSUME NEW i \in 2 .. n + 1, Behind(h, i, c), h[i - 1].type # "update"
               PROVE  f[left][i].ok
  BY <1>2 DEF AllAnswer
<1>7. PICK a : a = f[left][i]
  OBVIOUS
<1>8. a = Resolve(w, h, i, c, rest)
  <2>1. f[left] = [k \in 2 .. n + 1 |-> Resolve(w, h, k, c, rest)]
    BY <1>2, <1>4 DEF Answering
  <2> QED BY <1>7, <2>1
<1>9. a.ok \/ Continued(h, i, c, rest, a) \/ Inexplicable(h, i, c)
  BY <1>3, <1>5, <1>8, ResolveDoes
<1>10. ~Inexplicable(h, i, c)
  BY <1>3, <1>6, Explicable
<1>11. CASE a.ok
  BY <1>7, <1>11
<1>12. CASE Continued(h, i, c, rest, a)
  <2>0. PICK s \in i .. Len(h) : \E j \in s + 1 .. Len(h) :
          /\ Passed(h, i, s) /\ h[s] = E("scheduled", c)
          /\ Passed(h, s + 1, j) /\ h[j] = E("done", c)
          /\ a.ok = rest[j + 1].ok
    BY <1>12 DEF Continued
  <2>1. PICK j \in s + 1 .. Len(h) :
          /\ Passed(h, i, s) /\ h[s] = E("scheduled", c)
          /\ Passed(h, s + 1, j) /\ h[j] = E("done", c)
          /\ a.ok = rest[j + 1].ok
    BY <2>0
  <2>2. Behind(h, j + 1, c + 1)
    BY <1>3, <1>6, <2>1, BehindMore
  <2>3. j + 1 \in 2 .. n + 1 /\ j + 1 - 1 = j
    BY <1>1
  <2>4. h[j].type # "update"
    BY <2>1, PlainAnswers
  <2>5. f[left - 1][j + 1].ok
    <3>1. PICK k, l : k = j + 1 /\ l = left - 1
      OBVIOUS
    <3>2. /\ k \in 2 .. n + 1 /\ h[k - 1].type # "update"
          /\ Behind(h, k, Len(Programs[w]) + 1 - l)
      BY <1>3, <2>2, <2>3, <2>4, <3>1
    <3>3. AllAnswer(f, w, h, n, l)
      BY <3>1
    <3>4. f[l][k].ok
      BY <3>2, <3>3 DEF AllAnswer
    <3> QED BY <3>1, <3>4
  <2> QED BY <1>4, <1>7, <2>1, <2>5
<1> QED BY <1>9, <1>10, <1>11, <1>12

LEMMA ReplayAnswers ==
  ASSUME NEW w \in Workflows, lane \in Lanes, NEW n \in 1 .. Len(lane.history[w]),
         NEW h, h = SubSeq(lane.history[w], 1, n),
         Ordered(w, h), Straight(h), \A k \in 1 .. Len(h) : h[k].type # "closed",
         h[1].type = "started"
  PROVE  Replay(w, n).ok
<1>1. PICK last : last = Len(Programs[w])
  OBVIOUS
<1>2. lane.history[w] \in Seq(Event) /\ last \in Nat
  BY <1>1, ProgramLength DEF Lanes
<1>3. Len(lane.history[w]) \in Nat /\ n \in Nat /\ n >= 1
  BY <1>2, LenProperties
<1>4. h \in Seq(Event) /\ Len(h) = n
  BY <1>2, <1>3, SubSeqProperties
<1>5. PICK f \in [0 .. last -> [2 .. n + 1 -> Answers(w)]] :
         Answering(f, w, h, n, Ends(w)) /\ Replay(w, n) = f[last][2]
  BY <1>1, ReplayFollows
<1>6. AllAnswer(f, w, h, n, 0)
  <2>1. Ends(w).ok
    <3>1. Ends(w) = Answer("continue", 0) \/ Ends(w) = Answer("complete", 0)
      BY DEF Ends
    <3> QED BY <3>1, PlainAnswers
  <2>2. \A i \in 2 .. n + 1 : f[0][i] = Ends(w)
    BY <1>5 DEF Answering
  <2> QED BY <2>1, <2>2 DEF AllAnswer
<1>7. \A left \in 1 .. last : AllAnswer(f, w, h, n, left - 1) => AllAnswer(f, w, h, n, left)
  BY <1>1, <1>3, <1>4, <1>5, AnswerNext
<1>8. PICK T : T = {left \in Nat : left <= last => AllAnswer(f, w, h, n, left)}
  OBVIOUS
<1>9. 0 \in T
  BY <1>6, <1>8
<1>10. ASSUME NEW left \in Nat, left \in T
       PROVE  left + 1 \in T
  <2>1. SUFFICES ASSUME left + 1 <= last
                 PROVE  AllAnswer(f, w, h, n, left + 1)
    BY <1>8
  <2>2. left + 1 \in 1 .. last /\ left + 1 - 1 = left /\ left <= last
    BY <1>2, <2>1
  <2>3. AllAnswer(f, w, h, n, left)
    BY <1>8, <1>10, <2>2
  <2> QED BY <1>7, <2>2, <2>3
<1>11. Nat \subseteq T
  BY <1>9, <1>10, SetInduction
<1>12. AllAnswer(f, w, h, n, last)
  BY <1>2, <1>8, <1>11
<1>13. Behind(h, 2, Len(Programs[w]) + 1 - last) /\ h[2 - 1].type # "update"
  <2>1. Len(Programs[w]) + 1 - last = 1 /\ 2 - 1 = 1
    BY <1>1, <1>2
  <2>2. \A p \in 1 .. 2 - 1 : p = 1
    OBVIOUS
  <2>3. \A p \in 1 .. 2 - 1 : h[p].type # "scheduled"
    BY <2>2
  <2> QED BY <2>1, <2>3 DEF Behind
<1>14. 2 \in 2 .. n + 1
  BY <1>3
<1> QED BY <1>5, <1>12, <1>13, <1>14 DEF AllAnswer

-----------------------------------------------------------------------------
(* The activities of a lane in order *)

LEMMA ReplaceFine ==
  ASSUME NEW S, NEW P, Orderly(S, P), NEW a \in S.activities, NEW b,
         b.workflow = a.workflow, b.command = a.command,
         NEW T, T.history = S.history, T.status = S.status, T.timers = S.timers,
         T.activities = (S.activities \ {a}) \cup {b}
  PROVE  Orderly(T, P) /\ Follows(S, T)
<1>1. \A w \in Workflows : \A c \in Nat : Pending(T, w, c) => Pending(S, w, c)
  BY DEF Pending
<1>2. AwaitedOnce(T, P)
  BY <1>1 DEF Orderly, AwaitedOnce
<1>3. OfTheirKind(T)
  <2>1. \A d \in T.activities : \E e \in S.activities :
          /\ d.workflow = e.workflow /\ d.command = e.command
          /\ e = a => d = b
          /\ e # a => d = e
    OBVIOUS
  <2> QED BY <2>1 DEF Orderly, OfTheirKind
<1>4. Begun(T) /\ \A w \in Workflows : Ordered(w, T.history[w])
  BY DEF Orderly, Begun
<1> QED BY <1>2, <1>3, <1>4, FollowsItself DEF Orderly

LEMMA RetryFine ==
  ASSUME NEW S, NEW X, NEW P, P = {}, Fine(S, X, P), NEW a \in S.activities,
         NEW w \in Workflows, w = a.workflow, S.status[w] = "RUNNING",
         NEW c \in Nat, c = a.command, NEW T, T = AppendEvent(S, w, E("retry", c))
  PROVE  Orderly(T, P) /\ Follows(S, T)
<1>1. PICK h, e : h = S.history[w] /\ e = E("retry", c)
  OBVIOUS
<1>2. S \in Lanes /\ h \in Seq(Event) /\ Len(h) >= 1 /\ Ordered(w, h)
  BY <1>1 DEF Fine, Good, Told, Lanes, Orderly
<1>3. e \in Event /\ e.type = "retry" /\ e.command = c
  BY <1>1, EventsTyped DEF EventTypes
<1>4. /\ T.history[w] = Append(S.history[w], e)
      /\ \A v \in Workflows \ {w} : T.history[v] = S.history[v]
      /\ T.status = S.status /\ T.timers = S.timers /\ T.activities = S.activities
  BY <1>1, <1>2, <1>3, AppendEventDoes
<1>5. c \in 1 .. Len(Programs[w]) /\ Programs[w][c] = "activity"
  BY DEF Fine, Orderly, OfTheirKind
<1>6. ScheduledIn(h, c) /\ ~AnsweredIn(h, c)
  <2>1. Pending(S, w, c)
    BY DEF Pending
  <2> QED BY <1>1, <2>1 DEF Fine, Orderly, AwaitedOnce
<1>7. Fits(w, h, Len(h), e)
  BY <1>2, <1>3, <1>5, <1>6 DEF Fits, About, ScheduledIn, AnsweredIn
<1>8. PICK g : g = Append(h, e)
  OBVIOUS
<1>9. Quiet(w, h, g)
  <2>1. Ordered(w, g)
    BY <1>2, <1>3, <1>7, <1>8, OrderedMore
  <2>2. ASSUME NEW d \in Nat
        PROVE  /\ ScheduledIn(g, d) <=> ScheduledIn(h, d)
               /\ AnsweredIn(g, d) <=> AnsweredIn(h, d)
    <3>1. e # E("scheduled", d) /\ ~IsResult(e, d)
      BY <1>3, PlainAnswers DEF IsResult
    <3>2. ScheduledIn(g, d) <=> ScheduledIn(h, d) \/ e = E("scheduled", d)
      BY <1>2, <1>3, <1>8, ScheduledMore
    <3>3. AnsweredIn(g, d) <=> AnsweredIn(h, d) \/ IsResult(e, d)
      BY <1>2, <1>3, <1>8, AnsweredMore
    <3> QED BY <3>1, <3>2, <3>3
  <2>3. \A n \in 1 .. Len(g) : g[n].type = "scheduled" => n \in 1 .. Len(h) /\ h[n].type = "scheduled"
    <3>1. PICK m : m = Len(h)
      OBVIOUS
    <3>2. /\ Len(g) = m + 1 /\ m \in Nat /\ g[m + 1] = e
          /\ \A i \in 1 .. m : g[i] = h[i]
      BY <1>2, <1>3, <1>8, <3>1, Grown
    <3>3. \A n \in 1 .. m + 1 : n = m + 1 \/ n \in 1 .. m
      BY <3>2
    <3> QED BY <1>3, <3>1, <3>2, <3>3
  <2> QED BY <2>1, <2>2, <2>3 DEF Quiet
<1>10. Calm(S, T)
  <2>1. T.history[w] = g /\ S.history[w] = h
    BY <1>1, <1>4, <1>8
  <2>2. \A v \in Workflows : Quiet(v, S.history[v], T.history[v])
    BY <1>4, <1>9, <2>1, QuietItself
  <2> QED BY <1>4, <2>2 DEF Calm
<1> QED BY <1>10, CalmOrderly DEF Fine

\* An activity that is awaited is answered.
LEMMA AnswerFine ==
  ASSUME NEW S, NEW X, X = {}, NEW P, P = {}, Fine(S, X, P), NEW a \in S.activities,
         NEW w \in Workflows, w = a.workflow, S.status[w] = "RUNNING",
         NEW c \in Nat, c = a.command, NEW result \in {"done", "failed"},
         NEW R, R = WithActivities(S, S.activities \ {a}), NEW T, T = Wake(R, w, E(result, c))
  PROVE  Orderly(T, P) /\ Follows(R, T) /\ Follows(S, R)
<1>1. S \in Lanes /\ Good(S, {})
  BY DEF Fine, Good
<1>2. /\ R.activities = S.activities \ {a}
      /\ R.status = S.status /\ R.history = S.history /\ R.timers = S.timers
  <2>1. PICK acts : acts = S.activities \ {a}
    OBVIOUS
  <2>2. acts \in SUBSET Activities
    BY <1>1, <2>1 DEF Lanes
  <2>3. R = WithActivities(S, acts)
    BY <2>1
  <2> QED BY <1>1, <2>1, <2>2, <2>3, ActivitiesAre
<1>3. Orderly(R, P) /\ Follows(S, R)
  BY <1>2, SilentFine DEF Fine
<1>4. Good(R, X)
  BY <1>1, RemoveGood
<1>5. PICK Q : Q = {<<w, c>>}
  OBVIOUS
<1>6. Pending(S, w, c)
  BY DEF Pending
<1>7. Orderly(R, Q)
  <2>1. ScheduledIn(R.history[w], c) /\ ~AnsweredIn(R.history[w], c)
    BY <1>2, <1>6 DEF Fine, Orderly, AwaitedOnce
  <2>2. AwaitedOnce(R, Q)
    BY <1>3, <1>5, <2>1 DEF Orderly, AwaitedOnce
  <2> QED BY <1>3, <2>2 DEF Orderly
<1>8. c \in 1 .. Len(Programs[w]) /\ Programs[w][c] = "activity"
  BY DEF Fine, Orderly, OfTheirKind
<1>9. ~Pending(R, w, c)
  <2>1. <<w, c>> \notin R.timers
    BY <1>2, <1>8 DEF Fine, Orderly, OfTheirKind
  <2>2. \A b \in R.activities : ~(b.workflow = w /\ b.command = c)
    BY <1>2 DEF Fine, Orderly, OfTheirKind
  <2>3. \A v \in Workflows : ~(Parent[v] = w /\ CommandOf(v) = c)
    BY <1>8, NoChildPends
  <2> QED BY <2>1, <2>2, <2>3 DEF Pending
<1>10. Fine(R, X, Q)
  BY <1>4, <1>7 DEF Fine
<1>11. P \subseteq Q /\ <<w, c>> \in Q /\ <<w, c>> \notin P /\ R.status[w] = "RUNNING"
  BY <1>2, <1>5
<1> QED BY <1>3, <1>9, <1>10, <1>11, ResultFine

-----------------------------------------------------------------------------
(* Every step keeps the order of the histories. *)

\* A step that gives nobody a task.
LEMMA ReplayKept ==
  ASSUME ReplayInvariant, WorkflowInvariant', Keeps(lane, lane'),
         Orderly(lane', {}), Follows(lane, lane'),
         \A y \in Workers : job'[y] \in {job[y], NoJob} \cup ActivityJob
  PROVE  ReplayInvariant'
<1>1. PICK S, T, jobs, later : S = lane /\ T = lane' /\ jobs = job /\ later = job'
  OBVIOUS
<1>2. SeenScheduled(T, later)
  <2>1. SUFFICES ASSUME NEW x \in Workers, NEW n \in Nat, later[x].kind = "workflow",
                        T.task[later[x].workflow].token = x,
                        n \in 1 .. Len(T.history[later[x].workflow]),
                        T.history[later[x].workflow][n].type = "scheduled"
                 PROVE  n <= later[x].seen
    BY DEF SeenScheduled
  <2>2. later[x] = jobs[x]
    BY <1>1, <2>1 DEF NoJob, ActivityJob
  <2>3. PICK w : w = later[x].workflow
    OBVIOUS
  <2>4. w \in Workflows
    BY <1>1, <2>1, <2>2, <2>3, JobsAre DEF ReplayInvariant, WorkflowInvariant
  <2>5. x # NoWorker
    BY WorkflowAssumption
  <2>6. S.task[w].token = x
    BY <1>1, <2>1, <2>3, <2>4, <2>5 DEF Keeps
  <2>7. n \in 1 .. Len(S.history[w]) /\ S.history[w][n].type = "scheduled"
    BY <1>1, <2>1, <2>3, <2>4, <2>5 DEF Follows
  <2> QED BY <1>1, <2>1, <2>2, <2>3, <2>6, <2>7 DEF ReplayInvariant, SeenScheduled
<1>3. Orderly(lane, {})'
  BY DEF Orderly, AwaitedOnce, Pending, OfTheirKind, Begun, Ordered, Fits, CommandOf
<1>4. SeenScheduled(lane, job)'
  BY <1>1, <1>2 DEF SeenScheduled
<1> QED BY <1>3, <1>4 DEF ReplayInvariant

LEMMA ReplayInitially ==
  ASSUME WorkflowInit
  PROVE  ReplayInvariant
<1>1. /\ \A w \in Workflows : /\ lane.status[w] = "none" /\ lane.history[w] = <<>>
                              /\ lane.task[w] = NoTask
      /\ lane.timers = {} /\ lane.activities = {}
      /\ \A x \in Workers : job[x] = NoJob
  BY DEF WorkflowInit
<1>2. \A w \in Workflows : Ordered(w, lane.history[w])
  BY <1>1 DEF Ordered
<1>3. AwaitedOnce(lane, {}) /\ OfTheirKind(lane)
  BY <1>1 DEF AwaitedOnce, OfTheirKind
<1>4. Begun(lane)
  BY <1>1 DEF Begun, ScheduledIn
<1>5. SeenScheduled(lane, job)
  BY <1>1 DEF SeenScheduled, NoJob
<1> QED BY <1>2, <1>3, <1>4, <1>5, WorkflowInitially DEF ReplayInvariant, Orderly

LEMMA StartWorkflowOrderly ==
  ASSUME ReplayInvariant, NEW w \in Workflows, StartWorkflow(w)
  PROVE  Orderly(lane', {}) /\ Follows(lane, lane')
<1>1. PICK L, T, X, P : L = lane /\ T = lane' /\ X = {} /\ P = {}
  OBVIOUS
<1>2. Good(L, X) /\ Orderly(L, P)
  BY <1>1 DEF ReplayInvariant, WorkflowInvariant
<1>3. L.status[w] = "none" /\ Parent[w] \notin Workflows /\ T = Start(L, w)
  BY <1>1, WorkflowAssumption DEF StartWorkflow, Roots
<1>4. OrderlyBut(L, P, w)
  BY <1>2 DEF Orderly, OrderlyBut, Begun
<1> QED BY <1>1, <1>2, <1>3, <1>4, StartFine

LEMMA SendOrderly ==
  ASSUME ReplayInvariant, NEW w \in Workflows, NEW kind \in ExternalKinds, Send(w, kind)
  PROVE  Orderly(lane', {}) /\ Follows(lane, lane')
<1>1. PICK L, T, n, e, X, P :
        /\ L = lane /\ T = lane' /\ n = disturbances' /\ X = {} /\ P = {}
        /\ e = E(kind, IF kind = "update" THEN n ELSE 0)
  OBVIOUS
<1>2. n \in Nat
  BY <1>1, WorkflowAssumption DEF ReplayInvariant, WorkflowInvariant, Send, Disturbance
<1>3. e \in Event /\ Plain(e)
  <2>1. kind \in {"signal", "cancel", "update"}
    BY WorkflowAssumption
  <2>2. kind \in EventTypes /\ (IF kind = "update" THEN n ELSE 0) \in Nat
    BY <1>2, <2>1 DEF EventTypes
  <2>3. e \in Event /\ e.type = kind
    BY <1>1, <2>2, EventsTyped, PlainAnswers
  <2> QED BY <2>1, <2>3 DEF Plain, About
<1>4. T = Wake(L, w, e) /\ L.status[w] = "RUNNING"
  BY <1>1 DEF Send
<1>5. Fine(L, X, P)
  BY <1>1 DEF ReplayInvariant, WorkflowInvariant, Fine
<1> QED BY <1>1, <1>3, <1>4, <1>5, WakeFine

LEMMA TerminateOrderly ==
  ASSUME ReplayInvariant, NEW w \in Workflows, Terminate(w)
  PROVE  Orderly(lane', {}) /\ Follows(lane, lane')
<1>1. PICK L, C, T, X, P :
        L = lane /\ C = Close(L, w, "TERMINATED") /\ T = lane' /\ X = {} /\ P = {}
  OBVIOUS
<1>2. Fine(L, X, P) /\ L.status[w] = "RUNNING" /\ policy \in ChildPolicies
  BY <1>1 DEF ReplayInvariant, WorkflowInvariant, Fine, Terminate
<1>3. Orderly(C, P) /\ Follows(L, C)
  BY <1>1, <1>2, CloseFine DEF Statuses
<1>4. Good(C, X \cup {w})
  BY <1>1, <1>2, CloseGood DEF Statuses, Fine
<1>5. T = DropTask(C, w) /\ C \in Lanes
  BY <1>1, <1>4 DEF Terminate, Good
<1>6. Keeps(C, T)
  BY <1>4, <1>5, DropTaskGood
<1>7. Orderly(T, P) /\ Follows(C, T)
  <2>1. /\ T.status = C.status /\ T.history = C.history
        /\ T.timers = C.timers /\ T.activities = C.activities
    BY <1>5, DropTaskSilent
  <2> QED BY <1>3, <2>1, SilentFine
<1> QED BY <1>1, <1>3, <1>6, <1>7, FollowsTransitive

LEMMA FailTaskOrderly ==
  ASSUME ReplayInvariant, NEW x \in Workers, FailTask(x)
  PROVE  Orderly(lane', {}) /\ Follows(lane, lane')
<1>1. PICK L, w, e, A, T, X, P :
        /\ L = lane /\ w = job[x].workflow /\ e = E("taskFailed", 0)
        /\ A = AppendEvent(L, w, e) /\ T = lane' /\ X = {} /\ P = {}
  OBVIOUS
<1>2. w \in Workflows /\ L.status[w] = "RUNNING"
  BY <1>1, TaskHeld DEF FailTask, ReplayInvariant
<1>3. e \in Event /\ e.type # "closed" /\ Plain(e)
  BY <1>1, EventsTyped DEF EventTypes, Plain, About
<1>4. Fine(L, X, P)
  BY <1>1 DEF ReplayInvariant, WorkflowInvariant, Fine
<1>5. Orderly(A, P) /\ Follows(L, A)
  BY <1>1, <1>2, <1>3, <1>4, AppendEventFine
<1>6. Good(A, X) /\ A.status = L.status
  BY <1>1, <1>2, <1>3, <1>4, AppendEventGood DEF Fine
<1>7. T = WithTask(A, w, FreshTask)
  BY <1>1 DEF FailTask, WithTask
<1>8. /\ T.task = [A.task EXCEPT ![w] = FreshTask] /\ T.history = A.history /\ T.status = A.status
      /\ T.timers = A.timers /\ T.activities = A.activities
  <2>1. A.status[w] = "RUNNING" /\ FreshTask \in Tasks
    BY <1>2, <1>6, NoTaskTyped
  <2> QED BY <1>2, <1>6, <1>7, <2>1, TaskGood
<1>9. Orderly(T, P)
  BY <1>5, <1>8, SilentFine
<1>10. Follows(L, T)
  <2>1. A \in Lanes
    BY <1>6 DEF Good
  <2>2. T.task[w] = FreshTask /\ \A v \in Workflows \ {w} : T.task[v] = A.task[v]
    BY <1>2, <1>8, <2>1 DEF Lanes
  <2> QED BY <1>5, <1>8, <2>2 DEF Follows, FreshTask
<1> QED BY <1>1, <1>9, <1>10

LEMMA CompleteActivityOrderly ==
  ASSUME ReplayInvariant, NEW x \in Workers, NEW result \in {"done", "failed"},
         CompleteActivity(x, result)
  PROVE  Orderly(lane', {}) /\ Follows(lane, lane')
<1>1. PICK L, T, X, P : L = lane /\ T = lane' /\ X = {} /\ P = {}
  OBVIOUS
<1>2. PICK a \in L.activities :
        T = Wake(WithActivities(L, L.activities \ {a}), a.workflow, E(result, a.command))
  BY <1>1 DEF CompleteActivity, Held, WithActivities
<1>3. PICK R, w, c : R = WithActivities(L, L.activities \ {a}) /\ w = a.workflow /\ c = a.command
  OBVIOUS
<1>4. w \in Workflows /\ L.status[w] = "RUNNING" /\ c \in Nat
  BY <1>1, <1>3, ActivitiesRunning DEF ReplayInvariant
<1>5. Fine(L, X, P) /\ Good(L, {})
  BY <1>1 DEF ReplayInvariant, WorkflowInvariant, Fine
<1>6. T = Wake(R, w, E(result, c))
  BY <1>2, <1>3
<1>7. Orderly(T, P) /\ Follows(R, T) /\ Follows(L, R)
  BY <1>1, <1>3, <1>4, <1>5, <1>6, AnswerFine
<1>8. Good(R, {}) /\ R.status = L.status
  BY <1>3, <1>5, RemoveGood
<1>9. E(result, c) \in Event /\ E(result, c).type # "closed"
  <2>1. result \in EventTypes /\ result # "closed"
    BY DEF EventTypes
  <2> QED BY <1>4, <2>1, EventsTyped, PlainAnswers
<1>10. Keeps(R, T)
  BY <1>4, <1>6, <1>8, <1>9, WakeGood
<1> QED BY <1>1, <1>7, <1>10, FollowsTransitive

LEMMA RetryActivityOrderly ==
  ASSUME ReplayInvariant, NEW x \in Workers, RetryActivity(x)
  PROVE  Orderly(lane', {}) /\ Follows(lane, lane')
<1>1. PICK L, T, X, P : L = lane /\ T = lane' /\ X = {} /\ P = {}
  OBVIOUS
<1>2. PICK a \in L.activities :
        /\ a.attempt < MaxAttempts
        /\ T = [AppendEvent(L, a.workflow, E("retry", a.command)) EXCEPT !.activities =
             (@ \ {a}) \cup {[a EXCEPT !.attempt = @ + 1, !.lease = "none", !.token = NoWorker]}]
  BY <1>1 DEF RetryActivity, Held
<1>3. PICK w, c, e, A, b :
        /\ w = a.workflow /\ c = a.command /\ e = E("retry", c) /\ A = AppendEvent(L, w, e)
        /\ b = [a EXCEPT !.attempt = @ + 1, !.lease = "none", !.token = NoWorker]
  OBVIOUS
<1>4. a \in Activities /\ w \in Workflows /\ L.status[w] = "RUNNING" /\ c \in Nat
  BY <1>1, <1>3, ActivitiesRunning DEF ReplayInvariant
<1>5. Fine(L, X, P) /\ L \in Lanes
  BY <1>1 DEF ReplayInvariant, WorkflowInvariant, Fine, Good
<1>6. Orderly(A, P) /\ Follows(L, A)
  BY <1>1, <1>3, <1>4, <1>5, RetryFine
<1>7. e \in Event
  BY <1>3, <1>4, EventsTyped DEF EventTypes
<1>8. A \in Lanes /\ A.activities = L.activities
  <2>1. A.activities = L.activities
    BY <1>3, <1>4, <1>5, <1>7, AppendEventDoes
  <2>2. e.type # "closed"
    BY <1>3, PlainAnswers
  <2>3. Good(A, X)
    BY <1>3, <1>4, <1>5, <1>7, <2>2, AppendEventGood DEF Fine
  <2> QED BY <2>1, <2>3 DEF Good
<1>9. b \in Activities /\ b.workflow = a.workflow /\ b.command = a.command
  <2>1. a.attempt + 1 \in 1 .. MaxAttempts
    BY <1>2, <1>4, WorkflowAssumption DEF Activities
  <2> QED BY <1>3, <1>4, <2>1 DEF Activities, Leases
<1>10. PICK acts : acts = (A.activities \ {a}) \cup {b}
  OBVIOUS
<1>11. acts \in SUBSET Activities
  BY <1>8, <1>9, <1>10 DEF Lanes
<1>12. T = WithActivities(A, acts)
  BY <1>2, <1>3, <1>10 DEF WithActivities
<1>13. /\ T.activities = acts /\ T.timers = A.timers
       /\ T.status = A.status /\ T.history = A.history /\ T.task = A.task
  BY <1>8, <1>11, <1>12, ActivitiesAre
<1>14. Orderly(T, P)
  BY <1>6, <1>8, <1>9, <1>10, <1>13, ReplaceFine
<1>15. Follows(L, T)
  BY <1>6, <1>13 DEF Follows
<1> QED BY <1>1, <1>14, <1>15

\* The lease of an activity changes.
LEMMA LeaseOrderly ==
  ASSUME ReplayInvariant, NEW a \in lane.activities, NEW lease \in Leases,
         lane' = WithActivities(lane, (lane.activities \ {a}) \cup {[a EXCEPT !.lease = lease]})
  PROVE  Orderly(lane', {}) /\ Follows(lane, lane')
<1>1. PICK L, T, b, P :
        L = lane /\ T = lane' /\ b = [a EXCEPT !.lease = lease] /\ P = {}
  OBVIOUS
<1>2. a \in Activities /\ L \in Lanes /\ Orderly(L, P)
  BY <1>1, ActivitiesRunning DEF ReplayInvariant, WorkflowInvariant, Good
<1>3. b \in Activities /\ b.workflow = a.workflow /\ b.command = a.command
  BY <1>1, <1>2 DEF Activities
<1>4. PICK acts : acts = (L.activities \ {a}) \cup {b}
  OBVIOUS
<1>5. acts \in SUBSET Activities /\ T = WithActivities(L, acts)
  BY <1>1, <1>2, <1>3, <1>4 DEF Lanes
<1>6. /\ T.activities = acts /\ T.timers = L.timers
      /\ T.status = L.status /\ T.history = L.history
  BY <1>2, <1>5, ActivitiesAre
<1> QED BY <1>1, <1>2, <1>3, <1>4, <1>6, ReplaceFine

LEMMA ExpireLeaseOrderly ==
  ASSUME ReplayInvariant, NEW x \in Workers, ExpireLease(x)
  PROVE  Orderly(lane', {}) /\ Follows(lane, lane')
<1>1. CASE \E a \in lane.activities :
             lane' = WithActivities(lane, (lane.activities \ {a}) \cup {[a EXCEPT !.lease = "expired"]})
  <2>1. "expired" \in Leases
    BY DEF Leases
  <2> QED BY <1>1, <2>1, LeaseOrderly
<1>2. ASSUME NEW w \in Workflows, lane' = [lane EXCEPT !.task[w].lease = "expired"]
      PROVE  Orderly(lane', {}) /\ Follows(lane, lane')
  <2>1. PICK L, T, P : L = lane /\ T = lane' /\ P = {}
    OBVIOUS
  <2>2. L \in Lanes /\ Orderly(L, P)
    BY <2>1 DEF ReplayInvariant, WorkflowInvariant, Good
  <2>3. PICK tasks : tasks = [L.task EXCEPT ![w].lease = "expired"]
    OBVIOUS
  <2>4. T = [L EXCEPT !.task = tasks]
    BY <1>2, <2>1, <2>3
  <2>5. T.history = L.history /\ T.status = L.status /\ T.timers = L.timers /\ T.activities = L.activities
    BY <2>2, <2>4 DEF Lanes
  <2> QED BY <2>1, <2>2, <2>5, SilentFine
<1> QED BY <1>1, <1>2 DEF ExpireLease, WithActivities

LEMMA JustifiedMore ==
  ASSUME NEW w \in Workflows, NEW h \in Seq(Event), NEW g \in Seq(Event), Len(g) >= Len(h),
         \A n \in 1 .. Len(h) : g[n] = h[n],
         \A n \in 1 .. Len(g) : g[n].type = "scheduled" => n \in 1 .. Len(h),
         NEW decision, decision.command \in Nat, Justified(w, h, decision)
  PROVE  Justified(w, g, decision)
<1>1. PICK c : c = decision.command
  OBVIOUS
<1>2. Foremost(h, c) => Foremost(g, c)
  BY <1>1, ForemostMore
<1>3. \A k : AnsweredIn(h, k) => AnsweredIn(g, k)
  <2>1. \A n \in 1 .. Len(h) : n \in 1 .. Len(g)
    BY LenProperties
  <2> QED BY <2>1 DEF AnsweredIn
<1> QED BY <1>1, <1>2, <1>3 DEF Justified

\* What a worker answers is justified by the history there is by then.
LEMMA AnswerJustified ==
  ASSUME ReplayInvariant, NEW x \in Workers, HasTask(x),
         NEW w, w = job[x].workflow, NEW n, n = job[x].seen
  PROVE  Justified(w, lane.history[w], Replay(w, n).decision)
<1>1. PICK g, h, decision :
        g = lane.history[w] /\ h = SubSeq(g, 1, n) /\ decision = Replay(w, n).decision
  OBVIOUS
<1>2. w \in Workflows /\ lane.status[w] = "RUNNING" /\ n \in 1 .. Len(g) /\ lane \in Lanes
  BY <1>1, TaskHeld DEF ReplayInvariant, WorkflowInvariant, Good
<1>3. g \in Seq(Event) /\ Len(g) \in Nat /\ n \in Nat /\ n >= 1
  <2>1. g \in Seq(Event)
    BY <1>1, <1>2 DEF Lanes
  <2> QED BY <1>2, <2>1, LenProperties
<1>4. h \in Seq(Event) /\ Len(h) = n /\ \A i \in 1 .. n : g[i] = h[i]
  BY <1>1, <1>2, <1>3, SubSeqProperties
<1>5. g[1].type = "started"
  <2>1. Ordered(w, g) /\ 1 \in 1 .. Len(g)
    BY <1>1, <1>2, <1>3 DEF ReplayInvariant, Orderly
  <2>2. Fits(w, g, 1 - 1, g[1])
    BY <2>1 DEF Ordered
  <2> QED BY <2>2 DEF Fits
<1>6. Justified(w, h, decision)
  BY <1>1, <1>2, <1>5, DecisionJustified
<1>7. decision.command \in Nat
  <2>1. Replay(w, n) \in Answers(w)
    BY <1>1, <1>2, ReplayIs
  <2> QED BY <1>1, <2>1 DEF Answers, Decisions
<1>8. \A i \in 1 .. Len(g) : g[i].type = "scheduled" => i \in 1 .. n
  <2>1. job[x].kind = "workflow" /\ lane.task[job[x].workflow].token = x
    BY DEF HasTask
  <2>2. \A i \in Nat : i \in 1 .. Len(g) /\ g[i].type = "scheduled" => i <= n
    BY <1>1, <2>1 DEF ReplayInvariant, SeenScheduled
  <2> QED BY <1>3, <2>2
<1>9. Len(g) >= Len(h)
  BY <1>2, <1>3, <1>4
<1>10. /\ \A i \in 1 .. Len(h) : g[i] = h[i]
       /\ \A i \in 1 .. Len(g) : g[i].type = "scheduled" => i \in 1 .. Len(h)
  BY <1>4, <1>8
<1>11. Justified(w, g, decision)
  BY <1>2, <1>3, <1>4, <1>6, <1>7, <1>9, <1>10, JustifiedMore
<1> QED BY <1>1, <1>11

LEMMA CompleteWorkflowOrderly ==
  ASSUME ReplayInvariant, NEW x \in Workers, CompleteWorkflow(x)
  PROVE  Orderly(lane', {}) /\ Follows(lane, lane')
<1>1. PICK L, w, n, D, answer, A, T, X, P :
        /\ L = lane /\ w = job[x].workflow /\ n = job[x].seen /\ D = DropTask(L, w)
        /\ answer = Replay(w, n) /\ A = Apply(D, w, answer) /\ T = lane' /\ X = {} /\ P = {}
  OBVIOUS
<1>2. w \in Workflows /\ L.status[w] = "RUNNING" /\ n \in 1 .. Len(L.history[w]) /\ HasTask(x)
  BY <1>1, TaskHeld DEF CompleteWorkflow, ReplayInvariant
<1>3. Fine(L, X, P) /\ L \in Lanes /\ policy \in ChildPolicies
  BY <1>1 DEF ReplayInvariant, WorkflowInvariant, Good, Fine
<1>4. Good(D, X) /\ Keeps(L, D) /\ D.task[w] = NoTask /\ D.status = L.status /\ D.history = L.history
  <2>1. Good(L, {})
    BY <1>1, <1>3 DEF Fine
  <2>2. Good(L, {} \cup {w})
    BY <2>1, GoodAtLeast
  <2>3. w \in Workflows /\ Good(L, {} \cup {w}) /\ D = DropTask(L, w)
    BY <1>1, <1>2, <2>2
  <2>4. Good(D, {}) /\ Keeps(L, D) /\ D.task[w] = NoTask /\ D.status = L.status /\ D.history = L.history
    BY <2>3, DropTaskGood
  <2> QED BY <1>1, <2>4
<1>5. Orderly(D, P) /\ Follows(L, D)
  <2>1. /\ D.status = L.status /\ D.history = L.history
        /\ D.timers = L.timers /\ D.activities = L.activities
    BY <1>1, <1>2, <1>3, DropTaskSilent
  <2> QED BY <1>3, <2>1, SilentFine DEF Fine
<1>6. answer \in Answers(w)
  BY <1>1, <1>2, <1>3, ReplayIs
<1>7. /\ ~ChildExists(L, w, answer.decision)
      /\ T = IF Len(L.history[w]) > n /\ A.status[w] = "RUNNING" THEN Enqueue(A, w) ELSE A
  BY <1>1 DEF CompleteWorkflow
<1>8. ~ChildExists(D, w, answer.decision)
  BY <1>4, <1>7 DEF ChildExists
<1>9. Justified(w, D.history[w], answer.decision)
  BY <1>1, <1>2, <1>4, AnswerJustified
<1>10. D.status[w] = "RUNNING" /\ Fine(D, X, P)
  BY <1>2, <1>4, <1>5 DEF Fine
<1>11. Orderly(A, P) /\ Follows(D, A)
  BY <1>1, <1>2, <1>3, <1>4, <1>6, <1>8, <1>9, <1>10, ApplyFine
<1>12. Good(A, {}) /\ Keeps(D, A)
  BY <1>1, <1>2, <1>3, <1>4, <1>6, <1>8, <1>10, ApplyGood
<1>13. Orderly(T, P) /\ Follows(A, T) /\ Keeps(A, T)
  <2>1. CASE T = A
    BY <1>11, <1>12, <2>1, KeepsItself, FollowsItself DEF Good
  <2>2. CASE T = Enqueue(A, w) /\ A.status[w] = "RUNNING"
    <3>1. A \in Lanes
      BY <1>12 DEF Good
    <3>2. /\ T.status = A.status /\ T.history = A.history
          /\ T.timers = A.timers /\ T.activities = A.activities
      BY <1>2, <2>2, <3>1, EnqueueSilent
    <3>3. Orderly(T, P) /\ Follows(A, T)
      BY <1>11, <3>2, SilentFine
    <3>4. Keeps(A, T)
      BY <1>2, <1>12, <2>2, EnqueueGood
    <3> QED BY <3>3, <3>4
  <2> QED BY <1>7, <2>1, <2>2
<1>14. Follows(L, A)
  BY <1>5, <1>11, <1>12, FollowsTransitive
<1> QED BY <1>1, <1>13, <1>14, FollowsTransitive

LEMMA PollActivityOrderly ==
  ASSUME ReplayInvariant, NEW x \in Workers, NEW late \in SUBSET lane.activities,
         PollActivity(x, late)
  PROVE  Orderly(lane', {}) /\ Follows(lane, lane')
<1>1. PICK L, S, T, X, P : L = lane /\ S = FailOverdue(L, late) /\ T = lane' /\ X = {} /\ P = {}
  OBVIOUS
<1>2. Fine(L, X, P) /\ Good(L, {}) /\ late \in SUBSET L.activities
  BY <1>1 DEF ReplayInvariant, WorkflowInvariant, Fine
<1>3. Orderly(S, P) /\ Follows(L, S) /\ S.activities = L.activities \ late
  BY <1>1, <1>2, FailOverdueFine
<1>4. S \in Lanes
  <2>1. Good(S, {})
    BY <1>1, <1>2, FailOverdueGood
  <2> QED BY <2>1 DEF Good
<1>5. \/ T = S
      \/ \E a \in L.activities \ late :
           T = WithActivities(S, (S.activities \ {a}) \cup {[a EXCEPT !.lease = "held", !.token = x]})
  BY <1>1 DEF PollActivity, WithActivities
<1>6. CASE T = S
  BY <1>1, <1>3, <1>6
<1>7. ASSUME NEW a \in L.activities \ late,
             T = WithActivities(S, (S.activities \ {a}) \cup {[a EXCEPT !.lease = "held", !.token = x]})
      PROVE  Orderly(T, P) /\ Follows(L, T)
  <2>1. PICK b : b = [a EXCEPT !.lease = "held", !.token = x]
    OBVIOUS
  <2>2. a \in Activities
    BY <1>1, ActivitiesRunning DEF ReplayInvariant
  <2>3. b \in Activities /\ b.workflow = a.workflow /\ b.command = a.command
    BY <2>1, <2>2 DEF Activities, Leases
  <2>4. PICK acts : acts = (S.activities \ {a}) \cup {b}
    OBVIOUS
  <2>5. acts \in SUBSET Activities /\ T = WithActivities(S, acts)
    BY <1>4, <1>7, <2>1, <2>3, <2>4 DEF Lanes
  <2>6. /\ T.activities = acts /\ T.timers = S.timers
        /\ T.status = S.status /\ T.history = S.history /\ T.task = S.task
    BY <1>4, <2>5, ActivitiesAre
  <2>7. Orderly(T, P)
    BY <1>3, <2>3, <2>4, <2>6, ReplaceFine
  <2>8. Follows(L, T)
    BY <1>3, <2>6 DEF Follows
  <2> QED BY <2>7, <2>8
<1> QED BY <1>1, <1>5, <1>6, <1>7

\* The worker x is given the task of w, and has seen all of its history.
LEMMA GiveTaskOrderly ==
  ASSUME ReplayInvariant, WorkflowInvariant', NEW x \in Workers,
         NEW S, Good(S, {}), Keeps(lane, S), Orderly(S, {}), Follows(lane, S),
         NEW w \in Available(S), lane' = WithTask(S, w, [lease |-> "held", token |-> x]),
         job' = [job EXCEPT ![x] = [kind |-> "workflow", workflow |-> w,
                                    seen |-> Len(S.history[w])]]
  PROVE  ReplayInvariant'
<1>1. PICK L, T, t, j, jobs, later :
        /\ L = lane /\ T = lane' /\ t = [lease |-> "held", token |-> x] /\ jobs = job /\ later = job'
        /\ j = [kind |-> "workflow", workflow |-> w, seen |-> Len(S.history[w])]
  OBVIOUS
<1>2. S \in Lanes /\ w \in Workflows /\ S.status[w] = "RUNNING"
  <2>1. S \in Lanes /\ w \in Workflows /\ S.task[w] # NoTask
    BY DEF Good, Available, NoTask
  <2> QED BY <2>1 DEF Good, OnlyRunning
<1>3. /\ T.task = [S.task EXCEPT ![w] = t] /\ T.history = S.history /\ T.status = S.status
      /\ T.timers = S.timers /\ T.activities = S.activities
  <2>1. t \in Tasks
    BY <1>1 DEF Tasks, Leases
  <2>2. T = WithTask(S, w, t)
    BY <1>1
  <2>3. PICK X : X = {}
    OBVIOUS
  <2> QED BY <1>2, <2>1, <2>2, <2>3, TaskGood
<1>4. T.task[w] = t /\ \A v \in Workflows \ {w} : T.task[v] = S.task[v]
  BY <1>2, <1>3 DEF Lanes
<1>5. later[x] = j /\ \A y \in Workers \ {x} : later[y] = jobs[y]
  BY <1>1 DEF ReplayInvariant, WorkflowInvariant
<1>6. Orderly(T, {})
  BY <1>3, SilentFine
<1>7. SeenScheduled(T, later)
  <2>1. SUFFICES ASSUME NEW y \in Workers, NEW n \in Nat, later[y].kind = "workflow",
                        T.task[later[y].workflow].token = y,
                        n \in 1 .. Len(T.history[later[y].workflow]),
                        T.history[later[y].workflow][n].type = "scheduled"
                 PROVE  n <= later[y].seen
    BY DEF SeenScheduled
  <2>2. CASE y = x
    <3>1. later[y].workflow = w /\ later[y].seen = Len(S.history[w])
      BY <1>1, <1>5, <2>2
    <3>2. n \in 1 .. Len(S.history[w]) /\ Len(S.history[w]) \in Nat
      BY <1>2, <1>3, <2>1, <3>1, LenProperties DEF Lanes
    <3> QED BY <3>1, <3>2
  <2>3. CASE y # x
    <3>1. PICK v : v = later[y].workflow
      OBVIOUS
    <3>2. later[y] = jobs[y] /\ v \in Workflows
      BY <1>1, <1>5, <2>1, <2>3, <3>1, JobsAre DEF ReplayInvariant, WorkflowInvariant
    <3>3. v # w
      BY <1>1, <1>4, <2>1, <2>3, <3>1
    <3>4. S.task[v].token = y /\ y # NoWorker
      BY <1>4, <2>1, <3>1, <3>2, <3>3, WorkflowAssumption
    <3>5. L.task[v].token = y
      BY <1>1, <3>2, <3>4 DEF Keeps
    <3>6. n \in 1 .. Len(S.history[v]) /\ S.history[v][n].type = "scheduled"
      BY <1>3, <2>1, <3>1
    <3>7. n \in 1 .. Len(L.history[v]) /\ L.history[v][n].type = "scheduled"
      BY <1>1, <3>2, <3>4, <3>6 DEF Follows
    <3> QED BY <1>1, <2>1, <3>1, <3>2, <3>5, <3>7 DEF ReplayInvariant, SeenScheduled
  <2> QED BY <2>2, <2>3
<1>8. Orderly(lane, {})'
  <2>1. Orderly(lane', {})
    BY <1>1, <1>6
  <2> QED BY <2>1 DEF Orderly, AwaitedOnce, Pending, OfTheirKind, Begun, Ordered, Fits, CommandOf
<1>9. SeenScheduled(lane, job)'
  BY <1>1, <1>7 DEF SeenScheduled
<1> QED BY <1>8, <1>9 DEF ReplayInvariant

LEMMA PollWorkflowOrderly ==
  ASSUME ReplayInvariant, WorkflowInvariant', NEW x \in Workers, NEW due \in SUBSET lane.timers,
         NEW late \in SUBSET {w \in Roots : lane.status[w] = "RUNNING"},
         PollWorkflow(x, due, late)
  PROVE  ReplayInvariant'
<1>1. PICK L, F, S, X, P :
        /\ L = lane /\ F = FireTimers(L, due) /\ S = ExpireWorkflows(F, late) /\ X = {} /\ P = {}
  OBVIOUS
<1>2. /\ Fine(L, X, P) /\ Good(L, {}) /\ L \in Lanes /\ policy \in ChildPolicies
      /\ due \in SUBSET L.timers
  BY <1>1 DEF ReplayInvariant, WorkflowInvariant, Fine, Good
<1>3. Good(F, {}) /\ Keeps(L, F) /\ F.status = L.status
  BY <1>1, <1>2, FireTimersGood
<1>4. Orderly(F, P) /\ Follows(L, F)
  BY <1>1, <1>2, FireTimersFine
<1>5. late \in SUBSET Roots /\ \A w \in late : F.status[w] = "RUNNING"
  BY <1>1, <1>3
<1>6. Good(S, {}) /\ Keeps(F, S)
  BY <1>1, <1>2, <1>3, <1>5, ExpireWorkflowsGood
<1>7. Orderly(S, P) /\ Follows(F, S)
  <2>1. Fine(F, X, P)
    BY <1>1, <1>3, <1>4 DEF Fine
  <2> QED BY <1>1, <1>2, <1>5, <2>1, ExpireWorkflowsFine
<1>8. Keeps(L, S) /\ Follows(L, S)
  <2>1. F \in Lanes /\ S \in Lanes
    BY <1>3, <1>6 DEF Good
  <2>2. Keeps(L, S)
    BY <1>2, <1>3, <1>6, <2>1, KeepsTransitive
  <2> QED BY <1>4, <1>6, <1>7, <2>2, FollowsTransitive
<1>9. \/ lane' = S /\ UNCHANGED job
      \/ \E w \in Available(S) :
           /\ job' = [job EXCEPT ![x] = [kind |-> "workflow", workflow |-> w,
                                         seen |-> Len(S.history[w])]]
           /\ lane' = WithTask(S, w, [lease |-> "held", token |-> x])
  BY <1>1 DEF PollWorkflow, WithTask
<1>10. Keeps(lane, S) /\ Follows(lane, S) /\ Orderly(S, {})
  BY <1>1, <1>7, <1>8
<1>11. CASE lane' = S /\ UNCHANGED job
  <2>1. \A y \in Workers : job'[y] \in {job[y], NoJob} \cup ActivityJob
    BY <1>11
  <2> QED BY <1>10, <1>11, <2>1, ReplayKept
<1>12. ASSUME NEW w \in Available(S),
              job' = [job EXCEPT ![x] = [kind |-> "workflow", workflow |-> w,
                                         seen |-> Len(S.history[w])]],
              lane' = WithTask(S, w, [lease |-> "held", token |-> x])
       PROVE  ReplayInvariant'
  BY <1>6, <1>10, <1>12, GiveTaskOrderly
<1> QED BY <1>9, <1>11, <1>12

LEMMA ReplaySteps ==
  ASSUME ReplayInvariant, [WorkflowNext]_workflowVars
  PROVE  ReplayInvariant'
<1>0. WorkflowInvariant /\ WorkflowInvariant'
  BY WorkflowSteps DEF ReplayInvariant
<1>1. CASE UNCHANGED workflowVars
  <2>1. lane' = lane /\ job' = job
    BY <1>1 DEF workflowVars
  <2>2. Keeps(lane, lane')
    BY <1>0, <2>1, KeepsItself DEF WorkflowInvariant, Good
  <2>3. Orderly(lane', {}) /\ Follows(lane, lane')
    BY <2>1, FollowsItself DEF ReplayInvariant
  <2> QED BY <1>0, <2>1, <2>2, <2>3, ReplayKept
<1>2. ASSUME NEW w \in Workflows, StartWorkflow(w)
      PROVE  ReplayInvariant'
  <2>1. Keeps(lane, lane') /\ job' = job
    BY <1>0, <1>2, StartWorkflowKeeps DEF StartWorkflow
  <2>2. Orderly(lane', {}) /\ Follows(lane, lane')
    BY <1>2, StartWorkflowOrderly
  <2> QED BY <1>0, <2>1, <2>2, ReplayKept
<1>3. ASSUME NEW w \in Workflows, Terminate(w)
      PROVE  ReplayInvariant'
  <2>1. Keeps(lane, lane') /\ job' = job
    BY <1>0, <1>3, TerminateKeeps DEF Terminate
  <2>2. Orderly(lane', {}) /\ Follows(lane, lane')
    BY <1>3, TerminateOrderly
  <2> QED BY <1>0, <2>1, <2>2, ReplayKept
<1>4. ASSUME NEW w \in Workflows, NEW kind \in ExternalKinds, Send(w, kind)
      PROVE  ReplayInvariant'
  <2>1. Keeps(lane, lane') /\ job' = job
    BY <1>0, <1>4, SendKeeps DEF Send
  <2>2. Orderly(lane', {}) /\ Follows(lane, lane')
    BY <1>4, SendOrderly
  <2> QED BY <1>0, <2>1, <2>2, ReplayKept
<1>5. ASSUME NEW x \in Workers, PollsWorkflow(x)
      PROVE  ReplayInvariant'
  BY <1>0, <1>5, PollWorkflowOrderly DEF PollsWorkflow
\* The worker has nothing to do any more.
<1>6. ASSUME NEW x \in Workers, Done(x)
      PROVE  \A y \in Workers : job'[y] \in {job[y], NoJob} \cup ActivityJob
  BY <1>0, <1>6, DoneJobs DEF WorkflowInvariant
<1>7. ASSUME NEW x \in Workers, CompleteWorkflow(x)
      PROVE  ReplayInvariant'
  <2>1. Keeps(lane, lane') /\ Done(x)
    BY <1>0, <1>7, CompleteWorkflowKeeps DEF CompleteWorkflow
  <2>2. Orderly(lane', {}) /\ Follows(lane, lane')
    BY <1>7, CompleteWorkflowOrderly
  <2> QED BY <1>0, <1>6, <2>1, <2>2, ReplayKept
<1>8. ASSUME NEW x \in Workers, FailTask(x)
      PROVE  ReplayInvariant'
  <2>1. Keeps(lane, lane') /\ Done(x)
    BY <1>0, <1>8, FailTaskKeeps DEF FailTask
  <2>2. Orderly(lane', {}) /\ Follows(lane, lane')
    BY <1>8, FailTaskOrderly
  <2> QED BY <1>0, <1>6, <2>1, <2>2, ReplayKept
<1>9. ASSUME NEW x \in Workers, NEW late \in SUBSET lane.activities, PollActivity(x, late)
      PROVE  ReplayInvariant'
  <2>1. Keeps(lane, lane')
    BY <1>0, <1>9, PollActivityKeeps
  <2>2. Orderly(lane', {}) /\ Follows(lane, lane')
    BY <1>9, PollActivityOrderly
  <2>3. \A y \in Workers : job'[y] \in {job[y], NoJob} \cup ActivityJob
    <3>1. \/ UNCHANGED job
          \/ \E a \in lane.activities :
               job' = [job EXCEPT ![x] = [kind |-> "activity", workflow |-> a.workflow,
                                          command |-> a.command]]
      BY <1>9 DEF PollActivity
    <3>2. \A a \in lane.activities :
            [kind |-> "activity", workflow |-> a.workflow, command |-> a.command] \in ActivityJob
      BY <1>0, ActivitiesRunning DEF ActivityJob
    <3>3. job \in [Workers -> Jobs]
      BY <1>0 DEF WorkflowInvariant
    <3> QED BY <3>1, <3>2, <3>3
  <2> QED BY <1>0, <2>1, <2>2, <2>3, ReplayKept
<1>10. ASSUME NEW x \in Workers, NEW result \in {"done", "failed"}, CompleteActivity(x, result)
       PROVE  ReplayInvariant'
  <2>1. Keeps(lane, lane') /\ Done(x)
    BY <1>0, <1>10, CompleteActivityKeeps DEF CompleteActivity
  <2>2. Orderly(lane', {}) /\ Follows(lane, lane')
    BY <1>10, CompleteActivityOrderly
  <2> QED BY <1>0, <1>6, <2>1, <2>2, ReplayKept
<1>11. ASSUME NEW x \in Workers, RetryActivity(x)
       PROVE  ReplayInvariant'
  <2>1. Keeps(lane, lane') /\ Done(x)
    BY <1>0, <1>11, RetryActivityKeeps DEF RetryActivity
  <2>2. Orderly(lane', {}) /\ Follows(lane, lane')
    BY <1>11, RetryActivityOrderly
  <2> QED BY <1>0, <1>6, <2>1, <2>2, ReplayKept
<1>12. ASSUME NEW x \in Workers, Heartbeat(x)
       PROVE  ReplayInvariant'
  <2>1. Keeps(lane, lane') /\ job' = job
    BY <1>0, <1>12, HeartbeatKeeps DEF Heartbeat
  <2>2. PICK a \in lane.activities :
          lane' = WithActivities(lane, (lane.activities \ {a}) \cup {[a EXCEPT !.lease = "held"]})
    BY <1>12 DEF Heartbeat, Held, WithActivities
  <2>3. "held" \in Leases
    BY DEF Leases
  <2>4. Orderly(lane', {}) /\ Follows(lane, lane')
    BY <2>2, <2>3, LeaseOrderly
  <2> QED BY <1>0, <2>1, <2>4, ReplayKept
<1>13. ASSUME NEW x \in Workers, ExpireLease(x)
       PROVE  ReplayInvariant'
  <2>1. Keeps(lane, lane') /\ job' = job
    BY <1>0, <1>13, ExpireLeaseKeeps DEF ExpireLease
  <2>2. Orderly(lane', {}) /\ Follows(lane, lane')
    BY <1>13, ExpireLeaseOrderly
  <2> QED BY <1>0, <2>1, <2>2, ReplayKept
<1>14. ASSUME NEW x \in Workers, WorkerLost(x) \/ Refused(x)
       PROVE  ReplayInvariant'
  <2>1. Keeps(lane, lane') /\ Done(x) /\ lane' = lane
    BY <1>0, <1>14, JobEnds DEF WorkerLost, Refused
  <2>2. Orderly(lane', {}) /\ Follows(lane, lane')
    BY <2>1, FollowsItself DEF ReplayInvariant
  <2> QED BY <1>0, <1>6, <2>1, <2>2, ReplayKept
<1> QED BY <1>1, <1>2, <1>3, <1>4, <1>5, <1>7, <1>8, <1>9, <1>10, <1>11, <1>12, <1>13, <1>14
        DEF WorkflowNext

\* The order of the histories (workflow.rs): a command is asked for behind the results
\* of those before it, its result and the retries before that come behind its
\* scheduling, what is pending was asked for and has no result, and the holder of a
\* task has seen every command that was asked for.
THEOREM ReplayInvariantHolds == WorkflowSpec => []ReplayInvariant
<1>1. WorkflowInit => ReplayInvariant
  BY ReplayInitially
<1>2. ReplayInvariant /\ [WorkflowNext]_workflowVars => ReplayInvariant'
  BY ReplaySteps
<1> QED BY <1>1, <1>2, PTL DEF WorkflowSpec

-----------------------------------------------------------------------------
(* What follows from it *)

LEMMA OneResult ==
  ASSUME NEW w, NEW h, Ordered(w, h), NEW c,
         NEW i \in 1 .. Len(h), NEW j \in 1 .. Len(h), IsResult(h[i], c), IsResult(h[j], c),
         Len(h) \in Nat
  PROVE  i = j
<1>1. ASSUME NEW p \in 1 .. Len(h), NEW q \in 1 .. Len(h), IsResult(h[p], c), IsResult(h[q], c), p < q
      PROVE  FALSE
  <2>1. Fits(w, h, q - 1, h[q])
    BY DEF Ordered
  <2>2. p \in 1 .. q - 1
    BY <1>1
  <2> QED BY <1>1, <2>1, <2>2 DEF Fits, IsResult
<1>2. i < j \/ j < i \/ i = j
  OBVIOUS
<1> QED BY <1>1, <1>2

LEMMA OneResultCounts ==
  ASSUME NEW w \in Workflows, NEW c, lane \in Lanes, Ordered(w, lane.history[w])
  PROVE  Cardinality({i \in 1 .. Len(lane.history[w]) : lane.history[w][i].type \in {"done", "failed"}
                                                        /\ lane.history[w][i].command = c}) <= 1
<1>1. PICK h, B :
        h = lane.history[w]
        /\ B = {i \in 1 .. Len(h) : h[i].type \in {"done", "failed"} /\ h[i].command = c}
  OBVIOUS
<1>2. Len(h) \in Nat /\ Ordered(w, h)
  BY <1>1, LenProperties DEF Lanes
<1>3. ASSUME NEW i \in B, NEW j \in B
      PROVE  i = j
  <2>1. i \in 1 .. Len(h) /\ j \in 1 .. Len(h) /\ IsResult(h[i], c) /\ IsResult(h[j], c)
    BY <1>1 DEF IsResult
  <2> QED BY <1>2, <2>1, OneResult
<1>4. Cardinality(B) <= 1
  <2>1. CASE B = {}
    <3>1. Cardinality(B) = 0
      BY <2>1, FS_EmptySet
    <3> QED BY <3>1
  <2>2. CASE B # {}
    <3>1. PICK i \in B : B = {i}
      BY <1>3, <2>2
    <3>2. Cardinality(B) = 1
      BY <3>1, FS_Singleton
    <3> QED BY <3>2
  <2> QED BY <2>1, <2>2
<1> QED BY <1>1, <1>4

LEMMA HistoryReplays ==
  ASSUME ReplayInvariant, NEW w \in Workflows, lane.status[w] = "RUNNING", ~UpdateAstray(w)
  PROVE  Replay(w, Len(lane.history[w])).ok
<1>1. PICK g, n, h : g = lane.history[w] /\ n = Len(g) /\ h = SubSeq(g, 1, n)
  OBVIOUS
<1>2. lane \in Lanes /\ Told("RUNNING", g) /\ Ordered(w, g)
  BY <1>1 DEF ReplayInvariant, WorkflowInvariant, Good, Orderly
<1>3. g \in Seq(Event) /\ n \in Nat /\ n >= 1
  <2>1. g \in Seq(Event)
    BY <1>1, <1>2 DEF Lanes
  <2> QED BY <1>1, <1>2, <2>1, LenProperties DEF Told
<1>4. h = g
  <2>1. h \in Seq(Event) /\ Len(h) = n /\ \A i \in 1 .. n : h[i] = g[i]
    BY <1>1, <1>3, SubSeqProperties
  <2> QED BY <1>1, <1>3, <2>1, SeqEqual
<1>5. Straight(g)
  <2>1. \A k \in 2 .. Len(g) : ~(g[k].type = "updated" /\ g[k - 1] # E("update", g[k].command))
    BY <1>1 DEF UpdateAstray
  <2> QED BY <2>1 DEF Straight
<1>6. \A k \in 1 .. Len(g) : g[k].type # "closed"
  BY <1>2 DEF Told
<1>7. g[1].type = "started"
  <2>1. 1 \in 1 .. Len(g)
    BY <1>1, <1>3
  <2>2. Fits(w, g, 1 - 1, g[1])
    BY <1>2, <2>1 DEF Ordered
  <2> QED BY <2>2 DEF Fits
<1>8. n \in 1 .. Len(lane.history[w]) /\ h = SubSeq(lane.history[w], 1, n)
  BY <1>1, <1>3
<1>9. Ordered(w, h) /\ Straight(h) /\ h[1].type = "started" /\ \A k \in 1 .. Len(h) : h[k].type # "closed"
  BY <1>2, <1>4, <1>5, <1>6, <1>7
<1>10. Replay(w, n).ok
  BY <1>2, <1>8, <1>9, ReplayAnswers
<1> QED BY <1>1, <1>10

\* No replay of a history fails (runtime.py), neither by a command nor a result nor a
\* retry that belongs to another command, unless the completion of an update went
\* astray, and a command has one result at most, although activities are retried,
\* leases are lost and late workers answer (workflow.rs, complete_activity).
THEOREM HistoriesCorrect == WorkflowSpec => []HistoriesReplay
<1>1. ReplayInvariant => HistoriesReplay
  <2>1. SUFFICES ASSUME ReplayInvariant
                 PROVE  HistoriesReplay
    OBVIOUS
  <2>2. \A w \in Workflows :
          lane.status[w] = "RUNNING" /\ ~UpdateAstray(w) => Replay(w, Len(lane.history[w])).ok
    BY <2>1, HistoryReplays
  <2>3. ASSUME NEW w \in Workflows, NEW c \in 1 .. Len(Programs[w])
        PROVE  Cardinality({i \in 1 .. Len(lane.history[w]) :
                              lane.history[w][i].type \in {"done", "failed"}
                              /\ lane.history[w][i].command = c}) <= 1
    <3>1. lane \in Lanes /\ Ordered(w, lane.history[w])
      BY <2>1 DEF ReplayInvariant, WorkflowInvariant, Good, Orderly
    <3> QED BY <3>1, OneResultCounts
  <2> QED BY <2>2, <2>3 DEF HistoriesReplay, Count
<1> QED BY <1>1, ReplayInvariantHolds, PTL

-----------------------------------------------------------------------------
(* A replay that ends in waiting *)

Unanswered(h, c) == ScheduledIn(h, c) /\ ~AnsweredIn(h, c)

\* An event from a client, or of a failed task, right behind a retry.
Hidden(h) == \E i \in 2 .. Len(h) : IsExternal(h[i]) /\ h[i - 1].type = "retry"

LEMMA Further ==
  ASSUME NEW i \in Nat, NEW j \in Nat, NEW l \in Nat, j >= 3, j >= i, j <= l
  PROVE  j \in 1 .. l /\ j \in 2 .. l /\ j - 1 \in Nat /\ j - 1 # 0 /\ i - 1 <= j - 1
OBVIOUS

\* Where a result is awaited nothing else of the run stands.
LEMMA NothingElse ==
  ASSUME NEW w \in Workflows, NEW h \in Seq(Event), Ordered(w, h), Straight(h), ~Hidden(h),
         \A k \in 1 .. Len(h) : h[k].type # "closed",
         NEW i \in 2 .. Len(h) + 1, NEW c \in 1 .. Len(Programs[w]), Behind(h, i, c),
         NEW s \in i .. Len(h), Passed(h, i, s), h[s] = E("scheduled", c),
         NEW b \in s + 1 .. Len(h) + 1, b = AfterExternals(h, s + 1),
         NEW j \in b .. Len(h), Passed(h, s + 1, j),
         j = IF Programs[w][c] = "activity" THEN AfterRetries(h, b, c) ELSE b,
         h[j].type \notin {"done", "failed"}, ~Stray(w, h, j, c)
  PROVE  FALSE
<1>1. /\ Len(h) \in Nat /\ i \in Nat /\ s \in Nat /\ b \in Nat /\ j \in Nat /\ c \in Nat
      /\ i >= 2 /\ s >= i /\ b >= s + 1 /\ j >= b /\ j <= Len(h)
  BY LenProperties, ProgramLength
<1>2. j \in 1 .. Len(h) /\ j \in 2 .. Len(h) /\ j - 1 \in Nat /\ j - 1 # 0 /\ i - 1 <= j - 1
  <2>1. PICK l : l = Len(h)
    OBVIOUS
  <2>2. l \in Nat /\ i \in Nat /\ j \in Nat /\ j >= 3 /\ j >= i /\ j <= l
    BY <1>1, <2>1
  <2> QED BY <2>1, <2>2, Further
<1>3. h[j] \in Event /\ Fits(w, h, j - 1, h[j]) /\ h[j].type # "closed"
  BY <1>2, ElementOfSeq DEF Ordered
<1>4. h[s].type = "scheduled" /\ h[s].command = c
  BY PlainAnswers
<1>5. /\ s + 1 \in Nat /\ s + 1 <= Len(h) + 1
      /\ b <= Len(h) + 1
  BY <1>1
<1>6. b <= Len(h) => ~IsExternal(h[b]) /\ ~(b > s + 1 /\ Completes(h, b))
  <2>1. PICK m, x : m = s + 1 /\ x = b
    OBVIOUS
  <2>2. m \in Nat /\ m <= Len(h) + 1 /\ x = AfterExternals(h, m)
    BY <1>5, <2>1
  <2>3. x <= Len(h) => ~IsExternal(h[x]) /\ ~(x > m /\ Completes(h, x))
    BY <2>2, AfterExternalsIs
  <2> QED BY <2>1, <2>3
<1>7. /\ Programs[w][c] = "activity" => h[j].type # "retry"
      /\ j # b => h[j - 1].type = "retry"
  <2>1. CASE Programs[w][c] = "activity"
    <3>1. j = AfterRetries(h, b, c)
      BY <2>1
    <3>2. \A k \in b .. j - 1 : h[k] = E("retry", c)
      BY <1>1, <1>5, <3>1, AfterRetriesIs
    <3>3. j # b => j - 1 \in b .. j - 1
      BY <1>1
    <3>4. j # b => h[j - 1].type = "retry"
      BY <3>2, <3>3, PlainAnswers
    <3> QED BY <1>1, <2>1, <3>4 DEF Stray
  <2>2. CASE Programs[w][c] # "activity"
    BY <2>2
  <2> QED BY <2>1, <2>2
\* What stands before j.
<1>8. \A p \in 1 .. j - 1 : \/ p \in 1 .. i - 1 \/ p = s
                            \/ h[p].type \in {"signal", "update", "updated", "cancel", "taskFailed", "retry"}
  <2>1. \A p \in 1 .. j - 1 : p \in 1 .. i - 1 \/ p \in i .. s - 1 \/ p = s \/ p \in s + 1 .. j - 1
    BY <1>1
  <2> QED BY <2>1 DEF Passed
<1>9. h[j].type # "started"
  BY <1>2, <1>3 DEF Fits
<1>10. ~IsExternal(h[j])
  <2>1. SUFFICES ASSUME IsExternal(h[j])
                 PROVE  FALSE
    OBVIOUS
  <2>2. j # b
    BY <1>1, <1>6, <2>1
  <2> QED BY <1>2, <1>7, <2>1, <2>2 DEF Hidden
<1>11. h[j].type # "updated"
  <2>1. SUFFICES ASSUME h[j].type = "updated"
                 PROVE  FALSE
    OBVIOUS
  <2>2. h[j - 1].type = "update"
    <3>1. h[j - 1] = E("update", h[j].command)
      BY <1>2, <2>1 DEF Straight
    <3>2. E("update", h[j].command).type = "update"
      BY PlainAnswers
    <3> QED BY <3>1, <3>2
  <2>3. Completes(h, j)
    BY <1>2, <2>1, <2>2 DEF Completes
  <2>4. j = b
    BY <1>7, <2>2
  <2>5. j = s + 1
    BY <1>1, <1>6, <2>3, <2>4
  <2>6. j - 1 = s
    BY <1>1, <2>5
  <2> QED BY <1>4, <2>2, <2>6
<1>12. h[j].type # "retry"
  <2>1. SUFFICES ASSUME h[j].type = "retry", Programs[w][c] # "activity"
                 PROVE  FALSE
    BY <1>7
  <2>2. Programs[w][h[j].command] = "activity"
    BY <1>3, <2>1 DEF Fits
  <2>3. PICK p \in 1 .. j - 1 : h[p] = E("scheduled", h[j].command)
    BY <1>3, <2>1 DEF Fits
  <2>4. h[p].type = "scheduled" /\ h[p].command = h[j].command
    BY <2>3, PlainAnswers
  <2>5. p # s
    BY <1>4, <2>1, <2>2, <2>4
  <2>6. p \in 1 .. i - 1
    BY <1>8, <2>4, <2>5
  <2>7. h[j].command \in Nat
    BY <1>3 DEF Event
  <2> QED BY <1>1, <1>2, <1>3, <2>1, <2>3, <2>6, <2>7, OldResult
<1>13. h[j].type # "scheduled"
  <2>1. SUFFICES ASSUME h[j].type = "scheduled"
                 PROVE  FALSE
    OBVIOUS
  <2>2. PICK d : d = h[j].command
    OBVIOUS
  <2>3. /\ \A p \in 1 .. j - 1 : h[p].type = "scheduled" => h[p].command < d
        /\ \A k \in 1 .. d - 1 : \E p \in 1 .. j - 1 : h[p] = E("done", k)
        /\ d \in Nat
    BY <1>3, <2>1, <2>2 DEF Fits, Event
  <2>4. s \in 1 .. j - 1
    BY <1>1
  <2>5. c < d
    BY <1>4, <2>3, <2>4
  <2>6. c \in 1 .. d - 1
    BY <1>1, <2>3, <2>5
  <2>7. PICK p \in 1 .. j - 1 : h[p] = E("done", c)
    BY <2>3, <2>6
  <2>8. h[p].type = "done" /\ h[p].command = c
    BY <2>7, PlainAnswers
  <2>9. p \in 1 .. i - 1
    BY <1>4, <1>8, <2>8
  <2>10. p \in 1 .. Len(h) /\ p \in Nat
    BY <1>1
  <2>11. Fits(w, h, p - 1, h[p])
    BY <2>10 DEF Ordered
  <2>12. PICK q \in 1 .. p - 1 : h[q] = E("scheduled", c)
    BY <2>8, <2>11 DEF Fits
  <2>13. q \in 1 .. i - 1 /\ h[q].type = "scheduled" /\ h[q].command = c
    BY <1>1, <2>9, <2>10, <2>12, PlainAnswers
  <2>14. c < c
    BY <2>13 DEF Behind
  <2> QED BY <1>1, <2>14
<1> QED BY <1>3, <1>9, <1>10, <1>11, <1>12, <1>13 DEF Event, EventTypes, IsExternal

LEMMA AwaitedUnanswered ==
  ASSUME NEW w \in Workflows, NEW h \in Seq(Event), Ordered(w, h), Straight(h), ~Hidden(h),
         \A k \in 1 .. Len(h) : h[k].type # "closed",
         NEW i \in 2 .. Len(h) + 1, NEW c \in 1 .. Len(Programs[w]), Behind(h, i, c),
         Awaited(w, h, i, c)
  PROVE  Unanswered(h, c)
<1>1. PICK s \in i .. Len(h) : \E b \in s + 1 .. Len(h) + 1 : \E j \in b .. Len(h) + 1 :
        /\ s = AfterExternals(h, i) /\ h[s] = E("scheduled", c)
        /\ b = AfterExternals(h, s + 1)
        /\ j = IF Programs[w][c] = "activity" THEN AfterRetries(h, b, c) ELSE b
        /\ j <= Len(h) => h[j].type \notin {"done", "failed"} /\ ~Stray(w, h, j, c)
  BY DEF Awaited
<1>2. PICK b \in s + 1 .. Len(h) + 1 : \E j \in b .. Len(h) + 1 :
        /\ b = AfterExternals(h, s + 1)
        /\ j = IF Programs[w][c] = "activity" THEN AfterRetries(h, b, c) ELSE b
        /\ j <= Len(h) => h[j].type \notin {"done", "failed"} /\ ~Stray(w, h, j, c)
  BY <1>1
<1>3. PICK j \in b .. Len(h) + 1 :
        /\ j = IF Programs[w][c] = "activity" THEN AfterRetries(h, b, c) ELSE b
        /\ j <= Len(h) => h[j].type \notin {"done", "failed"} /\ ~Stray(w, h, j, c)
  BY <1>2
<1>4. /\ Len(h) \in Nat /\ i \in Nat /\ s \in Nat /\ b \in Nat /\ j \in Nat /\ c \in Nat
      /\ i >= 2 /\ i <= Len(h) + 1 /\ s >= i /\ s <= Len(h)
      /\ b >= s + 1 /\ b <= Len(h) + 1 /\ j >= b /\ j <= Len(h) + 1
  BY LenProperties, ProgramLength
<1>5. s + 1 \in Nat /\ s + 1 <= Len(h) + 1
  BY <1>4
<1>6. Passed(h, i, s)
  BY <1>1, <1>4, ExternalsPassed
<1>7. Passed(h, s + 1, j)
  <2>1. Passed(h, s + 1, b)
    BY <1>2, <1>5, ExternalsPassed
  <2>2. \A k \in b .. j - 1 : h[k].type = "retry"
    <3>1. CASE Programs[w][c] = "activity"
      <4>1. j = AfterRetries(h, b, c)
        BY <1>3, <3>1
      <4> QED BY <1>4, <4>1, AfterRetriesIs, PlainAnswers
    <3>2. CASE Programs[w][c] # "activity"
      <4>1. j = b
        BY <1>3, <3>2
      <4> QED BY <1>4, <4>1
    <3> QED BY <3>1, <3>2
  <2>3. \A k \in s + 1 .. j - 1 : k \in s + 1 .. b - 1 \/ k \in b .. j - 1
    BY <1>4
  <2> QED BY <2>1, <2>2, <2>3 DEF Passed
<1>8. j = Len(h) + 1
  <2>1. SUFFICES ASSUME j <= Len(h)
                 PROVE  FALSE
    BY <1>4
  <2>2. j \in b .. Len(h)
    BY <1>4, <2>1
  <2> QED BY <1>1, <1>2, <1>3, <1>6, <1>7, <2>1, <2>2, NothingElse
<1>9. s \in 1 .. Len(h)
  BY <1>4
<1>10. ScheduledIn(h, c)
  BY <1>1, <1>9 DEF ScheduledIn
<1>11. ~AnsweredIn(h, c)
  <2>1. SUFFICES ASSUME NEW p \in 1 .. Len(h), IsResult(h[p], c)
                 PROVE  FALSE
    BY DEF AnsweredIn
  <2>2. p \in Nat /\ Fits(w, h, p - 1, h[p])
    BY <1>4 DEF Ordered
  <2>3. PICK q \in 1 .. p - 1 : h[q] = E("scheduled", c)
    BY <2>1, <2>2 DEF Fits, IsResult
  <2>4. h[q].type = "scheduled" /\ h[q].command = c
    BY <2>3, PlainAnswers
  <2>5. p \in 1 .. i - 1 \/ p \in i .. s - 1 \/ p = s \/ p \in s + 1 .. j - 1
    BY <1>4, <1>8, <2>2
  <2>6. p \in 1 .. i - 1
    <3>1. h[s].type = "scheduled"
      BY <1>1, PlainAnswers
    <3> QED BY <1>6, <1>7, <2>1, <2>5, <3>1 DEF Passed, IsResult
  <2>7. q \in 1 .. i - 1
    BY <1>4, <2>2, <2>6
  <2>8. c < c
    BY <2>4, <2>7 DEF Behind
  <2> QED BY <1>4, <2>8
<1> QED BY <1>10, <1>11 DEF Unanswered

\* An answer to wait, with so many commands left, means that a result is awaited.
AllWait(f, w, h, n, left) ==
  \A i \in 2 .. n + 1 :
    /\ Behind(h, i, Len(Programs[w]) + 1 - left) /\ h[i - 1].type # "update"
    /\ f[left][i].decision.type = "none"
    => \E c \in Nat : Unanswered(h, c)

LEMMA WaitNext ==
  ASSUME NEW w \in Workflows, NEW h \in Seq(Event), NEW n, n = Len(h), n >= 1,
         Ordered(w, h), Straight(h), ~Hidden(h), \A k \in 1 .. Len(h) : h[k].type # "closed",
         NEW last, last = Len(Programs[w]), NEW ends,
         NEW f \in [0 .. last -> [2 .. n + 1 -> Answers(w)]], Answering(f, w, h, n, ends),
         NEW left \in 1 .. last, AllWait(f, w, h, n, left - 1)
  PROVE  AllWait(f, w, h, n, left)
<1>1. n \in Nat /\ last \in Nat
  BY LenProperties, ProgramLength
<1>2. PICK c : c = last + 1 - left
  OBVIOUS
<1>3. c \in 1 .. last /\ c \in Nat /\ left - 1 \in 0 .. last /\ last + 1 - (left - 1) = c + 1
  BY <1>1, <1>2
<1>4. PICK rest : rest = f[left - 1]
  OBVIOUS
<1>5. rest \in [2 .. n + 1 -> Answers(w)]
  BY <1>3, <1>4
<1>6. SUFFICES ASSUME NEW i \in 2 .. n + 1, Behind(h, i, c), h[i - 1].type # "update",
                      f[left][i].decision.type = "none"
               PROVE  \E d \in Nat : Unanswered(h, d)
  BY <1>2 DEF AllWait
<1>7. PICK a : a = f[left][i]
  OBVIOUS
<1>8. a = Resolve(w, h, i, c, rest)
  <2>1. f[left] = [k \in 2 .. n + 1 |-> Resolve(w, h, k, c, rest)]
    BY <1>2, <1>4 DEF Answering
  <2> QED BY <1>7, <2>1
<1>9. \/ a.ok /\ a.decision.type \in {"cancelled", "fail"}
      \/ a.ok /\ a.decision.type = "none" /\ Awaited(w, h, i, c)
      \/ a.ok /\ Passed(h, i, Len(h) + 1) /\ a.decision = E("schedule", c)
      \/ Continued(h, i, c, rest, a)
      \/ Inexplicable(h, i, c) /\ a.decision.type = "none"
  BY <1>3, <1>5, <1>8, ResolveDoes
<1>10. ~Inexplicable(h, i, c)
  BY <1>3, <1>6, Explicable
<1>11. a.decision.type \notin {"cancelled", "fail"} /\ a.decision # E("schedule", c)
  BY <1>6, <1>7, PlainAnswers
<1>12. CASE Awaited(w, h, i, c)
  <2>1. Unanswered(h, c)
    BY <1>3, <1>6, <1>12, AwaitedUnanswered
  <2> QED BY <1>3, <2>1
<1>13. CASE Continued(h, i, c, rest, a)
  <2>0. PICK s \in i .. Len(h) : \E j \in s + 1 .. Len(h) :
          /\ Passed(h, i, s) /\ h[s] = E("scheduled", c)
          /\ Passed(h, s + 1, j) /\ h[j] = E("done", c)
          /\ a.decision = rest[j + 1].decision
    BY <1>13 DEF Continued
  <2>1. PICK j \in s + 1 .. Len(h) :
          /\ Passed(h, i, s) /\ h[s] = E("scheduled", c)
          /\ Passed(h, s + 1, j) /\ h[j] = E("done", c)
          /\ a.decision = rest[j + 1].decision
    BY <2>0
  <2>2. Behind(h, j + 1, c + 1)
    BY <1>3, <1>6, <2>1, BehindMore
  <2>3. j + 1 \in 2 .. n + 1 /\ j + 1 - 1 = j
    BY <1>1
  <2>4. h[j].type # "update"
    BY <2>1, PlainAnswers
  <2>5. PICK k, l : k = j + 1 /\ l = left - 1
    OBVIOUS
  <2>6. /\ k \in 2 .. n + 1 /\ h[k - 1].type # "update"
        /\ Behind(h, k, Len(Programs[w]) + 1 - l)
    <3>1. k - 1 = j /\ Len(Programs[w]) + 1 - l = c + 1
      BY <1>3, <2>3, <2>5
    <3> QED BY <2>2, <2>3, <2>4, <2>5, <3>1
  <2>7. f[l][k].decision.type = "none"
    BY <1>4, <1>6, <1>7, <2>1, <2>5
  <2>8. AllWait(f, w, h, n, l)
    BY <2>5
  <2> QED BY <2>6, <2>7, <2>8 DEF AllWait
<1> QED BY <1>9, <1>10, <1>11, <1>12, <1>13

LEMMA ReplayWaits ==
  ASSUME NEW w \in Workflows, lane \in Lanes, NEW n \in 1 .. Len(lane.history[w]),
         NEW h, h = SubSeq(lane.history[w], 1, n),
         Ordered(w, h), Straight(h), ~Hidden(h), \A k \in 1 .. Len(h) : h[k].type # "closed",
         h[1].type = "started", Replay(w, n).decision.type = "none"
  PROVE  \E c \in Nat : Unanswered(h, c)
<1>1. PICK last : last = Len(Programs[w])
  OBVIOUS
<1>2. lane.history[w] \in Seq(Event) /\ last \in Nat
  BY <1>1, ProgramLength DEF Lanes
<1>3. Len(lane.history[w]) \in Nat /\ n \in Nat /\ n >= 1
  BY <1>2, LenProperties
<1>4. h \in Seq(Event) /\ Len(h) = n
  BY <1>2, <1>3, SubSeqProperties
<1>5. PICK f \in [0 .. last -> [2 .. n + 1 -> Answers(w)]] :
         Answering(f, w, h, n, Ends(w)) /\ Replay(w, n) = f[last][2]
  BY <1>1, ReplayFollows
<1>6. AllWait(f, w, h, n, 0)
  <2>1. Ends(w).decision.type # "none"
    <3>1. Ends(w) = Answer("continue", 0) \/ Ends(w) = Answer("complete", 0)
      BY DEF Ends
    <3> QED BY <3>1, PlainAnswers
  <2>2. \A i \in 2 .. n + 1 : f[0][i] = Ends(w)
    BY <1>5 DEF Answering
  <2> QED BY <2>1, <2>2 DEF AllWait
<1>7. \A left \in 1 .. last : AllWait(f, w, h, n, left - 1) => AllWait(f, w, h, n, left)
  BY <1>1, <1>3, <1>4, <1>5, WaitNext
<1>8. PICK T : T = {left \in Nat : left <= last => AllWait(f, w, h, n, left)}
  OBVIOUS
<1>9. 0 \in T
  BY <1>6, <1>8
<1>10. ASSUME NEW left \in Nat, left \in T
       PROVE  left + 1 \in T
  <2>1. SUFFICES ASSUME left + 1 <= last
                 PROVE  AllWait(f, w, h, n, left + 1)
    BY <1>8
  <2>2. left + 1 \in 1 .. last /\ left + 1 - 1 = left /\ left <= last
    BY <1>2, <2>1
  <2>3. AllWait(f, w, h, n, left)
    BY <1>8, <1>10, <2>2
  <2> QED BY <1>7, <2>2, <2>3
<1>11. Nat \subseteq T
  BY <1>9, <1>10, SetInduction
<1>12. AllWait(f, w, h, n, last)
  BY <1>2, <1>8, <1>11
<1>13. Behind(h, 2, Len(Programs[w]) + 1 - last) /\ h[2 - 1].type # "update"
  <2>1. Len(Programs[w]) + 1 - last = 1 /\ 2 - 1 = 1
    BY <1>1, <1>2
  <2>2. \A p \in 1 .. 2 - 1 : p = 1
    OBVIOUS
  <2>3. \A p \in 1 .. 2 - 1 : h[p].type # "scheduled"
    BY <2>2
  <2> QED BY <2>1, <2>3 DEF Behind
<1>14. 2 \in 2 .. n + 1
  BY <1>3
<1> QED BY <1>5, <1>12, <1>13, <1>14 DEF AllWait

-----------------------------------------------------------------------------
(* Whoever waits has a reason *)

\* What was asked for and has no result is pending, or its result is on its way (P).
Expected(S, P) ==
  \A w \in Workflows : \A c \in Nat :
    S.status[w] = "RUNNING" /\ Unanswered(S.history[w], c) => Pending(S, w, c) \/ <<w, c>> \in P

\* A workflow at rest: no worker will be given it.
Resting(S, w) == S.status[w] = "RUNNING" /\ S.task[w] = NoTask

\* A workflow at rest (but perhaps one of X) waits for a result.
Motive(S, X) ==
  \A w \in Workflows \ X :
    Resting(S, w) /\ Straight(S.history[w]) /\ ~Hidden(S.history[w])
    => \E c \in Nat : Unanswered(S.history[w], c)

\* Whoever is at rest in T (but perhaps those of X) was so in S, and nothing was
\* added to its history.
Undisturbed(S, T, X) ==
  \A w \in Workflows \ X : Resting(T, w) => Resting(S, w) /\ T.history[w] = S.history[w]

LEMMA UndisturbedItself ==
  ASSUME NEW S, NEW T, NEW X, T.status = S.status, T.task = S.task, T.history = S.history
  PROVE  Undisturbed(S, T, X)
BY DEF Undisturbed, Resting

LEMMA UndisturbedTransitive ==
  ASSUME NEW S, NEW T, NEW U, NEW X, Undisturbed(S, T, X), Undisturbed(T, U, X)
  PROVE  Undisturbed(S, U, X)
BY DEF Undisturbed

LEMMA UndisturbedBut ==
  ASSUME NEW S, NEW T, NEW X, Undisturbed(S, T, {})
  PROVE  Undisturbed(S, T, X)
BY DEF Undisturbed

LEMMA MotiveKept ==
  ASSUME NEW S, NEW T, NEW X, Motive(S, X), Undisturbed(S, T, X)
  PROVE  Motive(T, X)
BY DEF Motive, Undisturbed

LEMMA QuietExpected ==
  ASSUME NEW S, NEW P, Expected(S, P), NEW T, NEW R,
         \A w \in Workflows : Quiet(w, S.history[w], T.history[w]),
         \A w \in Workflows : T.status[w] = "RUNNING" =>
           /\ S.status[w] = "RUNNING"
           /\ \A c \in Nat : Pending(S, w, c) \/ <<w, c>> \in P => Pending(T, w, c) \/ <<w, c>> \in R
  PROVE  Expected(T, R)
<1>1. SUFFICES ASSUME NEW w \in Workflows, NEW c \in Nat, T.status[w] = "RUNNING",
                      Unanswered(T.history[w], c)
               PROVE  Pending(T, w, c) \/ <<w, c>> \in R
  BY DEF Expected
<1>2. Unanswered(S.history[w], c)
  BY <1>1 DEF Quiet, Unanswered
<1> QED BY <1>1, <1>2 DEF Expected

\* The same history and work; or more of it.
LEMMA SilentExpected ==
  ASSUME NEW S, NEW P, Expected(S, P), NEW T, T.history = S.history, T.status = S.status,
         S.timers \subseteq T.timers, S.activities \subseteq T.activities
  PROVE  Expected(T, P)
<1>1. \A w \in Workflows : \A c \in Nat : Pending(S, w, c) => Pending(T, w, c)
  BY DEF Pending
<1> QED BY <1>1 DEF Expected

LEMMA WakeUndisturbed ==
  ASSUME NEW S \in Lanes, NEW w \in Workflows, NEW e \in Event, NEW T, T = Wake(S, w, e)
  PROVE  Undisturbed(S, T, {}) /\ SameWork(S, T)
<1>1. /\ T.task[w] = IF S.task[w] = NoTask THEN FreshTask ELSE S.task[w]
      /\ \A v \in Workflows \ {w} : T.history[v] = S.history[v] /\ T.task[v] = S.task[v]
      /\ T.status = S.status /\ T.timers = S.timers /\ T.activities = S.activities
  BY WakeIs
<1>2. T.task[w] # NoTask
  BY <1>1, NoTaskTyped
<1> QED BY <1>1, <1>2 DEF Undisturbed, Resting, SameWork

LEMMA SameWorkExpected ==
  ASSUME NEW S, NEW P, Expected(S, P), NEW T, SameWork(S, T),
         \A w \in Workflows : Quiet(w, S.history[w], T.history[w])
  PROVE  Expected(T, P)
<1>1. \A w \in Workflows : \A c \in Nat : Pending(S, w, c) => Pending(T, w, c)
  BY DEF Pending, SameWork
<1>2. \A w \in Workflows : T.status[w] = S.status[w]
  BY DEF SameWork
<1> QED BY <1>1, <1>2, QuietExpected

LEMMA AppendQuiet ==
  ASSUME NEW S, NEW X, Good(S, X), NEW w \in Workflows, S.status[w] = "RUNNING",
         NEW e \in Event, Plain(e), NEW T, T.history[w] = Append(S.history[w], e),
         \A v \in Workflows \ {w} : T.history[v] = S.history[v]
  PROVE  \A v \in Workflows : Quiet(v, S.history[v], T.history[v])
<1>1. S.history[w] \in Seq(Event) /\ Len(S.history[w]) >= 1
  BY DEF Good, Told, Lanes
<1>2. Quiet(w, S.history[w], T.history[w])
  BY <1>1, QuietAppend
<1> QED BY <1>2, QuietItself

\* An event that is not about commands.
LEMMA WakeExpected ==
  ASSUME NEW S, NEW X, NEW P, Good(S, X), Expected(S, P), NEW w \in Workflows,
         S.status[w] = "RUNNING", NEW e \in Event, Plain(e), NEW T, T = Wake(S, w, e)
  PROVE  Expected(T, P) /\ Undisturbed(S, T, {})
<1>1. S \in Lanes
  BY DEF Good
<1>2. Undisturbed(S, T, {}) /\ SameWork(S, T)
  BY <1>1, WakeUndisturbed
<1>3. /\ T.history[w] = Append(S.history[w], e)
      /\ \A v \in Workflows \ {w} : T.history[v] = S.history[v]
  BY <1>1, WakeIs
<1>4. \A v \in Workflows : Quiet(v, S.history[v], T.history[v])
  BY <1>3, AppendQuiet
<1> QED BY <1>2, <1>4, SameWorkExpected

\* A result: what was on its way is there.
LEMMA ResultExpected ==
  ASSUME NEW S, NEW X, Good(S, X), NEW Q, Expected(S, Q), NEW R,
         NEW w \in Workflows, S.status[w] = "RUNNING", NEW c \in Nat, Q \ {<<w, c>>} \subseteq R,
         NEW result \in {"done", "failed"}, NEW T, T = Wake(S, w, E(result, c))
  PROVE  Expected(T, R) /\ Undisturbed(S, T, {})
<1>1. PICK h, e : h = S.history[w] /\ e = E(result, c)
  OBVIOUS
<1>2. S \in Lanes /\ h \in Seq(Event)
  BY <1>1 DEF Good, Lanes
<1>3. e \in Event /\ e.type \in {"done", "failed"} /\ e.command = c
  BY <1>1, EventsTyped DEF EventTypes
<1>4. Undisturbed(S, T, {}) /\ SameWork(S, T)
  BY <1>1, <1>2, <1>3, WakeUndisturbed
<1>5. /\ T.history[w] = Append(h, e)
      /\ \A v \in Workflows \ {w} : T.history[v] = S.history[v]
  BY <1>1, <1>2, <1>3, WakeIs
<1>6. Expected(T, R)
  <2>1. SUFFICES ASSUME NEW v \in Workflows, NEW d \in Nat, T.status[v] = "RUNNING",
                        Unanswered(T.history[v], d)
                 PROVE  Pending(T, v, d) \/ <<v, d>> \in R
    BY DEF Expected
  <2>2. Unanswered(S.history[v], d) /\ <<v, d>> # <<w, c>>
    <3>1. CASE v # w
      BY <1>5, <2>1, <3>1
    <3>2. CASE v = w
      <4>1. ScheduledIn(Append(h, e), d) <=> ScheduledIn(h, d) \/ e = E("scheduled", d)
        BY <1>2, <1>3, ScheduledMore
      <4>2. AnsweredIn(Append(h, e), d) <=> AnsweredIn(h, d) \/ IsResult(e, d)
        BY <1>2, <1>3, AnsweredMore
      <4>3. e # E("scheduled", d) /\ (IsResult(e, d) <=> d = c)
        BY <1>3, PlainAnswers DEF IsResult
      <4> QED BY <1>1, <1>5, <2>1, <3>2, <4>1, <4>2, <4>3 DEF Unanswered
    <3> QED BY <3>1, <3>2
  <2>3. Pending(S, v, d) \/ <<v, d>> \in Q
    BY <1>4, <2>1, <2>2 DEF Expected, SameWork
  <2>4. Pending(S, v, d) => Pending(T, v, d)
    BY <1>4 DEF SameWork, Pending
  <2> QED BY <2>2, <2>3, <2>4
<1> QED BY <1>4, <1>6

\* Whoever closes with w closes with its parent.
LEMMA ClosingParents ==
  ASSUME NEW S, NEW w \in Workflows, NEW C, C = ClosingWith(S, w)
  PROVE  \A v \in C \ {w} : Parent[v] \in C
<1>1. CASE policy # "TERMINATE"
  BY <1>1, ClosingIs
<1>2. CASE policy = "TERMINATE"
  <2>1. C = {v \in Workflows : \A ws \in SUBSET Workflows :
               w \in ws /\ RunningChildren(S, ws) \subseteq ws => v \in ws}
    BY <1>2 DEF ClosingWith
  <2>2. C \subseteq Workflows /\ w \in C /\ RunningChildren(S, C) \subseteq C
    BY <1>2, ClosingIs
  <2>3. PICK D : D = {v \in C : v = w \/ Parent[v] \in C}
    OBVIOUS
  <2>4. w \in D /\ D \in SUBSET Workflows
    BY <2>2, <2>3
  <2>5. RunningChildren(S, D) \subseteq D
    BY <2>2, <2>3 DEF RunningChildren
  <2>6. C \subseteq D
    BY <2>1, <2>4, <2>5
  <2> QED BY <2>3, <2>6
<1> QED BY <1>1, <1>2

LEMMA CloseDownExpected ==
  ASSUME NEW S, NEW X, Good(S, X), NEW P, P = {}, Expected(S, P),
         NEW w \in Workflows, S.status[w] = "RUNNING",
         NEW status \in Statuses \ {"none", "RUNNING"}, NEW T, T = CloseDown(S, w, status)
  PROVE  /\ Expected(T, {<<Parent[w], CommandOf(w)>>})
         /\ Undisturbed(S, T, {})
<1>1. PICK C, A : C = ClosingWith(S, w) /\ A = Asking(S, w)
  OBVIOUS
<1>2. S \in Lanes
  BY DEF Good
<1>3. /\ \A v \in Workflows : T.status[v] = IF v = w THEN status
           ELSE IF v \in C THEN "TERMINATED" ELSE S.status[v]
      /\ \A v \in Workflows : T.history[v] = IF v \in C THEN Append(S.history[v], E("closed", 0))
           ELSE IF v \in A THEN Append(S.history[v], E("cancel", 0)) ELSE S.history[v]
      /\ \A v \in Workflows : T.task[v] = IF v \in C \ {w} THEN NoTask
           ELSE IF v \in A /\ S.task[v] = NoTask THEN FreshTask ELSE S.task[v]
      /\ T.timers = {t \in S.timers : t[1] \notin C}
      /\ T.activities = {a \in S.activities : a.workflow \notin C}
  BY <1>1, <1>2, CloseDownIs
<1>4. C \subseteq Workflows /\ w \in C
  BY <1>1, ClosingIs
<1>5. \A v \in C \cup A : v \in Workflows /\ S.status[v] = "RUNNING"
  BY <1>1, ClosingIs DEF Asking, RunningChildren
<1>6. \A v \in Workflows : T.status[v] = "RUNNING" => v \notin C /\ S.status[v] = "RUNNING"
  BY <1>3, <1>4
<1>7. \A v \in Workflows : Quiet(v, S.history[v], T.history[v])
  <2>1. \A v \in C \cup A : S.history[v] \in Seq(Event) /\ Len(S.history[v]) >= 1
    BY <1>2, <1>5 DEF Good, Told, Lanes
  <2>2. /\ E("closed", 0) \in Event /\ Plain(E("closed", 0))
        /\ E("cancel", 0) \in Event /\ Plain(E("cancel", 0))
    BY EventsTyped DEF EventTypes, Plain, About
  <2> QED BY <1>3, <2>1, <2>2, QuietItself, QuietAppend
<1>8. PICK Q : Q = {<<Parent[w], CommandOf(w)>>}
  OBVIOUS
<1>9. ASSUME NEW v \in Workflows, NEW c \in Nat, T.status[v] = "RUNNING",
             Pending(S, v, c) \/ <<v, c>> \in P
      PROVE  Pending(T, v, c) \/ <<v, c>> \in Q
  <2>1. v \notin C
    BY <1>6, <1>9
  <2>2. CASE <<v, c>> \in S.timers
    <3>1. <<v, c>> \in T.timers
      BY <1>3, <2>1, <2>2
    <3> QED BY <3>1 DEF Pending
  <2>3. CASE \E a \in S.activities : a.workflow = v /\ a.command = c
    <3>1. \E a \in T.activities : a.workflow = v /\ a.command = c
      BY <1>3, <2>1, <2>3
    <3> QED BY <3>1 DEF Pending
  <2>4. ASSUME NEW u \in Workflows, Parent[u] = v, CommandOf(u) = c, S.status[u] = "RUNNING"
        PROVE  Pending(T, v, c) \/ <<v, c>> \in Q
    <3>1. CASE u = w
      BY <1>8, <2>4, <3>1
    <3>2. CASE u # w
      <4>1. u \notin C
        BY <1>1, <2>1, <2>4, <3>2, ClosingParents
      <4>2. T.status[u] = "RUNNING"
        BY <1>3, <2>4, <3>2, <4>1
      <4> QED BY <2>4, <4>2 DEF Pending
    <3> QED BY <3>1, <3>2
  <2> QED BY <1>9, <2>2, <2>3, <2>4 DEF Pending
<1>10. Expected(T, Q)
  BY <1>6, <1>7, <1>9, QuietExpected
<1>11. Undisturbed(S, T, {})
  <2>1. SUFFICES ASSUME NEW v \in Workflows, Resting(T, v)
                 PROVE  Resting(S, v) /\ T.history[v] = S.history[v]
    BY DEF Undisturbed
  <2>2. v \notin C /\ S.status[v] = "RUNNING"
    BY <1>6, <2>1 DEF Resting
  <2>3. v \notin A \/ S.task[v] # NoTask
    BY <1>3, <2>1, <2>2, NoTaskTyped DEF Resting
  <2>4. T.task[v] = S.task[v]
    BY <1>3, <2>2, <2>3
  <2>5. v \notin A
    BY <2>1, <2>3, <2>4 DEF Resting
  <2> QED BY <1>3, <2>1, <2>2, <2>4, <2>5 DEF Resting
<1> QED BY <1>8, <1>10, <1>11

LEMMA CloseExpected ==
  ASSUME NEW S, NEW X, Good(S, X), NEW P, P = {}, Expected(S, P),
         NEW w \in Workflows, S.status[w] = "RUNNING", policy \in ChildPolicies,
         NEW status \in Statuses \ {"none", "RUNNING"}, NEW T, T = Close(S, w, status)
  PROVE  Expected(T, P) /\ Undisturbed(S, T, {})
<1>1. PICK D, p, c, Q :
        D = CloseDown(S, w, status) /\ p = Parent[w] /\ c = CommandOf(w) /\ Q = {<<p, c>>}
  OBVIOUS
<1>2. Expected(D, Q) /\ Undisturbed(S, D, {})
  BY <1>1, CloseDownExpected
<1>3. Good(D, X \cup {w})
  BY <1>1, CloseDownGood
<1>4. CASE w \notin Roots /\ D.status[p] = "RUNNING"
  <2>1. p \in Workflows /\ c \in Nat
    BY <1>1, <1>4, CommandTyped
  <2>2. PICK result \in {"done", "failed"} : result = IF status = "COMPLETED" THEN "done" ELSE "failed"
    OBVIOUS
  <2>3. T = Wake(D, p, E(result, c))
    BY <1>1, <1>4, <2>2 DEF Close
  <2>4. Q \ {<<p, c>>} \subseteq P
    BY <1>1
  <2>5. Expected(T, P) /\ Undisturbed(D, T, {})
    BY <1>2, <1>3, <1>4, <2>1, <2>3, <2>4, ResultExpected
  <2> QED BY <1>2, <2>5, UndisturbedTransitive
<1>5. CASE ~(w \notin Roots /\ D.status[p] = "RUNNING")
  <2>1. T = D
    BY <1>1, <1>5 DEF Close
  <2>2. Expected(D, P)
    <3>1. p \notin Workflows \/ D.status[p] # "RUNNING"
      <4>1. w \in Roots => p \notin Workflows
        BY <1>1, WorkflowAssumption DEF Roots
      <4> QED BY <1>5, <4>1
    <3>2. SUFFICES ASSUME NEW v \in Workflows, NEW d \in Nat, D.status[v] = "RUNNING",
                          Unanswered(D.history[v], d)
                   PROVE  Pending(D, v, d)
      BY DEF Expected
    <3>3. Pending(D, v, d) \/ <<v, d>> \in Q
      BY <1>2, <3>2 DEF Expected
    <3> QED BY <1>1, <3>1, <3>2, <3>3
  <2> QED BY <1>2, <2>1, <2>2
<1> QED BY <1>4, <1>5

\* The task of a workflow that is over.
LEMMA DropTaskExpected ==
  ASSUME NEW S \in Lanes, NEW P, Expected(S, P), NEW w \in Workflows, S.status[w] # "RUNNING",
         NEW T, T = DropTask(S, w)
  PROVE  Expected(T, P) /\ Undisturbed(S, T, {})
<1>1. /\ T.task = [S.task EXCEPT ![w] = NoTask]
      /\ T.status = S.status /\ T.history = S.history
      /\ T.timers = S.timers /\ T.activities = S.activities
  BY DropTaskIs
<1>2. \A v \in Workflows \ {w} : T.task[v] = S.task[v]
  BY <1>1 DEF Lanes
<1>3. Expected(T, P)
  BY <1>1, SilentExpected
<1>4. Undisturbed(S, T, {})
  BY <1>1, <1>2 DEF Undisturbed, Resting
<1> QED BY <1>3, <1>4

LEMMA ExpireExpected ==
  ASSUME NEW S, NEW X, X = {}, Good(S, X), NEW P, P = {}, Expected(S, P), NEW w \in Workflows,
         S.status[w] = "RUNNING", policy \in ChildPolicies, NEW T, T = Expire(w, S)
  PROVE  Expected(T, P) /\ Undisturbed(S, T, {})
<1>1. PICK C : C = Close(S, w, "TIMED_OUT")
  OBVIOUS
<1>2. "TIMED_OUT" \in Statuses \ {"none", "RUNNING"}
  BY DEF Statuses
<1>3. Good(C, X \cup {w}) /\ C.status[w] = "TIMED_OUT"
  BY <1>1, <1>2, CloseGood
<1>4. Expected(C, P) /\ Undisturbed(S, C, {})
  BY <1>1, <1>2, CloseExpected
<1>5. T = DropTask(C, w) /\ C \in Lanes /\ C.status[w] # "RUNNING"
  BY <1>1, <1>3 DEF Expire, Good
<1>6. Expected(T, P) /\ Undisturbed(C, T, {})
  BY <1>4, <1>5, DropTaskExpected
<1> QED BY <1>4, <1>6, UndisturbedTransitive

LEMMA FireTimersExpected ==
  ASSUME NEW S, NEW X, X = {}, Good(S, X), NEW P, P = {}, Expected(S, P),
         NEW due \in SUBSET S.timers, NEW T, T = FireTimers(S, due)
  PROVE  Expected(T, P) /\ Undisturbed(S, T, {})
<1>1. /\ S \in Lanes /\ IsFiniteSet(due) /\ due \subseteq Workflows \X Nat
      /\ \A t \in due : S.status[t[1]] = "RUNNING"
  <2>1. IsFiniteSet(due)
    BY FiniteParts DEF Good
  <2> QED BY <2>1 DEF Good, Lanes, OnlyRunning
<1>2. PICK base : base = WithTimers(S, S.timers \ due)
  OBVIOUS
<1>3. /\ Good(base, {}) /\ base.status = S.status /\ base.task = S.task
      /\ base.timers = S.timers \ due /\ base.activities = S.activities
      /\ base.history = S.history
  <2>1. S.timers \ due \in SUBSET S.timers /\ S.timers \ due \in SUBSET (Workflows \X Nat)
    BY <1>1 DEF Lanes
  <2>2. Good(base, {}) /\ base.status = S.status
    BY <1>1, <1>2, <2>1, WithTimersGood
  <2> QED BY <1>1, <1>2, <2>1, <2>2, TimersAre
<1>4. Expected(base, due) /\ Undisturbed(S, base, {})
  <2>1. \A v \in Workflows : \A d \in Nat :
          Pending(S, v, d) => Pending(base, v, d) \/ <<v, d>> \in due
    BY <1>3 DEF Pending
  <2> QED BY <1>3, <2>1, UndisturbedItself DEF Expected
<1>5. PICK iter, choose : Firing(iter, choose, due, base) /\ T = iter[due]
  BY <1>1, <1>2, FireTimersIs
<1>6. PICK G : G = {s \in SUBSET due : /\ Good(iter[s], {}) /\ iter[s].status = S.status
                                       /\ Expected(iter[s], due \ s) /\ Undisturbed(S, iter[s], {})}
  OBVIOUS
<1>7. {} \in G
  <2>1. iter[{}] = base /\ due \ {} = due
    BY <1>5 DEF Firing
  <2> QED BY <1>3, <1>4, <1>6, <2>1
<1>8. ASSUME NEW s \in SUBSET due, s # {}, s \ {choose[s]} \in G
      PROVE  s \in G
  <2>1. PICK x, U, W : x = choose[s] /\ U = iter[s \ {x}] /\ W = iter[s]
    OBVIOUS
  <2>2. x \in s /\ x \in due /\ W = Fire(x, U)
    BY <1>5, <1>8, <2>1 DEF Firing, Chooses
  <2>3. PICK Q, R, v, c : Q = due \ (s \ {x}) /\ R = due \ s /\ v = x[1] /\ c = x[2]
    OBVIOUS
  <2>4. Good(U, {}) /\ U.status = S.status /\ Expected(U, Q) /\ Undisturbed(S, U, {})
    BY <1>6, <1>8, <2>1, <2>3
  <2>5. v \in Workflows /\ c \in Nat /\ x = <<v, c>> /\ U.status[v] = "RUNNING"
    BY <1>1, <2>2, <2>3, <2>4
  <2>6. Q \ {<<v, c>>} \subseteq R
    BY <2>3, <2>5
  <2>7. W = Wake(U, v, E("done", c))
    BY <2>2, <2>3 DEF Fire
  <2>8. Expected(W, R) /\ Undisturbed(U, W, {})
    BY <2>4, <2>5, <2>6, <2>7, ResultExpected
  <2>9. Good(W, {}) /\ W.status = U.status
    <3>1. x \in Workflows \X Nat /\ U.status[x[1]] = "RUNNING"
      BY <1>1, <2>2, <2>3, <2>5
    <3> QED BY <2>2, <2>4, <3>1, FireGood
  <2>10. Undisturbed(S, W, {})
    BY <2>4, <2>8, UndisturbedTransitive
  <2> QED BY <1>6, <2>1, <2>3, <2>4, <2>8, <2>9, <2>10
<1>9. SUBSET due \subseteq G
  BY <1>1, <1>5, <1>7, <1>8, FoldInduction DEF Firing
<1>10. due \in SUBSET due /\ due \ due = P
  OBVIOUS
<1> QED BY <1>5, <1>6, <1>9, <1>10

LEMMA FailOverdueExpected ==
  ASSUME NEW S, NEW X, X = {}, Good(S, X), NEW P, P = {}, Expected(S, P),
         NEW late \in SUBSET S.activities, NEW T, T = FailOverdue(S, late)
  PROVE  Expected(T, P) /\ Undisturbed(S, T, {})
<1>1. /\ S \in Lanes /\ IsFiniteSet(late) /\ late \subseteq Activities
      /\ \A a \in late : S.status[a.workflow] = "RUNNING"
  <2>1. IsFiniteSet(late)
    BY FiniteParts DEF Good
  <2> QED BY <2>1 DEF Good, Lanes, OnlyRunning
<1>2. PICK base : base = WithActivities(S, S.activities \ late)
  OBVIOUS
<1>3. /\ Good(base, {}) /\ base.status = S.status /\ base.task = S.task
      /\ base.activities = S.activities \ late /\ base.timers = S.timers
      /\ base.history = S.history
  <2>1. PICK acts : acts = S.activities \ late
    OBVIOUS
  <2>2. acts \in SUBSET S.activities /\ acts \in SUBSET Activities
    BY <1>1, <2>1 DEF Lanes
  <2>3. Working(S, acts)
    <3>1. IsFiniteSet(acts)
      BY <1>1, <2>2, FiniteParts DEF Good
    <3> QED BY <1>1, <2>2, <3>1 DEF Good, OnlyRunning, Working
  <2>4. Good(base, {}) /\ base.status = S.status
    BY <1>1, <1>2, <2>1, <2>3, WithActivitiesGood
  <2> QED BY <1>1, <1>2, <2>1, <2>2, <2>4, ActivitiesAre
<1>4. PICK Pairs : Pairs = [s \in SUBSET late |-> {<<a.workflow, a.command>> : a \in late \ s}]
  OBVIOUS
<1>5. Expected(base, Pairs[{}]) /\ Undisturbed(S, base, {})
  <2>1. PICK Q : Q = Pairs[{}]
    OBVIOUS
  <2>2. Q = {<<a.workflow, a.command>> : a \in late}
    BY <1>4, <2>1
  <2>3. \A v \in Workflows : \A d \in Nat :
          Pending(S, v, d) => Pending(base, v, d) \/ <<v, d>> \in Q
    BY <1>3, <2>2 DEF Pending
  <2>4. Expected(base, Q)
    BY <1>3, <2>3 DEF Expected
  <2> QED BY <1>3, <2>1, <2>4, UndisturbedItself
<1>6. PICK iter, choose : Failing(iter, choose, late, base) /\ T = iter[late]
  BY <1>1, <1>2, FailOverdueIs
<1>7. PICK G : G = {s \in SUBSET late : /\ Good(iter[s], {}) /\ iter[s].status = S.status
                                        /\ Expected(iter[s], Pairs[s]) /\ Undisturbed(S, iter[s], {})}
  OBVIOUS
<1>8. {} \in G
  <2>1. iter[{}] = base
    BY <1>6 DEF Failing
  <2> QED BY <1>3, <1>5, <1>7, <2>1
<1>9. ASSUME NEW s \in SUBSET late, s # {}, s \ {choose[s]} \in G
      PROVE  s \in G
  <2>1. PICK x, U, W : x = choose[s] /\ U = iter[s \ {x}] /\ W = iter[s]
    OBVIOUS
  <2>2. x \in s /\ x \in late /\ W = Overdue(x, U)
    BY <1>6, <1>9, <2>1 DEF Failing, Chooses
  <2>3. PICK Q, R, v, c : Q = Pairs[s \ {x}] /\ R = Pairs[s] /\ v = x.workflow /\ c = x.command
    OBVIOUS
  <2>4. Good(U, {}) /\ U.status = S.status /\ Expected(U, Q) /\ Undisturbed(S, U, {})
    BY <1>7, <1>9, <2>1, <2>3
  <2>5. x \in Activities /\ v \in Workflows /\ c \in Nat /\ U.status[v] = "RUNNING"
    BY <1>1, <2>2, <2>3, <2>4 DEF Activities
  <2>6. Q \ {<<v, c>>} \subseteq R
    <3>1. Q = {<<a.workflow, a.command>> : a \in late \ (s \ {x})} /\
          R = {<<a.workflow, a.command>> : a \in late \ s}
      BY <1>4, <2>3
    <3> QED BY <2>3, <3>1
  <2>7. W = Wake(U, v, E("failed", c))
    BY <2>2, <2>3 DEF Overdue
  <2>8. Expected(W, R) /\ Undisturbed(U, W, {})
    BY <2>4, <2>5, <2>6, <2>7, ResultExpected
  <2>9. Good(W, {}) /\ W.status = U.status
    <3>1. x \in Activities /\ U.status[x.workflow] = "RUNNING"
      BY <2>3, <2>5
    <3> QED BY <2>2, <2>4, <3>1, OverdueGood
  <2>10. Undisturbed(S, W, {})
    BY <2>4, <2>8, UndisturbedTransitive
  <2> QED BY <1>7, <2>1, <2>3, <2>4, <2>8, <2>9, <2>10
<1>10. SUBSET late \subseteq G
  BY <1>1, <1>6, <1>8, <1>9, FoldInduction DEF Failing
<1>11. late \in SUBSET late /\ Pairs[late] = P
  BY <1>4
<1> QED BY <1>6, <1>7, <1>10, <1>11

LEMMA ExpireWorkflowsExpected ==
  ASSUME NEW S, NEW X, X = {}, Good(S, X), NEW P, P = {}, Expected(S, P),
         NEW late \in SUBSET Roots, \A w \in late : S.status[w] = "RUNNING",
         policy \in ChildPolicies, NEW T, T = ExpireWorkflows(S, late)
  PROVE  Expected(T, P) /\ Undisturbed(S, T, {})
<1>1. Good(S, {}) /\ S \in Lanes /\ IsFiniteSet(late) /\ late \in SUBSET Workflows
  <2>1. late \in SUBSET Workflows
    BY DEF Roots
  <2> QED BY <2>1, FiniteParts, WorkflowAssumption DEF Good
<1>2. PICK iter, choose : Expiring(iter, choose, late, S) /\ T = iter[late]
  BY <1>1, ExpireWorkflowsIs
<1>3. PICK G : G = {s \in SUBSET late :
         /\ Good(iter[s], {}) /\ Expected(iter[s], P) /\ Undisturbed(S, iter[s], {})
         /\ \A w \in late \ s : iter[s].status[w] = "RUNNING"}
  OBVIOUS
<1>4. {} \in G
  <2>1. iter[{}] = S
    BY <1>2 DEF Expiring
  <2> QED BY <1>1, <1>3, <2>1, UndisturbedItself
<1>5. ASSUME NEW s \in SUBSET late, s # {}, s \ {choose[s]} \in G
      PROVE  s \in G
  <2>1. PICK x, U, W : x = choose[s] /\ U = iter[s \ {x}] /\ W = iter[s]
    OBVIOUS
  <2>2. x \in s /\ x \in late /\ W = Expire(x, U)
    BY <1>2, <1>5, <2>1 DEF Expiring, Chooses
  <2>3. /\ Good(U, {}) /\ Expected(U, P) /\ Undisturbed(S, U, {})
        /\ \A w \in late \ (s \ {x}) : U.status[w] = "RUNNING"
    BY <1>3, <1>5, <2>1
  <2>4. x \in Workflows /\ U.status[x] = "RUNNING"
    BY <1>1, <2>2, <2>3
  <2>5. Good(W, {}) /\ \A v \in Roots \ {x} : W.status[v] = U.status[v]
    BY <2>2, <2>3, <2>4, ExpireGood
  <2>6. Expected(W, P) /\ Undisturbed(U, W, {})
    BY <2>2, <2>3, <2>4, ExpireExpected
  <2>7. Undisturbed(S, W, {})
    BY <2>3, <2>6, UndisturbedTransitive
  <2>8. \A w \in late \ s : W.status[w] = "RUNNING"
    BY <2>2, <2>3, <2>5
  <2> QED BY <1>3, <2>1, <2>5, <2>6, <2>7, <2>8
<1>6. SUBSET late \subseteq G
  BY <1>1, <1>2, <1>4, <1>5, FoldInduction DEF Expiring
<1>7. late \in SUBSET late
  OBVIOUS
<1> QED BY <1>2, <1>3, <1>6, <1>7

\* A workflow starts: the command that asked for it is pending from then on.
LEMMA StartExpected ==
  ASSUME NEW S, NEW X, Good(S, X), NEW v \in Workflows, S.status[v] = "none",
         NEW Q, Q \subseteq {<<Parent[v], CommandOf(v)>>}, Expected(S, Q),
         NEW P, P = {}, NEW T, T = Start(S, v)
  PROVE  Expected(T, P) /\ Undisturbed(S, T, {})
<1>1. S \in Lanes /\ S.history[v] = <<>>
  BY DEF Good, Told
<1>2. PICK e : e = E("started", 1)
  OBVIOUS
<1>3. /\ e \in Event /\ T.history[v] = Append(<<>>, e)
      /\ T.task[v] = IF S.task[v] = NoTask THEN FreshTask ELSE S.task[v]
      /\ T.status[v] = "RUNNING"
      /\ \A w \in Workflows \ {v} : /\ T.history[w] = S.history[w] /\ T.task[w] = S.task[w]
                                    /\ T.status[w] = S.status[w]
      /\ T.timers = S.timers /\ T.activities = S.activities
  BY <1>1, <1>2, StartIs
<1>4. Fresh(v, T.history[v])
  <2>1. e.type = "started"
    BY <1>2 DEF E
  <2> QED BY <1>3, <2>1, FirstOrdered
<1>5. Expected(T, P)
  <2>1. SUFFICES ASSUME NEW u \in Workflows, NEW d \in Nat, T.status[u] = "RUNNING",
                        Unanswered(T.history[u], d)
                 PROVE  Pending(T, u, d)
    BY DEF Expected
  <2>2. u # v
    BY <1>4, <2>1 DEF Fresh, Unanswered
  <2>3. Pending(S, u, d) \/ <<u, d>> \in Q
    BY <1>3, <2>1, <2>2 DEF Expected
  <2>4. \A x \in Workflows : S.status[x] = "RUNNING" => T.status[x] = "RUNNING"
    BY <1>3
  <2>5. Pending(S, u, d) => Pending(T, u, d)
    BY <1>3, <2>4 DEF Pending
  <2>6. <<u, d>> \in Q => Pending(T, u, d)
    BY <1>3 DEF Pending
  <2> QED BY <2>3, <2>5, <2>6
<1>6. Undisturbed(S, T, {})
  <2>1. T.task[v] # NoTask
    BY <1>3, NoTaskTyped
  <2> QED BY <1>3, <2>1 DEF Undisturbed, Resting
<1> QED BY <1>5, <1>6

LEMMA ContinueExpected ==
  ASSUME NEW S, NEW X, Good(S, X), NEW P, P = {}, Expected(S, P), NEW w \in Workflows,
         NEW T, T = ContinueAsNew(S, w)
  PROVE  Expected(T, P) /\ Undisturbed(S, T, {})
<1>1. S \in Lanes
  BY DEF Good
<1>2. PICK e : e = E("started", S.run[w] + 1)
  OBVIOUS
<1>3. /\ e \in Event /\ T.history[w] = Append(<<>>, e)
      /\ T.task[w] = IF S.task[w] = NoTask THEN FreshTask ELSE S.task[w]
      /\ \A v \in Workflows \ {w} : T.history[v] = S.history[v] /\ T.task[v] = S.task[v]
      /\ T.status = S.status
      /\ T.timers = {t \in S.timers : t[1] \notin {w}}
      /\ T.activities = {a \in S.activities : a.workflow \notin {w}}
  BY <1>1, <1>2, ContinueIs
<1>4. Fresh(w, T.history[w])
  <2>1. e.type = "started"
    BY <1>2 DEF E
  <2> QED BY <1>3, <2>1, FirstOrdered
<1>5. Expected(T, P)
  <2>1. SUFFICES ASSUME NEW u \in Workflows, NEW d \in Nat, T.status[u] = "RUNNING",
                        Unanswered(T.history[u], d)
                 PROVE  Pending(T, u, d)
    BY DEF Expected
  <2>2. u # w
    BY <1>4, <2>1 DEF Fresh, Unanswered
  <2>3. Pending(S, u, d)
    BY <1>3, <2>1, <2>2 DEF Expected
  <2> QED BY <1>3, <2>2, <2>3 DEF Pending
<1>6. Undisturbed(S, T, {})
  <2>1. T.task[w] # NoTask
    BY <1>3, NoTaskTyped
  <2> QED BY <1>3, <2>1 DEF Undisturbed, Resting
<1> QED BY <1>5, <1>6

\* The command that is asked for is pending, or its child is running.
LEMMA ScheduleExpected ==
  ASSUME NEW S, NEW X, NEW P, P = {}, Fine(S, X, P), Expected(S, P),
         NEW w \in Workflows, S.status[w] = "RUNNING",
         NEW c \in 1 .. Len(Programs[w]), Foremost(S.history[w], c),
         Programs[w][c] \in Workflows => S.status[Programs[w][c]] = "none",
         NEW T, T = Schedule(S, w, c)
  PROVE  /\ Expected(T, P) /\ Undisturbed(S, T, {w})
         /\ c \in Nat /\ Unanswered(T.history[w], c)
<1>1. PICK h, e, A, g :
        /\ h = S.history[w] /\ e = E("scheduled", c) /\ A = AppendEvent(S, w, e)
        /\ g = Append(h, e)
  OBVIOUS
<1>2. S \in Lanes /\ h \in Seq(Event) /\ Len(h) >= 1 /\ c \in Nat /\ Ordered(w, h)
  BY <1>1, CommandIs DEF Fine, Good, Told, Lanes, Orderly
<1>3. e \in Event /\ e.type # "closed"
  BY <1>1, <1>2, EventsTyped DEF EventTypes
<1>4. /\ A.history[w] = g
      /\ \A v \in Workflows \ {w} : A.history[v] = S.history[v]
      /\ A.status = S.status /\ A.task = S.task
      /\ A.timers = S.timers /\ A.activities = S.activities
  BY <1>1, <1>2, <1>3, AppendEventDoes
<1>5. Good(A, X)
  BY <1>1, <1>3, AppendEventGood DEF Fine
<1>6. \A d \in Nat : /\ ScheduledIn(g, d) <=> ScheduledIn(h, d) \/ d = c
                     /\ AnsweredIn(g, d) <=> AnsweredIn(h, d)
  BY <1>1, <1>2, ForemostFits
<1>7. Unanswered(g, c)
  <2>1. ~AnsweredIn(h, c)
    BY <1>1, <1>2, NextIsNew
  <2> QED BY <1>2, <1>6, <2>1 DEF Unanswered
<1>8. PICK Q : Q = {<<w, c>>}
  OBVIOUS
<1>9. Expected(A, Q)
  <2>1. SUFFICES ASSUME NEW u \in Workflows, NEW d \in Nat, A.status[u] = "RUNNING",
                        Unanswered(A.history[u], d), <<u, d>> # <<w, c>>
                 PROVE  Pending(A, u, d)
    BY <1>8 DEF Expected
  <2>2. Unanswered(S.history[u], d)
    BY <1>1, <1>4, <1>6, <2>1 DEF Unanswered
  <2>3. Pending(S, u, d)
    BY <1>4, <2>1, <2>2 DEF Expected
  <2> QED BY <1>4, <2>3 DEF Pending
<1>10. Undisturbed(S, A, {w})
  BY <1>4 DEF Undisturbed, Resting
<1>11. CASE Programs[w][c] = "timer"
  <2>1. T.timers = A.timers \cup Q /\ T.activities = A.activities
        /\ T.status = A.status /\ T.history = A.history /\ T.task = A.task
    <3>1. PICK ts : ts = A.timers \cup {<<w, c>>}
      OBVIOUS
    <3>2. A \in Lanes
      BY <1>5 DEF Good
    <3>3. T = [A EXCEPT !.timers = ts]
      BY <1>1, <1>11, <3>1 DEF Schedule
    <3>4. ts \in SUBSET (Workflows \X Nat) /\ T = WithTimers(A, ts)
      BY <1>2, <3>1, <3>2, <3>3 DEF Lanes, WithTimers
    <3> QED BY <1>8, <3>1, <3>2, <3>4, TimersAre
  <2>2. Expected(T, P)
    BY <1>9, <2>1 DEF Expected, Pending
  <2>3. Undisturbed(A, T, {w})
    BY <2>1, UndisturbedItself
  <2>4. Unanswered(T.history[w], c)
    BY <1>4, <1>7, <2>1
  <2> QED BY <1>2, <1>10, <2>2, <2>3, <2>4, UndisturbedTransitive
<1>12. CASE Programs[w][c] = "activity"
  <2>1. PICK a : a = [workflow |-> w, command |-> c, attempt |-> 1, lease |-> "none", token |-> NoWorker]
    OBVIOUS
  <2>2. a \in Activities /\ a.workflow = w /\ a.command = c
    BY <1>2, <2>1, WorkflowAssumption DEF Activities, Leases
  <2>3. T.activities = A.activities \cup {a} /\ T.timers = A.timers
        /\ T.status = A.status /\ T.history = A.history /\ T.task = A.task
    <3>1. PICK acts : acts = A.activities \cup {a}
      OBVIOUS
    <3>2. A \in Lanes
      BY <1>5 DEF Good
    <3>3. T = [A EXCEPT !.activities = acts]
      BY <1>1, <1>12, <2>1, <3>1, CommandIs DEF Schedule
    <3>4. acts \in SUBSET Activities /\ T = WithActivities(A, acts)
      BY <2>2, <3>1, <3>2, <3>3 DEF Lanes, WithActivities
    <3> QED BY <3>1, <3>2, <3>4, ActivitiesAre
  <2>4. Expected(T, P)
    <3>1. SUFFICES ASSUME NEW u \in Workflows, NEW d \in Nat, T.status[u] = "RUNNING",
                          Unanswered(T.history[u], d)
                   PROVE  Pending(T, u, d)
      BY DEF Expected
    <3>2. Pending(A, u, d) \/ <<u, d>> = <<w, c>>
      BY <1>8, <1>9, <2>3, <3>1 DEF Expected
    <3>3. Pending(A, u, d) => Pending(T, u, d)
      BY <2>3 DEF Pending
    <3>4. Pending(T, w, c)
      BY <2>2, <2>3 DEF Pending
    <3> QED BY <3>2, <3>3, <3>4
  <2>5. Undisturbed(A, T, {w})
    BY <2>3, UndisturbedItself
  <2>6. Unanswered(T.history[w], c)
    BY <1>4, <1>7, <2>3
  <2> QED BY <1>2, <1>10, <2>4, <2>5, <2>6, UndisturbedTransitive
<1>13. CASE Programs[w][c] \notin {"timer", "activity"}
  <2>1. PICK v : v = Programs[w][c]
    OBVIOUS
  <2>2. v \in Workflows /\ Parent[v] = w /\ S.status[v] = "none"
    BY <1>13, <2>1, CommandIs
  <2>3. T = Start(A, v)
    BY <1>1, <1>13, <2>1 DEF Schedule
  <2>4. CommandOf(v) = c
    BY <1>1, <1>2, <2>1, <2>2, NextChild DEF Fine
  <2>5. Q \subseteq {<<Parent[v], CommandOf(v)>>} /\ A.status[v] = "none"
    BY <1>4, <1>8, <2>2, <2>4
  <2>6. Expected(T, P) /\ Undisturbed(A, T, {})
    BY <1>5, <1>9, <2>2, <2>3, <2>5, StartExpected
  <2>7. Undisturbed(A, T, {w})
    BY <2>6, UndisturbedBut
  <2>8. T.history[w] = A.history[w]
    <3>1. w # v /\ A \in Lanes
      BY <1>5, <2>2 DEF Good
    <3> QED BY <2>2, <2>3, <3>1, StartIs
  <2>9. Unanswered(T.history[w], c)
    BY <1>4, <1>7, <2>8
  <2> QED BY <1>2, <1>10, <2>6, <2>7, <2>9, UndisturbedTransitive
<1> QED BY <1>11, <1>12, <1>13

\* The history before the completions of updates.
LEMMA Beginning ==
  ASSUME NEW h \in Seq(Event), NEW u \in Seq(Updated), NEW g, g = h \o u
  PROVE  /\ g \in Seq(Event) /\ Len(g) = Len(h) + Len(u)
         /\ \A n \in 1 .. Len(h) : g[n] = h[n]
<1>1. u \in Seq(Event) /\ Len(u) \in Nat /\ Len(h) \in Nat
  <2>1. Updated \subseteq Event
    BY DEF Updated
  <2> QED BY <2>1, LenProperties
<1>2. PICK m, l : m = Len(h) /\ l = Len(u)
  OBVIOUS
<1>3. g \in Seq(Event) /\ Len(g) = m + l /\ \A i \in 1 .. m + l : g[i] = IF i <= m THEN h[i] ELSE u[i - m]
  BY <1>1, <1>2, ConcatProperties
<1>4. \A i \in 1 .. m : i \in 1 .. m + l /\ i <= m
  BY <1>1, <1>2
<1> QED BY <1>2, <1>3, <1>4

\* The events of a beginning h of g were in their places before.
LEMMA StraightBefore ==
  ASSUME NEW h \in Seq(Event), NEW g \in Seq(Event), Len(h) <= Len(g),
         \A n \in 1 .. Len(h) : g[n] = h[n], Straight(g), ~Hidden(g)
  PROVE  Straight(h) /\ ~Hidden(h)
<1>1. Len(h) \in Nat /\ Len(g) \in Nat
  BY LenProperties
<1>2. ASSUME NEW k \in 2 .. Len(h)
      PROVE  k \in 2 .. Len(g) /\ g[k] = h[k] /\ g[k - 1] = h[k - 1]
  <2>1. k \in 1 .. Len(h) /\ k - 1 \in 1 .. Len(h) /\ k \in 2 .. Len(g)
    BY <1>1
  <2> QED BY <2>1
<1> QED BY <1>2 DEF Straight, Hidden

\* Workflow w rests in T with a result to wait for, or as it was in S, with the
\* completions of updates.
Decided(S, T, w, answer) ==
  Resting(T, w) =>
    \/ \E c \in Nat : Unanswered(T.history[w], c)
    \/ answer.decision.type = "none" /\ T.history[w] = S.history[w] \o answer.updates

LEMMA ApplyExpected ==
  ASSUME NEW S, NEW X, X = {}, NEW P, P = {}, Fine(S, X, P), Expected(S, P), NEW w \in Workflows,
         S.status[w] = "RUNNING", S.task[w] = NoTask, policy \in ChildPolicies,
         NEW answer \in Answers(w), ~ChildExists(S, w, answer.decision),
         Justified(w, S.history[w], answer.decision), NEW T, T = Apply(S, w, answer)
  PROVE  Expected(T, P) /\ Undisturbed(S, T, {w}) /\ Decided(S, T, w, answer)
<1>1. S \in Lanes /\ Good(S, {})
  BY DEF Fine, Good
<1>2. PICK h, u, g, d : h = S.history[w] /\ u = answer.updates /\ g = h \o u /\ d = answer.decision
  OBVIOUS
<1>3. /\ h \in Seq(Event) /\ Told("RUNNING", h) /\ Len(h) >= 1
      /\ u \in Seq(Updated) /\ d \in Decisions(w)
  BY <1>1, <1>2 DEF Lanes, Good, Answers, Told
<1>4. Extends(g, h)
  BY <1>2, <1>3, UpdatesExtend
<1>5. PICK U : U = [S EXCEPT !.history[w] = g]
  OBVIOUS
<1>6. /\ U \in Lanes /\ U.history[w] = g
      /\ \A v \in Workflows \ {w} : U.history[v] = S.history[v]
      /\ U.status = S.status /\ U.run = S.run /\ U.task = S.task
      /\ U.timers = S.timers /\ U.activities = S.activities
  <2>1. g \in Seq(Event)
    BY <1>4 DEF Extends
  <2>2. [S.history EXCEPT ![w] = g] \in [Workflows -> Seq(Event)]
    BY <1>1, <2>1 DEF Lanes
  <2> QED BY <1>1, <1>5, <2>2 DEF Lanes
<1>7. Good(U, {}) /\ Keeps(S, U)
  BY <1>1, <1>2, <1>4, <1>6, HistoryGood
<1>8. U = [S EXCEPT !.history[w] = @ \o answer.updates]
  BY <1>2, <1>5
<1>9. Quiet(w, h, g)
  BY <1>2, <1>3, QuietUpdates
<1>10. Orderly(U, P)
  <2>1. Calm(S, U)
    BY <1>2, <1>6, <1>9, QuietItself DEF Calm
  <2> QED BY <2>1, CalmOrderly DEF Fine
<1>11. Fine(U, X, P) /\ Good(U, X)
  BY <1>7, <1>10 DEF Fine
<1>12. Expected(U, P) /\ Undisturbed(S, U, {w})
  <2>1. \A v \in Workflows : Quiet(v, S.history[v], U.history[v])
    BY <1>2, <1>6, <1>9, QuietItself
  <2>2. SameWork(S, U)
    BY <1>6 DEF SameWork
  <2>3. Expected(U, P)
    BY <2>1, <2>2, SameWorkExpected
  <2>4. Undisturbed(S, U, {w})
    BY <1>6 DEF Undisturbed, Resting
  <2> QED BY <2>3, <2>4
<1>13. d.type \in {"none", "complete", "fail", "cancelled", "continue", "schedule"}
  BY <1>3 DEF Decisions
<1>14. CASE d.type \in {"complete", "fail", "cancelled"}
  <2>1. PICK status \in Statuses \ {"none", "RUNNING"} : T = Close(U, w, status)
    BY <1>2, <1>8, <1>14 DEF Apply, Statuses
  <2>2. U.status[w] = "RUNNING"
    BY <1>6
  <2>3. Expected(T, P) /\ Undisturbed(U, T, {})
    BY <1>11, <1>12, <2>1, <2>2, CloseExpected
  <2>4. Good(T, X \cup {w}) /\ T.status[w] = status
    BY <1>11, <2>1, <2>2, CloseGood
  <2>5. ~Resting(T, w)
    BY <2>4 DEF Resting
  <2>6. Undisturbed(U, T, {w})
    BY <2>3, UndisturbedBut
  <2> QED BY <1>12, <2>3, <2>5, <2>6, UndisturbedTransitive DEF Decided
<1>15. CASE d.type = "continue"
  <2>1. T = ContinueAsNew(U, w)
    BY <1>2, <1>8, <1>15 DEF Apply
  <2>2. Expected(T, P) /\ Undisturbed(U, T, {})
    BY <1>11, <1>12, <2>1, ContinueExpected
  <2>3. T.task[w] = FreshTask
    <3>1. PICK e : e = E("started", U.run[w] + 1)
      OBVIOUS
    <3>2. T.task[w] = IF U.task[w] = NoTask THEN FreshTask ELSE U.task[w]
      BY <1>6, <2>1, <3>1, ContinueIs
    <3> QED BY <1>6, <3>2
  <2>4. ~Resting(T, w)
    BY <2>3, NoTaskTyped DEF Resting
  <2>5. Undisturbed(U, T, {w})
    BY <2>2, UndisturbedBut
  <2> QED BY <1>12, <2>2, <2>4, <2>5, UndisturbedTransitive DEF Decided
<1>16. CASE d.type = "schedule"
  <2>1. T = Schedule(U, w, d.command)
    BY <1>2, <1>8, <1>16 DEF Apply
  <2>2. PICK c : c = d.command
    OBVIOUS
  <2>3. c \in 1 .. Len(Programs[w])
    BY <1>3, <1>16, <2>2 DEF Decisions
  <2>4. Programs[w][c] \in Workflows => U.status[Programs[w][c]] = "none"
    BY <1>2, <1>6, <1>16, <2>2 DEF ChildExists
  <2>5. Foremost(U.history[w], c)
    <3>1. Foremost(h, c) /\ c \in Nat
      BY <1>2, <1>16, <2>2, <2>3, ProgramLength DEF Justified
    <3>2. \A n \in 1 .. Len(g) : g[n].type = "scheduled" => n \in 1 .. Len(h)
      BY <1>9 DEF Quiet
    <3>3. g \in Seq(Event) /\ Len(g) >= Len(h)
      BY <1>4 DEF Extends
    <3>4. \A n \in 1 .. Len(h) : g[n] = h[n]
      BY <1>2, <1>3, Beginning
    <3>5. Foremost(g, c)
      BY <1>3, <3>1, <3>2, <3>3, <3>4, ForemostMore
    <3> QED BY <1>6, <3>5
  <2>6. T = Schedule(U, w, c) /\ U.status[w] = "RUNNING"
    BY <1>6, <2>1, <2>2
  <2>7. Expected(T, P) /\ Undisturbed(U, T, {w}) /\ c \in Nat /\ Unanswered(T.history[w], c)
    BY <1>11, <1>12, <2>3, <2>4, <2>5, <2>6, ScheduleExpected
  <2> QED BY <1>12, <2>7, UndisturbedTransitive DEF Decided
<1>17. CASE d.type = "none"
  <2>1. T = U
    BY <1>2, <1>8, <1>17 DEF Apply
  <2> QED BY <1>2, <1>6, <1>12, <1>17, <2>1 DEF Decided
<1> QED BY <1>13, <1>14, <1>15, <1>16, <1>17

LEMMA CompleteWorkflowExpected ==
  ASSUME ReplayInvariant, Expected(lane, {}), Motive(lane, {}), NEW x \in Workers,
         CompleteWorkflow(x)
  PROVE  Expected(lane', {}) /\ Motive(lane', {})
<1>1. PICK L, w, n, D, answer, A, T, X, P :
        /\ L = lane /\ w = job[x].workflow /\ n = job[x].seen /\ D = DropTask(L, w)
        /\ answer = Replay(w, n) /\ A = Apply(D, w, answer) /\ T = lane' /\ X = {} /\ P = {}
  OBVIOUS
<1>2. w \in Workflows /\ L.status[w] = "RUNNING" /\ n \in 1 .. Len(L.history[w]) /\ HasTask(x)
  BY <1>1, TaskHeld DEF CompleteWorkflow, ReplayInvariant
<1>3. Fine(L, X, P) /\ L \in Lanes /\ policy \in ChildPolicies
  BY <1>1 DEF ReplayInvariant, WorkflowInvariant, Good, Fine
<1>4. /\ D \in Lanes /\ D.task = [L.task EXCEPT ![w] = NoTask]
      /\ D.status = L.status /\ D.history = L.history
      /\ D.timers = L.timers /\ D.activities = L.activities
  BY <1>1, <1>2, <1>3, DropTaskIs
<1>5. D.task[w] = NoTask /\ \A v \in Workflows \ {w} : D.task[v] = L.task[v]
  BY <1>2, <1>3, <1>4 DEF Lanes
<1>6. Good(D, X)
  <2>1. Good(L, {})
    BY <1>1, <1>3 DEF Fine
  <2>2. Good(L, {} \cup {w})
    BY <2>1, GoodAtLeast
  <2>3. Good(D, {}) /\ Keeps(L, D) /\ D.task[w] = NoTask /\ D.status = L.status /\ D.history = L.history
    <3>1. w \in Workflows /\ Good(L, {} \cup {w}) /\ D = DropTask(L, w)
      BY <1>1, <1>2, <2>2
    <3> QED BY <3>1, DropTaskGood
  <2> QED BY <1>1, <2>3
<1>7. Fine(D, X, P) /\ D.status[w] = "RUNNING"
  <2>1. Orderly(D, P)
    BY <1>3, <1>4, SilentFine DEF Fine
  <2> QED BY <1>2, <1>4, <1>6, <2>1 DEF Fine
<1>8. Expected(D, P) /\ Undisturbed(L, D, {w})
  <2>1. Expected(L, P)
    BY <1>1
  <2>2. Expected(D, P)
    BY <1>4, <2>1, SilentExpected
  <2> QED BY <1>4, <1>5, <2>2 DEF Undisturbed, Resting
<1>9. answer \in Answers(w)
  BY <1>1, <1>2, <1>3, ReplayIs
<1>10. /\ ~ChildExists(D, w, answer.decision)
       /\ T = IF Len(L.history[w]) > n /\ A.status[w] = "RUNNING" THEN Enqueue(A, w) ELSE A
  <2>1. /\ ~ChildExists(L, w, answer.decision)
        /\ T = IF Len(L.history[w]) > n /\ A.status[w] = "RUNNING" THEN Enqueue(A, w) ELSE A
    BY <1>1 DEF CompleteWorkflow
  <2> QED BY <1>4, <2>1 DEF ChildExists
<1>11. Justified(w, D.history[w], answer.decision)
  BY <1>1, <1>2, <1>4, AnswerJustified
<1>12. Expected(A, P) /\ Undisturbed(D, A, {w}) /\ Decided(D, A, w, answer)
  <2>1. /\ w \in Workflows /\ X = {} /\ P = {} /\ A = Apply(D, w, answer)
        /\ policy \in ChildPolicies /\ Expected(D, P) /\ D.task[w] = NoTask
    BY <1>1, <1>2, <1>3, <1>5, <1>8
  <2> QED BY <1>7, <1>9, <1>10, <1>11, <2>1, ApplyExpected
<1>13. A \in Lanes
  <2>1. Good(A, {}) /\ Keeps(D, A)
    BY <1>1, <1>2, <1>3, <1>5, <1>6, <1>7, <1>9, <1>10, ApplyGood
  <2> QED BY <2>1 DEF Good
<1>14. /\ Expected(T, P) /\ Undisturbed(A, T, {w})
       /\ Resting(T, w) => T = A /\ Len(L.history[w]) <= n
  <2>1. CASE Len(L.history[w]) > n /\ A.status[w] = "RUNNING"
    <3>1. T = Enqueue(A, w)
      BY <1>10, <2>1
    <3>2. /\ T.task = [A.task EXCEPT ![w] = IF @ = NoTask THEN FreshTask ELSE @]
          /\ T.status = A.status /\ T.history = A.history
          /\ T.timers = A.timers /\ T.activities = A.activities
      BY <1>2, <1>13, <3>1, EnqueueIs, EnqueueSilent
    <3>3. T.task[w] # NoTask /\ \A v \in Workflows \ {w} : T.task[v] = A.task[v]
      BY <1>2, <1>13, <3>2, NoTaskTyped DEF Lanes
    <3>4. Expected(T, P)
      BY <1>12, <3>2, SilentExpected
    <3> QED BY <3>2, <3>3, <3>4 DEF Undisturbed, Resting
  <2>2. CASE ~(Len(L.history[w]) > n /\ A.status[w] = "RUNNING")
    <3>1. T = A
      BY <1>10, <2>2
    <3>2. Undisturbed(A, T, {w})
      BY <3>1, UndisturbedItself
    <3>3. Len(L.history[w]) \in Nat /\ n \in Nat
      BY <1>2, <1>3, LenProperties DEF Lanes
    <3> QED BY <1>12, <2>2, <3>1, <3>2, <3>3 DEF Resting
  <2> QED BY <2>1, <2>2
<1>15. Motive(T, {w})
  <2>1. Motive(L, {w})
    BY <1>1 DEF Motive
  <2>2. Undisturbed(L, T, {w})
    BY <1>8, <1>12, <1>14, UndisturbedTransitive
  <2> QED BY <2>1, <2>2, MotiveKept
\* The workflow itself: it has seen its whole history, and decided to wait.
<1>16. ASSUME Resting(T, w), Straight(T.history[w]), ~Hidden(T.history[w])
       PROVE  \E c \in Nat : Unanswered(T.history[w], c)
  <2>1. T = A /\ Resting(A, w) /\ Len(L.history[w]) <= n
    BY <1>14, <1>16
  <2>2. PICK h, u, g : h = L.history[w] /\ u = answer.updates /\ g = h \o u
    OBVIOUS
  <2>3. h \in Seq(Event) /\ Len(h) \in Nat /\ u \in Seq(Updated) /\ Len(u) \in Nat
    BY <1>2, <1>3, <1>9, <2>2, LenProperties DEF Lanes, Answers
  <2>4. SUFFICES ASSUME answer.decision.type = "none", T.history[w] = g
                 PROVE  \E c \in Nat : Unanswered(g, c)
    BY <1>4, <1>12, <2>1, <2>2 DEF Decided
  <2>5. /\ g \in Seq(Event) /\ Len(g) = Len(h) + Len(u)
        /\ \A i \in 1 .. Len(h) : g[i] = h[i]
    <3>1. g = h \o u /\ h \in Seq(Event) /\ u \in Seq(Updated)
      BY <2>2, <2>3
    <3> QED BY <3>1, Beginning
  <2>6. Straight(h) /\ ~Hidden(h)
    <3>1. Len(h) <= Len(g)
      BY <2>3, <2>5
    <3> QED BY <1>16, <2>3, <2>4, <2>5, <3>1, StraightBefore
  <2>7. n = Len(h) /\ Len(h) >= 1 /\ SubSeq(h, 1, n) = h
    <3>1. n \in 1 .. Len(h) /\ n = Len(h)
      BY <1>2, <2>1, <2>2, <2>3
    <3>2. PICK s : s = SubSeq(h, 1, n)
      OBVIOUS
    <3>3. s \in Seq(Event) /\ Len(s) = n /\ \A i \in 1 .. n : s[i] = h[i]
      BY <2>3, <3>1, <3>2, SubSeqProperties
    <3>4. s = h
      BY <2>3, <3>1, <3>3, SeqEqual
    <3> QED BY <2>3, <3>1, <3>2, <3>4
  <2>8. /\ Ordered(w, h) /\ h[1].type = "started"
        /\ \A k \in 1 .. Len(h) : h[k].type # "closed"
    <3>1. Told("RUNNING", h) /\ Ordered(w, h)
      BY <1>2, <1>3, <2>2 DEF Fine, Good, Orderly
    <3>2. 1 \in 1 .. Len(h)
      BY <2>3, <2>7
    <3>3. Fits(w, h, 1 - 1, h[1])
      BY <3>1, <3>2 DEF Ordered
    <3> QED BY <3>1, <3>3 DEF Told, Fits
  <2>9. /\ lane \in Lanes /\ n \in 1 .. Len(lane.history[w]) /\ h = SubSeq(lane.history[w], 1, n)
        /\ Replay(w, n).decision.type = "none"
    BY <1>1, <1>2, <1>3, <2>2, <2>4, <2>7
  <2>10. PICK c \in Nat : Unanswered(h, c)
    BY <1>2, <2>6, <2>8, <2>9, ReplayWaits
  <2>11. Quiet(w, h, g)
    BY <2>2, <2>3, <2>7, QuietUpdates
  <2> QED BY <2>10, <2>11 DEF Quiet, Unanswered
<1>17. Motive(T, X)
  BY <1>1, <1>15, <1>16 DEF Motive
<1> QED BY <1>1, <1>14, <1>17

\* An activity is given out, or given back.
LEMMA ReplaceExpected ==
  ASSUME NEW S, NEW P, Expected(S, P), NEW a, NEW b, a.workflow = b.workflow, a.command = b.command,
         NEW T, T.history = S.history, T.status = S.status, T.timers = S.timers,
         T.activities = (S.activities \ {a}) \cup {b}
  PROVE  Expected(T, P)
<1>1. \A w \in Workflows : \A c \in Nat : Pending(S, w, c) => Pending(T, w, c)
  BY DEF Pending
<1> QED BY <1>1 DEF Expected

-----------------------------------------------------------------------------
(* Every step keeps that whoever waits has a reason. *)

WaitingInvariant == ReplayInvariant /\ Expected(lane, {}) /\ Motive(lane, {})

LEMMA WaitingIs ==
  ASSUME WaitingInvariant, NEW L, L = lane, NEW X, X = {}
  PROVE  Fine(L, X, X) /\ Good(L, X) /\ L \in Lanes /\ Expected(L, X) /\ Motive(L, X)
         /\ policy \in ChildPolicies
BY DEF WaitingInvariant, ReplayInvariant, WorkflowInvariant, Fine, Good

LEMMA StartWorkflowExpected ==
  ASSUME WaitingInvariant, NEW w \in Workflows, StartWorkflow(w)
  PROVE  Expected(lane', {}) /\ Undisturbed(lane, lane', {})
<1>1. PICK L, T, X : L = lane /\ T = lane' /\ X = {}
  OBVIOUS
<1>2. Good(L, X) /\ Expected(L, X)
  BY <1>1, WaitingIs
<1>3. L.status[w] = "none" /\ T = Start(L, w)
  BY <1>1 DEF StartWorkflow
<1>4. X \subseteq {<<Parent[w], CommandOf(w)>>}
  BY <1>1
<1>5. Expected(T, X) /\ Undisturbed(L, T, {})
  BY <1>1, <1>2, <1>3, <1>4, StartExpected
<1> QED BY <1>1, <1>5

LEMMA SendExpected ==
  ASSUME WaitingInvariant, NEW w \in Workflows, NEW kind \in ExternalKinds, Send(w, kind)
  PROVE  Expected(lane', {}) /\ Undisturbed(lane, lane', {})
<1>1. PICK L, T, n, e, X :
        /\ L = lane /\ T = lane' /\ n = disturbances' /\ X = {}
        /\ e = E(kind, IF kind = "update" THEN n ELSE 0)
  OBVIOUS
<1>2. n \in Nat
  BY <1>1, WorkflowAssumption
  DEF WaitingInvariant, ReplayInvariant, WorkflowInvariant, Send, Disturbance
<1>3. e \in Event /\ Plain(e)
  <2>1. kind \in {"signal", "cancel", "update"}
    BY WorkflowAssumption
  <2>2. kind \in EventTypes /\ (IF kind = "update" THEN n ELSE 0) \in Nat
    BY <1>2, <2>1 DEF EventTypes
  <2>3. e \in Event /\ e.type = kind
    BY <1>1, <2>2, EventsTyped, PlainAnswers
  <2> QED BY <2>1, <2>3 DEF Plain, About
<1>4. T = Wake(L, w, e) /\ L.status[w] = "RUNNING"
  BY <1>1 DEF Send
<1>5. Good(L, X) /\ Expected(L, X)
  BY <1>1, WaitingIs
<1>6. Expected(T, X) /\ Undisturbed(L, T, {})
  BY <1>3, <1>4, <1>5, WakeExpected
<1> QED BY <1>1, <1>6

LEMMA TerminateExpected ==
  ASSUME WaitingInvariant, NEW w \in Workflows, Terminate(w)
  PROVE  Expected(lane', {}) /\ Undisturbed(lane, lane', {})
<1>1. PICK L, C, T, X : L = lane /\ C = Close(L, w, "TERMINATED") /\ T = lane' /\ X = {}
  OBVIOUS
<1>2. /\ Good(L, X) /\ Expected(L, X) /\ policy \in ChildPolicies
      /\ L.status[w] = "RUNNING" /\ T = DropTask(C, w)
  BY <1>1, WaitingIs DEF Terminate
<1>3. "TERMINATED" \in Statuses \ {"none", "RUNNING"}
  BY DEF Statuses
<1>4. Expected(C, X) /\ Undisturbed(L, C, {})
  BY <1>1, <1>2, <1>3, CloseExpected
<1>5. Good(C, X \cup {w}) /\ C.status[w] = "TERMINATED"
  BY <1>1, <1>2, <1>3, CloseGood
<1>6. C \in Lanes /\ C.status[w] # "RUNNING"
  BY <1>5 DEF Good
<1>7. Expected(T, X) /\ Undisturbed(C, T, {})
  BY <1>2, <1>4, <1>6, DropTaskExpected
<1> QED BY <1>1, <1>4, <1>7, UndisturbedTransitive

\* The task is there again.
LEMMA FailTaskExpected ==
  ASSUME WaitingInvariant, NEW x \in Workers, FailTask(x)
  PROVE  Expected(lane', {}) /\ Undisturbed(lane, lane', {})
<1>1. PICK L, w, e, A, T, X :
        /\ L = lane /\ w = job[x].workflow /\ e = E("taskFailed", 0)
        /\ A = AppendEvent(L, w, e) /\ T = lane' /\ X = {}
  OBVIOUS
<1>2. w \in Workflows /\ L.status[w] = "RUNNING"
  BY <1>1, TaskHeld DEF FailTask, WaitingInvariant, ReplayInvariant
<1>3. e \in Event /\ e.type # "closed" /\ Plain(e)
  BY <1>1, EventsTyped DEF EventTypes, Plain, About
<1>4. Good(L, X) /\ L \in Lanes /\ Expected(L, X)
  BY <1>1, WaitingIs
<1>5. Good(A, X) /\ Keeps(L, A) /\ A.status = L.status
  BY <1>1, <1>2, <1>3, <1>4, AppendEventGood
<1>6. /\ A.history[w] = Append(L.history[w], e)
      /\ \A v \in Workflows \ {w} : A.history[v] = L.history[v]
      /\ A.task = L.task /\ A.timers = L.timers /\ A.activities = L.activities
  <2>1. A = AppendEvent(L, w, e)
    BY <1>1
  <2> QED BY <1>2, <1>3, <1>4, <2>1, AppendEventDoes
<1>7. T = WithTask(A, w, FreshTask)
  BY <1>1 DEF FailTask, WithTask
<1>8. /\ T.task = [A.task EXCEPT ![w] = FreshTask] /\ T.history = A.history /\ T.status = A.status
      /\ T.timers = A.timers /\ T.activities = A.activities
  <2>1. A.status[w] = "RUNNING" /\ FreshTask \in Tasks
    BY <1>2, <1>5, NoTaskTyped
  <2> QED BY <1>2, <1>5, <1>7, <2>1, TaskGood
<1>9. Expected(T, X)
  <2>1. \A v \in Workflows : Quiet(v, L.history[v], T.history[v])
    BY <1>2, <1>3, <1>4, <1>6, <1>8, AppendQuiet
  <2>2. SameWork(L, T)
    BY <1>5, <1>6, <1>8 DEF SameWork
  <2> QED BY <1>4, <2>1, <2>2, SameWorkExpected
<1>10. Undisturbed(L, T, {})
  <2>1. A \in Lanes
    BY <1>5 DEF Good
  <2>2. T.task[w] # NoTask /\ \A v \in Workflows \ {w} : T.task[v] = L.task[v]
    BY <1>2, <1>6, <1>8, <2>1, NoTaskTyped DEF Lanes
  <2> QED BY <1>5, <1>6, <1>8, <2>2 DEF Undisturbed, Resting
<1> QED BY <1>1, <1>9, <1>10

\* The result is there, and the workflow has a task.
LEMMA CompleteActivityExpected ==
  ASSUME WaitingInvariant, NEW x \in Workers, NEW result \in {"done", "failed"},
         CompleteActivity(x, result)
  PROVE  Expected(lane', {}) /\ Undisturbed(lane, lane', {})
<1>1. PICK L, T, X : L = lane /\ T = lane' /\ X = {}
  OBVIOUS
<1>2. PICK a \in L.activities :
        T = Wake(WithActivities(L, L.activities \ {a}), a.workflow, E(result, a.command))
  BY <1>1 DEF CompleteActivity, Held, WithActivities
<1>3. PICK R, w, c, Q :
        /\ R = WithActivities(L, L.activities \ {a}) /\ w = a.workflow /\ c = a.command
        /\ Q = {<<w, c>>}
  OBVIOUS
<1>4. w \in Workflows /\ L.status[w] = "RUNNING" /\ c \in Nat
  BY <1>1, <1>3, ActivitiesRunning DEF WaitingInvariant, ReplayInvariant
<1>5. Good(L, X) /\ L \in Lanes /\ Expected(L, X)
  BY <1>1, WaitingIs
<1>6. Good(R, X)
  <2>1. Good(L, {})
    BY <1>1, <1>5
  <2>2. Good(R, {}) /\ Keeps(L, R) /\ R.status = L.status
    BY <1>3, <2>1, RemoveGood
  <2> QED BY <1>1, <2>2
<1>7. /\ R.activities = L.activities \ {a} /\ R.timers = L.timers
      /\ R.status = L.status /\ R.history = L.history /\ R.task = L.task
  <2>1. PICK acts : acts = L.activities \ {a}
    OBVIOUS
  <2>2. acts \in SUBSET Activities /\ R = WithActivities(L, acts)
    BY <1>3, <1>5, <2>1 DEF Lanes
  <2> QED BY <1>5, <2>1, <2>2, ActivitiesAre
<1>8. Expected(R, Q)
  <2>1. SUFFICES ASSUME NEW v \in Workflows, NEW d \in Nat, R.status[v] = "RUNNING",
                        Unanswered(R.history[v], d)
                 PROVE  Pending(R, v, d) \/ <<v, d>> \in Q
    BY DEF Expected
  <2>2. Pending(L, v, d)
    BY <1>1, <1>5, <1>7, <2>1 DEF Expected
  <2>3. Pending(L, v, d) => Pending(R, v, d) \/ <<v, d>> = <<w, c>>
    BY <1>3, <1>7 DEF Pending
  <2> QED BY <1>3, <2>2, <2>3
<1>9. /\ T = Wake(R, w, E(result, c)) /\ R.status[w] = "RUNNING"
      /\ Q \ {<<w, c>>} \subseteq X
  BY <1>2, <1>3, <1>4, <1>7
<1>10. Expected(T, X) /\ Undisturbed(R, T, {})
  BY <1>4, <1>6, <1>8, <1>9, ResultExpected
<1>11. Undisturbed(L, R, {})
  BY <1>7, UndisturbedItself
<1> QED BY <1>1, <1>10, <1>11, UndisturbedTransitive

\* The retry of an activity wakes nobody: its workflow goes on waiting for the result.
LEMMA RetryActivityExpected ==
  ASSUME WaitingInvariant, NEW x \in Workers, RetryActivity(x)
  PROVE  Expected(lane', {}) /\ Motive(lane', {})
<1>1. PICK L, T, X : L = lane /\ T = lane' /\ X = {}
  OBVIOUS
<1>2. PICK a \in L.activities :
        /\ a.attempt < MaxAttempts
        /\ T = [AppendEvent(L, a.workflow, E("retry", a.command)) EXCEPT !.activities =
             (@ \ {a}) \cup {[a EXCEPT !.attempt = @ + 1, !.lease = "none", !.token = NoWorker]}]
  BY <1>1 DEF RetryActivity, Held
<1>3. PICK w, c, e, A, b, h :
        /\ w = a.workflow /\ c = a.command /\ e = E("retry", c) /\ A = AppendEvent(L, w, e)
        /\ b = [a EXCEPT !.attempt = @ + 1, !.lease = "none", !.token = NoWorker]
        /\ h = L.history[w]
  OBVIOUS
<1>4. a \in Activities /\ w \in Workflows /\ L.status[w] = "RUNNING" /\ c \in Nat
  BY <1>1, <1>3, ActivitiesRunning DEF WaitingInvariant, ReplayInvariant
<1>5. Good(L, X) /\ L \in Lanes /\ Expected(L, X) /\ Motive(L, X) /\ h \in Seq(Event)
  <2>1. Good(L, X) /\ L \in Lanes /\ Expected(L, X) /\ Motive(L, X)
    BY <1>1, WaitingIs
  <2> QED BY <1>3, <1>4, <2>1 DEF Lanes
<1>6. e \in Event /\ e.type = "retry"
  BY <1>3, <1>4, EventsTyped DEF EventTypes
<1>7. /\ A.history[w] = Append(h, e)
      /\ \A v \in Workflows \ {w} : A.history[v] = L.history[v]
      /\ A.status = L.status /\ A.task = L.task
      /\ A.timers = L.timers /\ A.activities = L.activities
  BY <1>3, <1>4, <1>5, <1>6, AppendEventDoes
<1>8. A \in Lanes
  <2>1. e.type # "closed"
    BY <1>6
  <2>2. Good(A, X) /\ Keeps(L, A) /\ A.status = L.status
    BY <1>3, <1>4, <1>5, <1>6, <2>1, AppendEventGood
  <2> QED BY <2>2 DEF Good
<1>9. b \in Activities /\ b.workflow = a.workflow /\ b.command = a.command
  <2>1. a.attempt + 1 \in 1 .. MaxAttempts
    BY <1>2, <1>4, WorkflowAssumption DEF Activities
  <2> QED BY <1>3, <1>4, <2>1 DEF Activities, Leases
<1>10. PICK acts : acts = (A.activities \ {a}) \cup {b}
  OBVIOUS
<1>11. acts \in SUBSET Activities
  BY <1>8, <1>9, <1>10 DEF Lanes
<1>12. T = WithActivities(A, acts)
  BY <1>2, <1>3, <1>10 DEF WithActivities
<1>13. /\ T.activities = acts /\ T.timers = A.timers
       /\ T.status = A.status /\ T.history = A.history /\ T.task = A.task
  BY <1>8, <1>11, <1>12, ActivitiesAre
\* What is awaited stays the same.
<1>14. ASSUME NEW d
       PROVE  Unanswered(Append(h, e), d) <=> Unanswered(h, d)
  <2>1. e # E("scheduled", d) /\ ~IsResult(e, d)
    BY <1>6, PlainAnswers DEF IsResult
  <2>2. ScheduledIn(Append(h, e), d) <=> ScheduledIn(h, d) \/ e = E("scheduled", d)
    BY <1>5, <1>6, ScheduledMore
  <2>3. AnsweredIn(Append(h, e), d) <=> AnsweredIn(h, d) \/ IsResult(e, d)
    BY <1>5, <1>6, AnsweredMore
  <2> QED BY <2>1, <2>2, <2>3 DEF Unanswered
<1>15. Expected(A, X)
  <2>1. SUFFICES ASSUME NEW v \in Workflows, NEW d \in Nat, A.status[v] = "RUNNING",
                        Unanswered(A.history[v], d)
                 PROVE  Pending(A, v, d) \/ <<v, d>> \in X
    BY DEF Expected
  <2>2. Unanswered(L.history[v], d)
    BY <1>3, <1>7, <1>14, <2>1
  <2>3. Pending(L, v, d) \/ <<v, d>> \in X
    BY <1>5, <1>7, <2>1, <2>2 DEF Expected
  <2> QED BY <1>7, <2>3 DEF Pending
<1>16. Expected(T, X)
  BY <1>9, <1>10, <1>13, <1>15, ReplaceExpected
<1>17. Motive(T, X)
  <2>1. SUFFICES ASSUME NEW v \in Workflows \ X, Resting(T, v),
                        Straight(T.history[v]), ~Hidden(T.history[v])
                 PROVE  \E d \in Nat : Unanswered(T.history[v], d)
    BY DEF Motive
  <2>2. Resting(L, v)
    BY <1>7, <1>13, <2>1 DEF Resting
  <2>3. CASE v # w
    BY <1>5, <1>7, <1>13, <2>1, <2>2, <2>3 DEF Motive
  <2>4. CASE v = w
    <3>1. PICK g : g = Append(h, e)
      OBVIOUS
    <3>2. g = T.history[w] /\ Straight(g) /\ ~Hidden(g)
      BY <1>7, <1>13, <2>1, <2>4, <3>1
    <3>3. g \in Seq(Event) /\ Len(h) <= Len(g) /\ \A n \in 1 .. Len(h) : g[n] = h[n]
      <4>1. PICK m : m = Len(h)
        OBVIOUS
      <4>2. /\ Len(g) = m + 1 /\ m \in Nat /\ g[m + 1] = e
            /\ \A i \in 1 .. m : g[i] = h[i]
        BY <1>5, <1>6, <3>1, <4>1, Grown
      <4>3. g \in Seq(Event)
        BY <1>5, <1>6, <3>1, AppendProperties
      <4> QED BY <4>1, <4>2, <4>3
    <3>4. Straight(h) /\ ~Hidden(h)
      BY <1>5, <3>2, <3>3, StraightBefore
    <3>5. PICK d \in Nat : Unanswered(h, d)
      BY <1>3, <1>5, <2>1, <2>2, <2>4, <3>4 DEF Motive
    <3> QED BY <1>14, <2>4, <3>1, <3>2, <3>5
  <2> QED BY <2>3, <2>4
<1> QED BY <1>1, <1>16, <1>17

\* The lease of an activity changes.
LEMMA LeaseExpected ==
  ASSUME WaitingInvariant, NEW a \in lane.activities, NEW lease \in Leases,
         lane' = WithActivities(lane, (lane.activities \ {a}) \cup {[a EXCEPT !.lease = lease]})
  PROVE  Expected(lane', {}) /\ Undisturbed(lane, lane', {})
<1>1. PICK L, T, b, X :
        L = lane /\ T = lane' /\ b = [a EXCEPT !.lease = lease] /\ X = {}
  OBVIOUS
<1>2. a \in Activities /\ L \in Lanes /\ Expected(L, X)
  <2>1. a \in Activities
    BY ActivitiesRunning DEF WaitingInvariant, ReplayInvariant
  <2> QED BY <1>1, <2>1, WaitingIs
<1>3. b \in Activities /\ b.workflow = a.workflow /\ b.command = a.command
  BY <1>1, <1>2 DEF Activities
<1>4. PICK acts : acts = (L.activities \ {a}) \cup {b}
  OBVIOUS
<1>5. acts \in SUBSET Activities /\ T = WithActivities(L, acts)
  BY <1>1, <1>2, <1>3, <1>4 DEF Lanes
<1>6. /\ T.activities = acts /\ T.timers = L.timers
      /\ T.status = L.status /\ T.history = L.history /\ T.task = L.task
  BY <1>2, <1>5, ActivitiesAre
<1>7. Expected(T, X)
  BY <1>2, <1>3, <1>4, <1>6, ReplaceExpected
<1>8. Undisturbed(L, T, {})
  BY <1>6, UndisturbedItself
<1> QED BY <1>1, <1>7, <1>8

LEMMA ExpireLeaseExpected ==
  ASSUME WaitingInvariant, NEW x \in Workers, ExpireLease(x)
  PROVE  Expected(lane', {}) /\ Undisturbed(lane, lane', {})
<1>1. CASE \E a \in lane.activities :
             lane' = WithActivities(lane, (lane.activities \ {a}) \cup {[a EXCEPT !.lease = "expired"]})
  <2>1. "expired" \in Leases
    BY DEF Leases
  <2> QED BY <1>1, <2>1, LeaseExpected
<1>2. ASSUME NEW w \in Workflows, lane.task[w] = [lease |-> "held", token |-> x],
             lane' = [lane EXCEPT !.task[w].lease = "expired"]
      PROVE  Expected(lane', {}) /\ Undisturbed(lane, lane', {})
  <2>1. PICK L, T, X : L = lane /\ T = lane' /\ X = {}
    OBVIOUS
  <2>2. L \in Lanes /\ Expected(L, X)
    BY <2>1, WaitingIs
  <2>3. PICK tasks : tasks = [L.task EXCEPT ![w].lease = "expired"]
    OBVIOUS
  <2>4. T = [L EXCEPT !.task = tasks]
    BY <1>2, <2>1, <2>3
  <2>5. /\ T.history = L.history /\ T.status = L.status /\ T.timers = L.timers
        /\ T.activities = L.activities /\ T.task = tasks
    BY <2>2, <2>4 DEF Lanes
  <2>6. \A v \in Workflows : T.task[v] = NoTask => L.task[v] = NoTask
    <3>1. \A v \in Workflows \ {w} : T.task[v] = L.task[v]
      BY <2>2, <2>3, <2>5 DEF Lanes
    <3>2. T.task[w].lease = "expired"
      BY <1>2, <2>1, <2>2, <2>3, <2>5 DEF Lanes, Tasks
    <3> QED BY <3>1, <3>2 DEF NoTask
  <2>7. Expected(T, X)
    BY <2>2, <2>5, SilentExpected
  <2>8. Undisturbed(L, T, {})
    BY <2>5, <2>6 DEF Undisturbed, Resting
  <2> QED BY <2>1, <2>7, <2>8
<1> QED BY <1>1, <1>2 DEF ExpireLease, WithActivities

LEMMA PollActivityExpected ==
  ASSUME WaitingInvariant, NEW x \in Workers, NEW late \in SUBSET lane.activities,
         PollActivity(x, late)
  PROVE  Expected(lane', {}) /\ Undisturbed(lane, lane', {})
<1>1. PICK L, S, T, X : L = lane /\ S = FailOverdue(L, late) /\ T = lane' /\ X = {}
  OBVIOUS
<1>2. Fine(L, X, X) /\ Good(L, X) /\ Good(L, {}) /\ Expected(L, X) /\ late \in SUBSET L.activities
  <2>1. Fine(L, X, X) /\ Good(L, X) /\ Expected(L, X)
    BY <1>1, WaitingIs
  <2> QED BY <1>1, <2>1
<1>3. Expected(S, X) /\ Undisturbed(L, S, {})
  BY <1>1, <1>2, FailOverdueExpected
<1>4. S \in Lanes
  <2>1. Good(S, {})
    BY <1>1, <1>2, FailOverdueGood
  <2> QED BY <2>1 DEF Good
<1>5. \/ T = S
      \/ \E a \in L.activities \ late :
           T = WithActivities(S, (S.activities \ {a}) \cup {[a EXCEPT !.lease = "held", !.token = x]})
  BY <1>1 DEF PollActivity, WithActivities
<1>6. CASE T = S
  BY <1>1, <1>3, <1>6
<1>7. ASSUME NEW a \in L.activities \ late,
             T = WithActivities(S, (S.activities \ {a}) \cup {[a EXCEPT !.lease = "held", !.token = x]})
      PROVE  Expected(T, X) /\ Undisturbed(L, T, {})
  <2>1. PICK b : b = [a EXCEPT !.lease = "held", !.token = x]
    OBVIOUS
  <2>2. a \in Activities
    BY <1>1, ActivitiesRunning DEF WaitingInvariant, ReplayInvariant
  <2>3. b \in Activities /\ b.workflow = a.workflow /\ b.command = a.command
    BY <2>1, <2>2 DEF Activities, Leases
  <2>4. PICK acts : acts = (S.activities \ {a}) \cup {b}
    OBVIOUS
  <2>5. acts \in SUBSET Activities /\ T = WithActivities(S, acts)
    BY <1>4, <1>7, <2>1, <2>3, <2>4 DEF Lanes
  <2>6. /\ T.activities = acts /\ T.timers = S.timers
        /\ T.status = S.status /\ T.history = S.history /\ T.task = S.task
    BY <1>4, <2>5, ActivitiesAre
  <2>7. Expected(T, X)
    BY <1>3, <2>3, <2>4, <2>6, ReplaceExpected
  <2>8. Undisturbed(S, T, {})
    BY <2>6, UndisturbedItself
  <2> QED BY <1>3, <2>7, <2>8, UndisturbedTransitive
<1> QED BY <1>1, <1>5, <1>6, <1>7

LEMMA PollWorkflowExpected ==
  ASSUME WaitingInvariant, NEW x \in Workers, NEW due \in SUBSET lane.timers,
         NEW late \in SUBSET {w \in Roots : lane.status[w] = "RUNNING"},
         PollWorkflow(x, due, late)
  PROVE  Expected(lane', {}) /\ Undisturbed(lane, lane', {})
<1>1. PICK L, F, S, T, X :
        /\ L = lane /\ F = FireTimers(L, due) /\ S = ExpireWorkflows(F, late)
        /\ T = lane' /\ X = {}
  OBVIOUS
<1>2. /\ Good(L, X) /\ Good(L, {}) /\ L \in Lanes /\ Expected(L, X) /\ policy \in ChildPolicies
      /\ due \in SUBSET L.timers
  <2>1. Good(L, X) /\ L \in Lanes /\ Expected(L, X) /\ policy \in ChildPolicies
    BY <1>1, WaitingIs
  <2> QED BY <1>1, <2>1
<1>3. Good(F, {}) /\ Keeps(L, F) /\ F.status = L.status
  BY <1>1, <1>2, FireTimersGood
<1>4. Expected(F, X) /\ Undisturbed(L, F, {})
  BY <1>1, <1>2, FireTimersExpected
<1>5. late \in SUBSET Roots /\ \A w \in late : F.status[w] = "RUNNING"
  BY <1>1, <1>3
<1>6. Good(S, {}) /\ Keeps(F, S)
  BY <1>1, <1>2, <1>3, <1>5, ExpireWorkflowsGood
<1>7. Expected(S, X) /\ Undisturbed(F, S, {})
  <2>1. Good(F, X)
    BY <1>1, <1>3
  <2> QED BY <1>1, <1>2, <1>4, <1>5, <2>1, ExpireWorkflowsExpected
<1>8. Undisturbed(L, S, {}) /\ S \in Lanes
  BY <1>4, <1>6, <1>7, UndisturbedTransitive DEF Good
<1>9. \/ T = S
      \/ \E w \in Available(S) : T = WithTask(S, w, [lease |-> "held", token |-> x])
  BY <1>1 DEF PollWorkflow, WithTask
<1>10. CASE T = S
  BY <1>1, <1>7, <1>8, <1>10
<1>11. ASSUME NEW w \in Available(S), T = WithTask(S, w, [lease |-> "held", token |-> x])
       PROVE  Expected(T, X) /\ Undisturbed(L, T, {})
  <2>1. PICK t : t = [lease |-> "held", token |-> x]
    OBVIOUS
  <2>2. w \in Workflows /\ t # NoTask
    BY <2>1 DEF Available, NoTask
  <2>3. /\ T.task = [S.task EXCEPT ![w] = t] /\ T.history = S.history /\ T.status = S.status
        /\ T.timers = S.timers /\ T.activities = S.activities
    BY <1>8, <1>11, <2>1 DEF WithTask, Lanes
  <2>4. T.task[w] # NoTask /\ \A v \in Workflows \ {w} : T.task[v] = S.task[v]
    BY <1>8, <2>2, <2>3 DEF Lanes
  <2>5. Expected(T, X)
    BY <1>7, <2>3, SilentExpected
  <2>6. Undisturbed(S, T, {})
    BY <2>3, <2>4 DEF Undisturbed, Resting
  <2> QED BY <1>8, <2>5, <2>6, UndisturbedTransitive
<1> QED BY <1>1, <1>9, <1>10, <1>11

LEMMA WaitingPrimed ==
  ASSUME ReplayInvariant', Expected(lane', {}), Motive(lane', {})
  PROVE  WaitingInvariant'
<1>1. Expected(lane, {})'
  BY DEF Expected, Unanswered, ScheduledIn, AnsweredIn, Pending, CommandOf
<1>2. Motive(lane, {})'
  BY DEF Motive, Resting, Straight, Hidden, Unanswered, ScheduledIn, AnsweredIn
<1> QED BY <1>1, <1>2 DEF WaitingInvariant

LEMMA WaitingKept ==
  ASSUME WaitingInvariant, ReplayInvariant', Expected(lane', {}), Undisturbed(lane, lane', {})
  PROVE  WaitingInvariant'
<1>1. Motive(lane', {})
  BY MotiveKept DEF WaitingInvariant
<1> QED BY <1>1, WaitingPrimed

LEMMA WaitingInitially ==
  ASSUME WorkflowInit
  PROVE  WaitingInvariant
<1>1. ReplayInvariant
  BY ReplayInitially
<1>2. \A w \in Workflows : lane.status[w] = "none"
  BY DEF WorkflowInit
<1>3. Expected(lane, {}) /\ Motive(lane, {})
  BY <1>2 DEF Expected, Motive, Resting
<1> QED BY <1>1, <1>3 DEF WaitingInvariant

LEMMA WaitingSteps ==
  ASSUME WaitingInvariant, [WorkflowNext]_workflowVars
  PROVE  WaitingInvariant'
<1>0. ReplayInvariant'
  BY ReplaySteps DEF WaitingInvariant
<1>1. CASE lane' = lane
  <2>1. Undisturbed(lane, lane', {}) /\ Expected(lane', {})
    BY <1>1, UndisturbedItself DEF WaitingInvariant
  <2> QED BY <1>0, <2>1, WaitingKept
<1>2. ASSUME NEW w \in Workflows, StartWorkflow(w)
      PROVE  WaitingInvariant'
  BY <1>0, <1>2, StartWorkflowExpected, WaitingKept
<1>3. ASSUME NEW w \in Workflows, Terminate(w)
      PROVE  WaitingInvariant'
  BY <1>0, <1>3, TerminateExpected, WaitingKept
<1>4. ASSUME NEW w \in Workflows, NEW kind \in ExternalKinds, Send(w, kind)
      PROVE  WaitingInvariant'
  BY <1>0, <1>4, SendExpected, WaitingKept
<1>5. ASSUME NEW x \in Workers, PollsWorkflow(x)
      PROVE  WaitingInvariant'
  BY <1>0, <1>5, PollWorkflowExpected, WaitingKept DEF PollsWorkflow
<1>6. ASSUME NEW x \in Workers, CompleteWorkflow(x)
      PROVE  WaitingInvariant'
  BY <1>0, <1>6, CompleteWorkflowExpected, WaitingPrimed DEF WaitingInvariant
<1>7. ASSUME NEW x \in Workers, FailTask(x)
      PROVE  WaitingInvariant'
  BY <1>0, <1>7, FailTaskExpected, WaitingKept
<1>8. ASSUME NEW x \in Workers, NEW late \in SUBSET lane.activities, PollActivity(x, late)
      PROVE  WaitingInvariant'
  BY <1>0, <1>8, PollActivityExpected, WaitingKept
<1>9. ASSUME NEW x \in Workers, NEW result \in {"done", "failed"}, CompleteActivity(x, result)
      PROVE  WaitingInvariant'
  BY <1>0, <1>9, CompleteActivityExpected, WaitingKept
<1>10. ASSUME NEW x \in Workers, RetryActivity(x)
       PROVE  WaitingInvariant'
  BY <1>0, <1>10, RetryActivityExpected, WaitingPrimed
<1>11. ASSUME NEW x \in Workers, Heartbeat(x)
       PROVE  WaitingInvariant'
  <2>1. PICK a \in lane.activities :
          lane' = WithActivities(lane, (lane.activities \ {a}) \cup {[a EXCEPT !.lease = "held"]})
    BY <1>11 DEF Heartbeat, Held, WithActivities
  <2>2. "held" \in Leases
    BY DEF Leases
  <2> QED BY <1>0, <2>1, <2>2, LeaseExpected, WaitingKept
<1>12. ASSUME NEW x \in Workers, ExpireLease(x)
       PROVE  WaitingInvariant'
  BY <1>0, <1>12, ExpireLeaseExpected, WaitingKept
<1>13. ASSUME UNCHANGED workflowVars \/ \E x \in Workers : WorkerLost(x) \/ Refused(x)
       PROVE  lane' = lane
  BY <1>13 DEF workflowVars, WorkerLost, Refused
<1> QED BY <1>1, <1>2, <1>3, <1>4, <1>5, <1>6, <1>7, <1>8, <1>9, <1>10, <1>11, <1>12, <1>13
        DEF WorkflowNext

\* What is awaited (workflow.rs) is pending: a command that was asked for and has no
\* result has a timer, an activity or a running child, and a running workflow without
\* a task, whose history a replay reads as it was written, awaits one.
THEOREM WaitingInvariantHolds == WorkflowSpec => []WaitingInvariant
<1>1. WorkflowInit => WaitingInvariant
  BY WaitingInitially
<1>2. WaitingInvariant /\ [WorkflowNext]_workflowVars => WaitingInvariant'
  BY WaitingSteps
<1> QED BY <1>1, <1>2, PTL DEF WorkflowSpec

\* No wakeup of a workflow is lost (workflow.rs, complete_workflow): one that runs and
\* that no worker will be given, because its task was completed and none was made
\* since, awaits the result of a timer, an activity or a child that is still to come;
\* a result or another event that came while its worker replayed an older history
\* made a new task. The exceptions are the histories a replay cannot read on: the
\* completion of an update went astray, or an event hides an activity's result.
THEOREM WaitingCorrect == WorkflowSpec => []WaitingHasReason
<1>1. WaitingInvariant => WaitingHasReason
  <2>1. SUFFICES ASSUME WaitingInvariant, NEW w \in Workflows, lane.status[w] = "RUNNING",
                        lane.task[w] = NoTask, ~UpdateAstray(w), ~ResultHidden(w)
                 PROVE  \E c \in 1 .. Len(Programs[w]) :
                          \/ <<w, c>> \in lane.timers
                          \/ \E a \in lane.activities : a.workflow = w /\ a.command = c
                          \/ Programs[w][c] \in Workflows /\ lane.status[Programs[w][c]] = "RUNNING"
    BY DEF WaitingHasReason
  <2>2. PICK h : h = lane.history[w]
    OBVIOUS
  <2>3. Straight(h)
    <3>1. \A k \in 2 .. Len(h) : ~(h[k].type = "updated" /\ h[k - 1] # E("update", h[k].command))
      BY <2>1, <2>2 DEF UpdateAstray
    <3> QED BY <3>1 DEF Straight
  <2>4. ~Hidden(h)
    BY <2>1, <2>2 DEF ResultHidden, Hidden
  <2>5. PICK c \in Nat : Unanswered(h, c)
    BY <2>1, <2>2, <2>3, <2>4 DEF WaitingInvariant, Motive, Resting
  <2>6. Pending(lane, w, c)
    BY <2>1, <2>2, <2>5 DEF WaitingInvariant, Expected
  <2>7. c \in 1 .. Len(Programs[w])
    <3>1. Ordered(w, h)
      BY <2>1, <2>2 DEF WaitingInvariant, ReplayInvariant, Orderly
    <3>2. PICK p \in 1 .. Len(h) : h[p] = E("scheduled", c)
      BY <2>5 DEF Unanswered, ScheduledIn
    <3>3. Fits(w, h, p - 1, h[p])
      BY <3>1 DEF Ordered
    <3>4. About(h[p]) /\ h[p].command = c
      BY <3>2, PlainAnswers DEF About
    <3> QED BY <3>3, <3>4 DEF Fits
  <2>8. ASSUME NEW v \in Workflows, Parent[v] = w, CommandOf(v) = c, lane.status[v] = "RUNNING"
        PROVE  Programs[w][c] \in Workflows /\ lane.status[Programs[w][c]] = "RUNNING"
    <3>1. Programs[w][c] = v
      BY <2>1, <2>8, CommandOfIs
    <3> QED BY <2>8, <3>1
  <2> QED BY <2>6, <2>7, <2>8 DEF Pending
<1> QED BY <1>1, WaitingInvariantHolds, PTL
=============================================================================
