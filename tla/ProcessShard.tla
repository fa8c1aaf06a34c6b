--------------------------- MODULE ProcessShard ---------------------------
(***************************************************************************)
(* The executions of one direct-ingress process on one partition           *)
(* (process.rs, maintenance.rs): admission, dispatch by key, activation    *)
(* grants, completion, retries, quarantine, recovery of lost grants, the   *)
(* return of grants by a transfer, and finalization of keys.               *)
(*                                                                         *)
(* Every action is one transaction of the partition's lane and is atomic,  *)
(* which is what ObjectJournal shows for a transaction that its runtime's  *)
(* background synchronisation leaves alone.  PartitionOwnership says which *)
(* runtime may run them.                                                   *)
(*                                                                         *)
(* The fields of a shard keep their names in the code.  A grant is the     *)
(* ProcessBatchLease record and what the worker remembers of it: workers   *)
(* may complete or renew any grant they ever got, at any time.             *)
(*                                                                         *)
(* The limits are those of the process record on lane 0.  Registering the  *)
(* process again replaces them at any time, under whatever the partition   *)
(* holds, and dispatches nothing.                                          *)
(***************************************************************************)
EXTENDS PartitionOwnership, Integers, Sequences, FiniteSets

CONSTANTS
  Events,             \* events clients send, each under its own event_id
  KeyOf,              \* [Events -> process key]
  Registrations,      \* the limits clients register the process with
  MaxIngress,         \* bound: events of one ingress batch
  MaxGrants           \* bound: activations granted in a behaviour

\* The clients of a behaviour send finitely many events.
ASSUME EventsAssumption == IsFiniteSet(Events)
ASSUME BoundsAssumption == {MaxIngress, MaxGrants} \subseteq Nat

\* The limits of a process as they fall to one partition: its share of
\* max_concurrent_keys, retry_concurrency and mailbox_capacity, the executions
\* of one activation, and the attempts before quarantine.  None may be zero.
Limits == [concurrency : Nat \ {0}, retry_concurrency : Nat \ {0},
           capacity : Nat \ {0}, batch_max_size : Nat \ {0},
           max_attempts : Nat \ {0}]

ASSUME RegistrationsAssumption == Registrations \subseteq Limits

VARIABLES
  limits,        \* those of the latest registration
  shard,         \* ProcessShardState
  mailbox,       \* events waiting for dispatch
  ready,         \* started events no grant holds
  execution,     \* [Events -> sequence, attempt and prior state of an event]
  outcome,       \* [Events -> its ProcessExecutionOutcome]
  grants,        \* the grants, in the order of their activation sequence
  transitions,   \* [keys -> the committed transitions, in order]
  finalized      \* keys with a finality marker

processVars == <<limits, shard, mailbox, ready, execution, outcome, grants,
                 transitions, finalized>>
vars == <<ownershipVars, processVars>>

-----------------------------------------------------------------------------
(* Values *)

Concurrency == limits.concurrency
RetryConcurrency == limits.retry_concurrency
Capacity == limits.capacity
BatchMaxSize == limits.batch_max_size
MaxAttempts == limits.max_attempts

ProcessKeys == {KeyOf[e] : e \in Events}
KeysOf(E) == {KeyOf[e] : e \in E}

ShardState == [pending : Nat, running : Nat, retry_pending : Nat,
               retry_running : Nat, completed : Nat, failed : Nat,
               next_sequence : Nat, active_keys : SUBSET ProcessKeys]

Execution == [sequence : Nat, attempt : Nat, prior : Nat]
Outcomes == {"none", "PENDING", "COMMITTED", "FAILED"}

\* A grant is open while its lease record exists.
Grant == [epoch : Nat, events : SUBSET Events, expired : BOOLEAN,
          status : {"open", "completed", "revoked"}]
Transition == [event : Events, prior : Nat, grant : Nat]

Open == {g \in 1..Len(grants) : grants[g].status = "open"}
Leased == UNION {grants[g].events : g \in Open}
InFlight == ready \cup Leased
Retries(E) == {e \in E : execution[e].attempt > 0}

\* The state of a key names the input_sequence of its last transition.
StateIn(trans, key) ==
  IF trans[key] = <<>> THEN 0
  ELSE execution[trans[key][Len(trans[key])].event].sequence

\* saturating_sub
Minus(a, b) == IF b <= a THEN a - b ELSE 0

\* The n events of E that come first by sequence.
First(n, E, exec) ==
  {e \in E : Cardinality({d \in E : exec[d].sequence < exec[e].sequence}) < n}

-----------------------------------------------------------------------------
\* The process has been registered; a partition without a state record has the
\* default one.
InitProcess ==
  /\ limits \in Registrations
  /\ shard = [pending |-> 0, running |-> 0, retry_pending |-> 0,
              retry_running |-> 0, completed |-> 0, failed |-> 0,
              next_sequence |-> 0, active_keys |-> {}]
  /\ mailbox = {}
  /\ ready = {}
  /\ execution = [e \in Events |-> [sequence |-> 0, attempt |-> 0, prior |-> 0]]
  /\ outcome = [e \in Events |-> "none"]
  /\ grants = <<>>
  /\ transitions = [k \in ProcessKeys |-> <<>>]
  /\ finalized = {}

Init == InitOwnership /\ InitProcess

-----------------------------------------------------------------------------
(* Registration *)

\* create_process for a process that exists: a transaction of lane 0, which
\* looks at no partition.
Reregister(l) ==
  /\ l \in Registrations
  /\ limits' = l
  /\ UNCHANGED <<ownershipVars, shard, mailbox, ready, execution, outcome,
                 grants, transitions, finalized>>

-----------------------------------------------------------------------------
(* Dispatch *)

\* Mutant: a key that is already active may be started again.
DispatchableTwice(s, box, exec) ==
  LET window == First(Concurrency, box, exec)
      heads == {e \in window : \A d \in window :
                  KeyOf[d] = KeyOf[e] => exec[d].sequence >= exec[e].sequence}
  IN First(Concurrency - s.running, heads, exec)

\* Of E, the first of each key that is not active, while slots are free.
Startable(s, E, exec) ==
  First(Concurrency - s.running,
        {e \in E : /\ KeyOf[e] \notin s.active_keys
                   /\ \A d \in E :
                        KeyOf[d] = KeyOf[e] => exec[d].sequence >= exec[e].sequence},
        exec)

\* dispatch_sharded_process looks at as many items of the mailbox as may run.
Dispatchable(s, box, exec) == Startable(s, First(Concurrency, box, exec), exec)

WithStarted(s, E) ==
  [s EXCEPT !.pending = Minus(@, Cardinality(E)),
            !.running = @ + Cardinality(E),
            !.active_keys = @ \cup KeysOf(E)]

\* Mutant: the state is read as it was before the transaction.
WithStalePrior(exec, E, trans) ==
  [e \in Events |-> IF e \in E
                    THEN [exec[e] EXCEPT !.prior = StateIn(transitions, KeyOf[e])]
                    ELSE exec[e]]

\* An execution carries the state its key has when it starts.
WithPrior(exec, E, trans) ==
  [e \in Events |-> IF e \in E
                    THEN [exec[e] EXCEPT !.prior = StateIn(trans, KeyOf[e])]
                    ELSE exec[e]]

\* Mutant: dispatch decides by the shard as the transaction read it.
DispatchAfterRead(s, box, exec, rdy, trans) ==
  LET started == Dispatchable(shard, box, exec) IN
  /\ shard' = WithStarted(s, started)
  /\ mailbox' = box \ started
  /\ ready' = rdy \cup started
  /\ execution' = WithPrior(exec, started, trans)
  /\ transitions' = trans

\* The end of every transaction that frees or fills the shard.
DispatchAfter(s, box, exec, rdy, trans) ==
  LET started == Dispatchable(s, box, exec) IN
  /\ shard' = WithStarted(s, started)
  /\ mailbox' = box \ started
  /\ ready' = rdy \cup started
  /\ execution' = WithPrior(exec, started, trans)
  /\ transitions' = trans

-----------------------------------------------------------------------------
(* Admission *)

IngressBatches ==
  UNION {{b \in [1..n -> Events] : \A i, j \in 1..n : b[i] = b[j] => i = j} :
         n \in 1..MaxIngress}

\* Mutant: retries do not count against the capacity.
LoadWithoutRetries(s) == s.pending + s.running

Load(s) == s.pending + s.running + s.retry_pending + s.retry_running

\* The events of a batch that have not been admitted before, and the executions
\* once these have the next sequences in batch order.
NewEvents(batch) ==
  {e \in Events : outcome[e] = "none" /\ \E i \in 1..Len(batch) : batch[i] = e}

Numbered(batch) ==
  LET events == NewEvents(batch)
      place(e) == CHOOSE i \in 1..Len(batch) : batch[i] = e
      rank(e) == Cardinality({d \in events : place(d) <= place(e)})
  IN [e \in Events |->
        IF e \in events
        THEN [execution[e] EXCEPT !.sequence = shard.next_sequence + rank(e)]
        ELSE execution[e]]

\* append_process_shard_records: an event already admitted is a duplicate; of the
\* others the first of each inactive key starts at once while there is room,
\* whatever the mailbox holds.  One finalized key, or too many events, rejects
\* the batch.
Ingress(r, batch) ==
  LET events == NewEvents(batch)
      exec == Numbered(batch)
      direct == Startable(shard, events, exec)
      queued == events \ direct
      admitted == [shard EXCEPT
                     !.pending = @ + Cardinality(queued),
                     !.running = @ + Cardinality(direct),
                     !.active_keys = @ \cup KeysOf(direct),
                     !.next_sequence = @ + Cardinality(events)]
      box == mailbox \cup queued
      started == IF admitted.pending > 0 THEN Dispatchable(admitted, box, exec)
                 ELSE {}
  IN
  /\ stage[r] = "serving"
  /\ Owns(r)
  /\ Load(shard) + Cardinality(events) <= Capacity
  /\ KeysOf(events) \cap finalized = {}
  /\ shard' = WithStarted(admitted, started)
  /\ mailbox' = box \ started
  /\ ready' = ready \cup direct \cup started
  /\ execution' = WithPrior(exec, direct \cup started, transitions)
  /\ outcome' = [e \in Events |-> IF e \in events THEN "PENDING" ELSE outcome[e]]
  /\ UNCHANGED <<ownershipVars, limits, grants, transitions, finalized>>

\* Mutant: the mailbox is not searched.
FinalizeInactive(r, key) ==
  /\ stage[r] = "serving"
  /\ Owns(r)
  /\ key \notin finalized
  /\ key \notin shard.active_keys
  /\ finalized' = finalized \cup {key}
  /\ UNCHANGED <<ownershipVars, limits, shard, mailbox, ready, execution,
                 outcome, grants, transitions>>

\* finalize_process_key_transaction: refused while the key has work.
Finalize(r, key) ==
  /\ stage[r] = "serving"
  /\ Owns(r)
  /\ key \notin finalized
  /\ key \notin shard.active_keys
  /\ \A e \in mailbox : KeyOf[e] # key
  /\ finalized' = finalized \cup {key}
  /\ UNCHANGED <<ownershipVars, limits, shard, mailbox, ready, execution,
                 outcome, grants, transitions>>

-----------------------------------------------------------------------------
(* Grants *)

\* poll_process_partition.  A retry whose backoff is not over is not a
\* candidate; a retry past the free retry slots is skipped.  What the poll
\* waits for to fill the batch is left to the choice of when it is taken.
Poll(r) ==
  \E candidates \in SUBSET ready :
    LET retries == Retries(candidates)
        slots == Minus(RetryConcurrency, shard.retry_running)
        admitted == (candidates \ retries) \cup First(slots, retries, execution)
        selected == First(BatchMaxSize, admitted, execution)
        selectedRetries == Cardinality(Retries(selected))
    IN
    /\ stage[r] = "serving"
    /\ Owns(r)
    /\ Len(grants) < MaxGrants
    /\ ready \ candidates \subseteq Retries(ready)
    /\ selected # {}
    /\ ready' = ready \ selected
    /\ shard' = [shard EXCEPT
                   !.retry_pending = Minus(@, selectedRetries),
                   !.retry_running = @ + selectedRetries]
    /\ grants' = Append(grants, [epoch |-> owner.epoch, events |-> selected,
                                 expired |-> FALSE, status |-> "open"])
    /\ UNCHANGED <<ownershipVars, limits, mailbox, execution, outcome,
                   transitions, finalized>>

ExpireGrant(g) ==
  /\ g \in Open
  /\ ~grants[g].expired
  /\ grants' = [grants EXCEPT ![g].expired = TRUE]
  /\ UNCHANGED <<ownershipVars, limits, shard, mailbox, ready, execution,
                 outcome, transitions, finalized>>

\* renew_process_partition_lease
RenewGrant(r, g) ==
  /\ stage[r] = "serving"
  /\ Owns(r)
  /\ g \in Open
  /\ grants[g].epoch = owner.epoch
  /\ grants' = [grants EXCEPT ![g].expired = FALSE]
  /\ UNCHANGED <<ownershipVars, limits, shard, mailbox, ready, execution,
                 outcome, transitions, finalized>>

\* Mutant: the lease record is kept under a status of its own.
CloseGrantKept(g, status) == grants' = [grants EXCEPT ![g].status = "closed"]

\* The lease record is deleted, if it is still there.
CloseGrant(g, status) ==
  grants' = IF g \in Open
            THEN [grants EXCEPT ![g].status = status, ![g].expired = FALSE]
            ELSE grants

-----------------------------------------------------------------------------
(* Results *)

\* finish_sharded_process_execution for the events in succeeded,
\* retry_or_quarantine_sharded_execution for the others of the grant, then
\* dispatch.
Settle(g, succeeded) ==
  LET events == grants[g].events
      failures == events \ succeeded
      quarantined == {e \in failures : execution[e].attempt + 1 >= MaxAttempts}
      retried == failures \ quarantined
      isolated == Cardinality(Retries(events))
      settled == [shard EXCEPT
                    !.running = Minus(@, Cardinality(events) - isolated),
                    !.retry_running = Minus(@, isolated),
                    !.retry_pending = @ + Cardinality(retried),
                    !.completed = @ + Cardinality(succeeded),
                    !.failed = @ + Cardinality(quarantined),
                    !.active_keys = @ \ KeysOf(succeeded \cup quarantined)]
      exec == [e \in Events |->
                 IF e \in failures
                 THEN [execution[e] EXCEPT !.attempt = @ + 1] ELSE execution[e]]
      trans == [k \in ProcessKeys |->
                  IF k \in KeysOf(succeeded)
                  THEN LET e == CHOOSE e \in succeeded : KeyOf[e] = k IN
                       Append(transitions[k],
                              [event |-> e, prior |-> execution[e].prior,
                               grant |-> g])
                  ELSE transitions[k]]
  IN
  /\ outcome' = [e \in Events |->
                   CASE e \in succeeded   -> "COMMITTED"
                     [] e \in quarantined -> "FAILED"
                     [] OTHER             -> outcome[e]]
  /\ DispatchAfter(settled, mailbox, exec, ready \cup retried, trans)
  /\ UNCHANGED <<ownershipVars, limits, finalized>>

\* Mutant: a completion is checked against its token and generation, but not
\* against the lease record.
CompleteWithoutLease(r, g) ==
  /\ stage[r] = "serving"
  /\ Owns(r)
  /\ grants[g].epoch = owner.epoch
  /\ \E succeeded \in SUBSET grants[g].events : Settle(g, succeeded)
  /\ CloseGrant(g, "completed")

\* complete_process_partition.  An item without a valid transition fails the
\* transaction and changes nothing.
Complete(r, g) ==
  /\ stage[r] = "serving"
  /\ Owns(r)
  /\ g \in Open
  /\ grants[g].epoch = owner.epoch
  /\ \E succeeded \in SUBSET grants[g].events : Settle(g, succeeded)
  /\ CloseGrant(g, "completed")

\* Mutant: only a start recovers grants.
RecoverGrantAtStart(r, g) ==
  /\ Owns(r)
  /\ g \in Open
  /\ stage[r] = "recovering"
  /\ grants[g].expired \/ grants[g].epoch # owner.epoch
  /\ Settle(g, {})
  /\ CloseGrant(g, "revoked")

\* One turn of recover_process_tasks.  Its transaction takes the grants that
\* have expired, and at a start those of other generations, one after another;
\* a state between two turns is one a pass over fewer expired grants ends in.
RecoverGrant(r, g) ==
  /\ Owns(r)
  /\ g \in Open
  /\ \/ stage[r] \in {"recovering", "serving"} /\ grants[g].expired
     \/ stage[r] = "recovering" /\ grants[g].epoch # owner.epoch
  /\ Settle(g, {})
  /\ CloseGrant(g, "revoked")

\* The pass at a start ends, and the partition loops begin.
RecoverAtStart(r) ==
  /\ RecoveredAtStart(r)
  /\ Owns(r) => \A g \in Open : grants[g].epoch = owner.epoch
  /\ UNCHANGED processVars

\* Mutant: the lease records are left in place.
ReturnGrantsKeptOpen(r) ==
  LET retries == Cardinality(Retries(Leased)) IN
  /\ ReturnedLeases(r)
  /\ ready' = InFlight
  /\ shard' = [shard EXCEPT !.retry_running = Minus(@, retries),
                            !.retry_pending = @ + retries]
  /\ UNCHANGED <<limits, mailbox, execution, outcome, grants, transitions,
                 finalized>>

\* Mutant: returned retries still count as running.
ReturnGrantsUncounted(r) ==
  /\ ReturnedLeases(r)
  /\ ready' = InFlight
  /\ grants' = [g \in 1..Len(grants) |->
                  IF g \in Open THEN [grants[g] EXCEPT !.status = "revoked",
                                                       !.expired = FALSE]
                  ELSE grants[g]]
  /\ UNCHANGED <<limits, shard, mailbox, execution, outcome, transitions,
                 finalized>>

\* The second transaction of a transfer returns every grant of the partition to
\* the ready queue, without counting an attempt.
ReturnGrants(r) ==
  LET retries == Cardinality(Retries(Leased)) IN
  /\ ReturnedLeases(r)
  /\ ready' = InFlight
  /\ shard' = [shard EXCEPT !.retry_running = Minus(@, retries),
                            !.retry_pending = @ + retries]
  /\ grants' = [g \in 1..Len(grants) |->
                  IF g \in Open THEN [grants[g] EXCEPT !.status = "revoked",
                                                       !.expired = FALSE]
                  ELSE grants[g]]
  /\ UNCHANGED <<limits, mailbox, execution, outcome, transitions, finalized>>

-----------------------------------------------------------------------------
Serve(r) ==
  \/ \E batch \in IngressBatches : Ingress(r, batch)
  \/ \E key \in ProcessKeys : Finalize(r, key)
  \/ Poll(r)
  \/ \E g \in 1..Len(grants) :
       RenewGrant(r, g) \/ Complete(r, g) \/ RecoverGrant(r, g)
  \/ RecoverAtStart(r)
  \/ ReturnGrants(r)

Next ==
  \/ \E r \in Runtimes : Serve(r)
  \/ \E r \in Runtimes : OwnershipStep(r) /\ UNCHANGED processVars
  \/ Lapse /\ UNCHANGED processVars
  \/ \E g \in 1..Len(grants) : ExpireGrant(g)
  \/ \E l \in Registrations : Reregister(l)

Spec == Init /\ [][Next]_vars

\* The owner's maintenance loop is renewing its lease.
Renewed == /\ Assigned
           /\ owner.status = "ACTIVE"
           /\ stage[owner.runtime] = "serving"

\* Some runtime starts and stays up, and its loops keep running.  A lease that
\* is not renewed lapses; from some point on one that is renewed does not, and no
\* worker renews a grant for ever.  Nothing is asked of completions: every grant
\* may be left to expire.
Fairness ==
  /\ \E r \in Runtimes :
       <>[](stage[r] \in {"acquiring", "recovering", "serving"})
  /\ \A r \in Runtimes :
       /\ WF_vars(OwnershipStart(r) /\ UNCHANGED processVars)
       /\ WF_vars(RecoverAtStart(r))
       /\ WF_vars(Poll(r))
       /\ WF_vars(\E g \in 1..Len(grants) : RecoverGrant(r, g))
  /\ WF_vars(Lapse /\ ~Renewed /\ UNCHANGED processVars)
  /\ WF_vars(\E g \in 1..Len(grants) : ExpireGrant(g))
  /\ <>[][/\ Lapse => ~Renewed
          /\ \A r \in Runtimes, g \in 1..Len(grants) : ~RenewGrant(r, g)]_vars

FairSpec == Spec /\ Fairness

-----------------------------------------------------------------------------
(* Properties *)

TypeOK ==
  /\ OwnershipTypeOK
  /\ limits \in Registrations
  /\ shard \in ShardState
  /\ mailbox \subseteq Events
  /\ ready \subseteq Events
  /\ execution \in [Events -> Execution]
  /\ outcome \in [Events -> Outcomes]
  /\ grants \in Seq(Grant)
  /\ transitions \in [ProcessKeys -> Seq(Transition)]
  /\ finalized \subseteq ProcessKeys

\* Nothing admitted is lost or doubled: an event whose outcome is PENDING is in
\* the mailbox, ready, or in one open grant, and in only one of them, through
\* lost grants, restarts and transfers; an event with another outcome is in none.
EveryPendingEventIsHeldOnce ==
  /\ {e \in Events : outcome[e] = "PENDING"} = mailbox \cup InFlight
  /\ mailbox \cap InFlight = {}
  /\ ready \cap Leased = {}
  /\ \A g, h \in Open : g # h => grants[g].events \cap grants[h].events = {}

\* One execution of a key at a time, and active_keys is exactly the keys that
\* have one: a key left behind would never run again, a key missing would run
\* twice.
ActiveKeysAreInFlight ==
  /\ shard.active_keys = KeysOf(InFlight)
  /\ \A e, d \in InFlight : KeyOf[e] = KeyOf[d] => e = d

\* The counters admission, dispatch and polling decide by are the sizes of what
\* they count, although every decrement saturates.
CountersMatch ==
  /\ shard.pending = Cardinality(mailbox)
  /\ shard.running = Cardinality(InFlight \ Retries(InFlight))
  /\ shard.retry_pending = Cardinality(Retries(ready))
  /\ shard.retry_running = Cardinality(Retries(Leased))
  /\ shard.completed = Cardinality({e \in Events : outcome[e] = "COMMITTED"})
  /\ shard.failed = Cardinality({e \in Events : outcome[e] = "FAILED"})

\* The process takes up more events, runs more first attempts, or more retries,
\* only up to the limit in force: one that was lowered below what the partition
\* holds or runs is approached from above, and never added to.
KeepsToLimits ==
  /\ Cardinality(mailbox \cup InFlight)' > Cardinality(mailbox \cup InFlight)
       => Cardinality(mailbox \cup InFlight)' <= Capacity
  /\ Cardinality(InFlight \ Retries(InFlight))'
       > Cardinality(InFlight \ Retries(InFlight))
       => Cardinality(InFlight \ Retries(InFlight))' <= Concurrency
  /\ Cardinality(Retries(Leased))' > Cardinality(Retries(Leased))
       => Cardinality(Retries(Leased))' <= RetryConcurrency

\* No transaction adds to a partition beyond the limits in force, however often
\* the process was registered again while it ran.
LimitsAreRespected == [][KeepsToLimits]_vars

\* The first event of the mailbox does not wait without reason: its key has an
\* execution, or all slots are taken.
FirstWaiterHasReason ==
  \A e \in First(1, mailbox, execution) :
    KeyOf[e] \in shard.active_keys \/ shard.running >= Concurrency

\* A transaction that disturbs what dispatch decides by leaves no first waiter
\* without reason.  Dispatch looks at a part of the mailbox only, and only in
\* transactions that free or fill the shard: an event they pass over waits for
\* the next one.  (A registration that raises the concurrency dispatches
\* nothing; the slots it frees are taken with the next result or admission.)
LeavesReason ==
  \/ UNCHANGED <<mailbox, shard.running, shard.active_keys>>
  \/ FirstWaiterHasReason'

\* Whatever is admitted, completed, retried, recovered or transferred, under
\* whatever limits: the transaction that disturbs a shard serves its first waiter.
FirstWaiterIsServed == [][LeavesReason]_vars

\* There is such a next one: while events wait, something is in flight, whose
\* result or loss dispatches again, whatever limits were registered meanwhile.
WaitersHaveAnExecution == mailbox # {} => InFlight # {}

\* No lost update: a transition was computed from the state the transition
\* before it left, however many attempts and owners it took.
TransitionsFollow ==
  \A k \in ProcessKeys : \A i \in 1..Len(transitions[k]) :
    transitions[k][i].prior =
      IF i = 1 THEN 0 ELSE execution[transitions[k][i - 1].event].sequence

\* An event changes the state of its key at most once, and exactly when its
\* outcome says COMMITTED.
OneTransitionPerEvent ==
  \A e \in Events :
    LET at == {i \in 1..Len(transitions[KeyOf[e]]) :
                 transitions[KeyOf[e]][i].event = e}
    IN Cardinality(at) = IF outcome[e] = "COMMITTED" THEN 1 ELSE 0

\* "Once revocation commits, the old token and generation are fenced and every
\* later completion fails."
RevokedGrantsNeverCommit ==
  \A k \in ProcessKeys : \A i \in 1..Len(transitions[k]) :
    grants[transitions[k][i].grant].status = "completed"

\* A finalized key has no work and gets none.
FinalizedKeysAreQuiet ==
  \A e \in Events : KeyOf[e] \in finalized => outcome[e] # "PENDING"

\* "Events for one Process key commit in mailbox order."  The code breaks it:
\* an ingress batch starts an event of an inactive key at once, although an
\* earlier event of the key still waits in the mailbox.
CommitsAreInMailboxOrder ==
  \A k \in ProcessKeys : \A i, j \in 1..Len(transitions[k]) :
    i < j => execution[transitions[k][i].event].sequence
               < execution[transitions[k][j].event].sequence

\* Every admitted event reaches a terminal outcome.
EveryEventIsDecided ==
  \A e \in Events :
    outcome[e] = "PENDING" ~> outcome[e] \in {"COMMITTED", "FAILED"}

-----------------------------------------------------------------------------
(* The inductive invariant of the grants *)

\* A committed transition names a grant, and one that was completed.
TransitionsNameCompletedGrants ==
  \A k \in ProcessKeys : \A i \in 1..Len(transitions[k]) :
    /\ transitions[k][i].grant \in 1..Len(grants)
    /\ grants[transitions[k][i].grant].status = "completed"

GrantInv == TypeOK /\ TransitionsNameCompletedGrants

=============================================================================
