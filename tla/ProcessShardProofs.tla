------------------------- MODULE ProcessShardProofs -------------------------
(***************************************************************************)
(* Proofs about PartitionOwnership and ProcessShard, for any runtimes,     *)
(* nodes, events, keys, limits and bounds.                                 *)
(***************************************************************************)
EXTENDS ProcessShard, FiniteSetTheorems, SequenceTheorems, TLAPS

-----------------------------------------------------------------------------
(* The owner record *)

\* An activation takes a generation nobody has had.
LEMMA ActivateInv ==
  ASSUME OwnershipInv, NEW r \in Runtimes, Activate(r)
  PROVE  /\ owner' \in Owner
         /\ activated' \subseteq (1..MaxEpoch) \X Runtimes
         /\ ActivatedEpochsArePast'
         /\ OneRuntimePerEpoch'
<1>1. owner.epoch \in 0..MaxEpoch /\ owner.epoch < MaxEpoch
  BY MaxEpochAssumption
     DEF Activate, OwnershipInv, OwnershipTypeOK, Owner, NoOwner
<1>2. PICK new : new = owner.epoch + 1
  OBVIOUS
<1>3. new \in 1..MaxEpoch
  BY <1>1, <1>2, MaxEpochAssumption
<1>4. /\ owner' = [runtime |-> r, node |-> NodeOf[r], epoch |-> new,
                   status |-> "ACTIVE", live |-> TRUE]
      /\ activated' = activated \cup {<<new, r>>}
  BY <1>2 DEF Activate
<1>5. \A a \in activated : a \in (1..MaxEpoch) \X Runtimes /\ a[1] < new
  <2> SUFFICES ASSUME NEW a \in activated
               PROVE  a \in (1..MaxEpoch) \X Runtimes /\ a[1] < new
    OBVIOUS
  <2>1. a \in (1..MaxEpoch) \X Runtimes
    BY DEF OwnershipInv, OwnershipTypeOK
  <2>2. a[1] \in 1..MaxEpoch /\ a[1] <= owner.epoch
    BY <2>1 DEF OwnershipInv, ActivatedEpochsArePast
  <2> QED BY <2>1, <2>2, <1>1, <1>2, MaxEpochAssumption
<1>6. owner' \in Owner
  BY <1>3, <1>4, MaxEpochAssumption DEF Owner, Nodes, Statuses
<1>7. activated' \subseteq (1..MaxEpoch) \X Runtimes
  BY <1>3, <1>4, <1>5
<1>8. ActivatedEpochsArePast'
  <2>1. owner'.epoch = new
    BY <1>4
  <2>2. \A a \in activated' : a[1] <= new
    BY <1>3, <1>4, <1>5, MaxEpochAssumption
  <2> QED BY <2>1, <2>2 DEF ActivatedEpochsArePast
<1>9. OneRuntimePerEpoch'
  <2> SUFFICES ASSUME NEW a \in activated', NEW b \in activated', a[1] = b[1]
               PROVE  a = b
    BY DEF OneRuntimePerEpoch
  <2>1. CASE a \in activated /\ b \in activated
    BY <2>1 DEF OwnershipInv, OneRuntimePerEpoch
  <2>2. CASE a = <<new, r>> /\ b = <<new, r>>
    BY <2>2
  <2>3. CASE a = <<new, r>> /\ b \in activated
    <3>1. a[1] = new
      BY <2>3
    <3> QED BY <2>3, <3>1, <1>3, <1>5, MaxEpochAssumption
  <2>4. CASE a \in activated /\ b = <<new, r>>
    <3>1. b[1] = new
      BY <2>4
    <3> QED BY <2>4, <3>1, <1>3, <1>5, MaxEpochAssumption
  <2> QED BY <2>1, <2>2, <2>3, <2>4, <1>4
<1> QED BY <1>6, <1>7, <1>8, <1>9

\* A step that activates nothing and keeps or raises the epoch.
LEMMA KeptActivations ==
  ASSUME OwnershipInv, OwnershipTypeOK', activated' = activated,
         owner'.epoch \in {owner.epoch, owner.epoch + 1}
  PROVE  OwnershipInv'
<1>1. owner.epoch \in 0..MaxEpoch
  BY MaxEpochAssumption DEF OwnershipInv, OwnershipTypeOK, Owner, NoOwner
<1>2. \A a \in activated : a[1] \in Nat /\ a[1] <= owner.epoch
  <2> SUFFICES ASSUME NEW a \in activated
               PROVE  a[1] \in Nat /\ a[1] <= owner.epoch
    OBVIOUS
  <2>1. a \in (1..MaxEpoch) \X Runtimes
    BY DEF OwnershipInv, OwnershipTypeOK
  <2> QED BY <2>1, MaxEpochAssumption DEF OwnershipInv, ActivatedEpochsArePast
<1>3. ActivatedEpochsArePast'
  BY <1>1, <1>2, MaxEpochAssumption DEF ActivatedEpochsArePast
<1>4. OneRuntimePerEpoch'
  BY DEF OwnershipInv, OneRuntimePerEpoch
<1> QED BY <1>3, <1>4 DEF OwnershipInv

\* Every step of the owner record and its runtimes preserves the invariant.
LEMMA OwnershipStepInv ==
  ASSUME OwnershipInv, [NextOwnership]_ownershipVars
  PROVE  OwnershipInv'
<1> USE DEF OwnershipTypeOK
<1>0. /\ OwnershipTypeOK
      /\ owner.epoch \in 0..MaxEpoch
  BY MaxEpochAssumption DEF OwnershipInv, Owner, NoOwner
<1>1. ASSUME NEW r \in Runtimes, Start(r) \/ RecoveredAtStart(r)
      PROVE  OwnershipInv'
  <2>1. OwnershipTypeOK' /\ UNCHANGED <<owner, activated>>
    BY <1>0, <1>1 DEF Start, RecoveredAtStart, Stages
  <2> QED BY <2>1, KeptActivations
<1>2. ASSUME NEW r \in Runtimes, AcquireAtStart(r)
      PROVE  OwnershipInv'
  <2>1. stage' \in [Runtimes -> Stages] /\ transfer' = transfer
    BY <1>0, <1>2 DEF AcquireAtStart, Stages
  <2>2. CASE Activate(r)
    BY <1>0, <2>1, <2>2, ActivateInv DEF OwnershipInv
  <2>3. CASE UNCHANGED <<owner, activated>>
    BY <1>0, <2>1, <2>3, KeptActivations
  <2> QED BY <1>2, <2>2, <2>3 DEF AcquireAtStart
<1>3. ASSUME NEW r \in Runtimes, Acquire(r)
      PROVE  OwnershipInv'
  BY <1>0, <1>3, ActivateInv DEF Acquire, OwnershipInv
<1>4. ASSUME NEW r \in Runtimes, RenewOwner(r)
      PROVE  OwnershipInv'
  <2>1. owner \in Owner
    BY <1>0, <1>4 DEF RenewOwner, ActiveAt, Assigned
  <2>2. owner' \in Owner /\ owner'.epoch = owner.epoch
    BY <1>4, <2>1 DEF RenewOwner, Owner
  <2>3. UNCHANGED <<stage, transfer, activated>>
    BY <1>4 DEF RenewOwner
  <2> QED BY <1>0, <2>2, <2>3, KeptActivations
<1>5. ASSUME NEW r \in Runtimes, Crash(r)
      PROVE  OwnershipInv'
  <2>1. OwnershipTypeOK' /\ UNCHANGED <<owner, activated>>
    BY <1>0, <1>5 DEF Crash, Stages
  <2> QED BY <2>1, KeptActivations
<1>6. ASSUME NEW r \in Runtimes, NEW target \in Nodes, Drain(r, target)
      PROVE  OwnershipInv'
  <2>1. owner \in Owner
    BY <1>0, <1>6 DEF Drain, ActiveAt, Assigned
  <2>2. owner' \in Owner /\ owner'.epoch = owner.epoch
    BY <1>6, <2>1 DEF Drain, Owner, Statuses
  <2>3. transfer' \in [Runtimes -> Transfer \cup {NoTransfer}]
    BY <1>0, <1>6, <2>1 DEF Drain, Transfer
  <2>4. UNCHANGED <<stage, activated>>
    BY <1>6 DEF Drain
  <2> QED BY <1>0, <2>2, <2>3, <2>4, KeptActivations
<1>7. ASSUME NEW r \in Runtimes, ReturnedLeases(r) \/ Install(r) \/ AbandonTransfer(r),
             transfer[r] # NoTransfer
      PROVE  OwnershipInv'
  <2>1. transfer[r] \in Transfer
    BY <1>0, <1>7
  <2>2. transfer' \in [Runtimes -> Transfer \cup {NoTransfer}]
    BY <1>0, <1>7, <2>1 DEF ReturnedLeases, Install, AbandonTransfer, Transfer
  <2>3. UNCHANGED <<stage, activated>>
    BY <1>7 DEF ReturnedLeases, Install, AbandonTransfer
  <2>4. CASE owner' = owner
    BY <1>0, <2>2, <2>3, <2>4, KeptActivations
  <2>5. CASE Install(r)
    <3>1. /\ owner.epoch + 1 < MaxEpoch
          /\ owner' = [runtime |-> NoRuntime, node |-> transfer[r].target,
                       epoch |-> owner.epoch + 1, status |-> "RESTORING",
                       live |-> TRUE]
      BY <2>5 DEF Install
    <3>2. owner' \in Owner /\ owner'.epoch = owner.epoch + 1
      BY <1>0, <2>1, <3>1, MaxEpochAssumption DEF Owner, Transfer, Statuses
    <3> QED BY <1>0, <2>2, <2>3, <3>2, KeptActivations
  <2> QED BY <1>7, <2>4, <2>5 DEF ReturnedLeases, AbandonTransfer
<1>8. CASE Lapse
  <2>1. owner \in Owner
    BY <1>0, <1>8 DEF Lapse, Assigned
  <2>2. owner' \in Owner /\ owner'.epoch = owner.epoch
    BY <1>8, <2>1 DEF Lapse, Owner
  <2>3. UNCHANGED <<stage, transfer, activated>>
    BY <1>8 DEF Lapse
  <2> QED BY <1>0, <2>2, <2>3, KeptActivations
<1>9. CASE UNCHANGED ownershipVars
  <2>1. OwnershipTypeOK' /\ UNCHANGED <<owner, activated>>
    BY <1>0, <1>9 DEF ownershipVars
  <2> QED BY <2>1, KeptActivations
<1>10. ASSUME NEW r \in Runtimes, ReturnedLeases(r) \/ Install(r) \/ AbandonTransfer(r)
       PROVE  transfer[r] # NoTransfer
  BY <1>10 DEF ReturnedLeases, Install, AbandonTransfer, NoTransfer
<1>11. ASSUME NEW r \in Runtimes, OwnershipStep(r)
       PROVE  OwnershipInv'
  BY <1>1, <1>2, <1>3, <1>4, <1>5, <1>6, <1>7, <1>10, <1>11
     DEF OwnershipStep, OwnershipStart
<1> QED BY <1>1, <1>7, <1>8, <1>9, <1>10, <1>11 DEF NextOwnership

\* The owner record alone: through starts, lapses, crashes and transfers the
\* types hold, no epoch is ahead of the record and none has two runtimes.
THEOREM OwnershipInvariant == SpecOwnership => []OwnershipInv
<1>1. InitOwnership => OwnershipInv
  BY MaxEpochAssumption
     DEF InitOwnership, OwnershipInv, OwnershipTypeOK, ActivatedEpochsArePast,
         OneRuntimePerEpoch, NoOwner, Stages
<1>2. OwnershipInv /\ [NextOwnership]_ownershipVars => OwnershipInv'
  BY OwnershipStepInv
<1> QED BY <1>1, <1>2, PTL DEF SpecOwnership

\* A step of the shard is a step of the owner record, or leaves it alone.
LEMMA StepOwnership ==
  ASSUME [Next]_vars
  PROVE  [NextOwnership]_ownershipVars
<1>1. CASE UNCHANGED vars
  BY <1>1 DEF vars
<1>2. ASSUME NEW r \in Runtimes, Serve(r)
      PROVE  [NextOwnership]_ownershipVars
  <2>1. CASE RecoverAtStart(r) \/ ReturnGrants(r)
    BY <2>1 DEF RecoverAtStart, ReturnGrants, NextOwnership
  <2>2. ASSUME NEW batch \in IngressBatches, Ingress(r, batch)
        PROVE  UNCHANGED ownershipVars
    BY <2>2 DEF Ingress
  <2>3. ASSUME NEW key \in ProcessKeys, Finalize(r, key)
        PROVE  UNCHANGED ownershipVars
    BY <2>3 DEF Finalize
  <2>4. CASE Poll(r)
    BY <2>4 DEF Poll
  <2>5. ASSUME NEW g \in 1..Len(grants),
               RenewGrant(r, g) \/ Complete(r, g) \/ RecoverGrant(r, g)
        PROVE  UNCHANGED ownershipVars
    BY <2>5 DEF RenewGrant, Complete, RecoverGrant, Settle
  <2> QED BY <1>2, <2>1, <2>2, <2>3, <2>4, <2>5 DEF Serve
<1>3. ASSUME NEW r \in Runtimes, OwnershipStep(r)
      PROVE  NextOwnership
  BY <1>3 DEF NextOwnership
<1>4. CASE Lapse
  BY <1>4 DEF NextOwnership
<1>5. ASSUME NEW g \in 1..Len(grants), ExpireGrant(g)
      PROVE  UNCHANGED ownershipVars
  BY <1>5 DEF ExpireGrant
<1>6. ASSUME NEW l \in Registrations, Reregister(l)
      PROVE  UNCHANGED ownershipVars
  BY <1>6 DEF Reregister
<1> QED BY <1>1, <1>2, <1>3, <1>4, <1>5, <1>6 DEF Next

\* The shard adds nothing to what may happen to the owner record.
THEOREM OwnershipImplemented == Spec => SpecOwnership
<1>1. Init => InitOwnership
  BY DEF Init
<1>2. [Next]_vars => [NextOwnership]_ownershipVars
  BY StepOwnership
<1> QED BY <1>1, <1>2, PTL DEF Spec, SpecOwnership

\* A generation is made ACTIVE by one runtime, whatever restarts, overlapping
\* runtimes, lapses and transfers happen: a grant's epoch names who issued it.
THEOREM OneRuntime == Spec => []OneRuntimePerEpoch
<1>1. OwnershipInv => OneRuntimePerEpoch
  BY DEF OwnershipInv
<1> QED BY <1>1, OwnershipInvariant, OwnershipImplemented, PTL

-----------------------------------------------------------------------------
(* Types of the shard *)

\* Sets of events are finite, so the counters that add their sizes are numbers.
LEMMA SizeIsNat ==
  ASSUME NEW E, E \subseteq Events
  PROVE  Cardinality(E) \in Nat
BY FS_Subset, FS_CardinalityType, EventsAssumption

\* Starting executions moves the counters and the active keys within their types.
LEMMA WithStartedType ==
  ASSUME NEW s \in ShardState, NEW E, E \subseteq Events
  PROVE  WithStarted(s, E) \in ShardState
<1>1. PICK pending : pending = Minus(s.pending, Cardinality(E))
  OBVIOUS
<1>2. PICK running : running = s.running + Cardinality(E)
  OBVIOUS
<1>3. PICK active : active = s.active_keys \cup KeysOf(E)
  OBVIOUS
<1>4. pending \in Nat /\ running \in Nat
  BY <1>1, <1>2, SizeIsNat DEF Minus, ShardState
<1>5. active \in SUBSET ProcessKeys
  BY <1>3 DEF KeysOf, ProcessKeys, ShardState
<1>6. WithStarted(s, E) = [s EXCEPT !.pending = pending, !.running = running,
                                    !.active_keys = active]
  BY <1>1, <1>2, <1>3 DEF WithStarted
<1> QED BY <1>4, <1>5, <1>6 DEF ShardState

\* The state of a key names a sequence.
LEMMA StateInIsNat ==
  ASSUME NEW trans \in [ProcessKeys -> Seq(Transition)],
         execution \in [Events -> Execution],
         NEW key \in ProcessKeys
  PROVE  StateIn(trans, key) \in Nat
<1>1. CASE trans[key] = <<>>
  BY <1>1 DEF StateIn
<1>2. CASE trans[key] # <<>>
  <2>1. PICK s \in Seq(Transition) : s = trans[key]
    OBVIOUS
  <2>2. Len(s) \in 1..Len(s)
    BY <1>2, <2>1
  <2>3. s[Len(s)] \in Transition
    BY <2>1, <2>2, ElementOfSeq
  <2>4. s[Len(s)].event \in Events
    BY <2>3 DEF Transition
  <2> QED BY <1>2, <2>1, <2>4 DEF StateIn, Execution
<1> QED BY <1>1, <1>2

\* Executions keep their type when some of them are given their prior state.
LEMMA WithPriorType ==
  ASSUME NEW trans \in [ProcessKeys -> Seq(Transition)],
         execution \in [Events -> Execution],
         NEW exec \in [Events -> Execution],
         NEW E
  PROVE  WithPrior(exec, E, trans) \in [Events -> Execution]
<1>1. \A e \in Events : StateIn(trans, KeyOf[e]) \in Nat
  BY StateInIsNat DEF ProcessKeys
<1> QED BY <1>1 DEF WithPrior, Execution

\* What dispatch starts was in the mailbox.
LEMMA DispatchableSubset ==
  ASSUME NEW s, NEW box, NEW exec
  PROVE  Dispatchable(s, box, exec) \subseteq box
BY DEF Dispatchable, Startable, First

\* Dispatch at the end of a transaction keeps the types.
LEMMA DispatchAfterType ==
  ASSUME NEW s \in ShardState,
         NEW box, box \subseteq Events,
         NEW exec \in [Events -> Execution],
         NEW rdy, rdy \subseteq Events,
         NEW trans \in [ProcessKeys -> Seq(Transition)],
         execution \in [Events -> Execution],
         DispatchAfter(s, box, exec, rdy, trans)
  PROVE  /\ shard' \in ShardState
         /\ mailbox' \subseteq Events
         /\ ready' \subseteq Events
         /\ execution' \in [Events -> Execution]
         /\ transitions' = trans
<1>1. PICK started : started = Dispatchable(s, box, exec)
  OBVIOUS
<1>2. started \subseteq Events
  BY <1>1, DispatchableSubset
<1>3. /\ shard' = WithStarted(s, started)
      /\ mailbox' = box \ started
      /\ ready' = rdy \cup started
      /\ execution' = WithPrior(exec, started, trans)
      /\ transitions' = trans
  BY <1>1 DEF DispatchAfter
<1> QED BY <1>2, <1>3, WithStartedType, WithPriorType

\* The result of a grant keeps the types; what it adds to a key is one transition
\* that names the grant, and a grant without successes adds none.
LEMMA SettleType ==
  ASSUME TypeOK,
         NEW g \in 1..Len(grants),
         NEW succeeded \in SUBSET grants[g].events,
         Settle(g, succeeded)
  PROVE  /\ shard' \in ShardState
         /\ mailbox' \subseteq Events
         /\ ready' \subseteq Events
         /\ execution' \in [Events -> Execution]
         /\ outcome' \in [Events -> Outcomes]
         /\ transitions' \in [ProcessKeys -> Seq(Transition)]
         /\ UNCHANGED <<ownershipVars, limits, finalized>>
         /\ \A k \in ProcessKeys :
              \/ transitions'[k] = transitions[k]
              \/ /\ succeeded # {}
                 /\ \E t \in Transition :
                      t.grant = g /\ transitions'[k] = Append(transitions[k], t)
<1>1. PICK failures : failures = grants[g].events \ succeeded
  OBVIOUS
<1>2. PICK quarantined :
        quarantined = {e \in failures : execution[e].attempt + 1 >= MaxAttempts}
  OBVIOUS
<1>3. PICK retried : retried = failures \ quarantined
  OBVIOUS
<1>4. PICK isolated : isolated = Cardinality(Retries(grants[g].events))
  OBVIOUS
<1>5. PICK settled :
        settled = [shard EXCEPT
                     !.running = Minus(@, Cardinality(grants[g].events) - isolated),
                     !.retry_running = Minus(@, isolated),
                     !.retry_pending = @ + Cardinality(retried),
                     !.completed = @ + Cardinality(succeeded),
                     !.failed = @ + Cardinality(quarantined),
                     !.active_keys = @ \ KeysOf(succeeded \cup quarantined)]
  OBVIOUS
<1>6. PICK exec :
        exec = [e \in Events |->
                  IF e \in failures
                  THEN [execution[e] EXCEPT !.attempt = @ + 1] ELSE execution[e]]
  OBVIOUS
<1>7. PICK trans :
        trans = [k \in ProcessKeys |->
                   IF k \in KeysOf(succeeded)
                   THEN LET e == CHOOSE e \in succeeded : KeyOf[e] = k IN
                        Append(transitions[k],
                               [event |-> e, prior |-> execution[e].prior,
                                grant |-> g])
                   ELSE transitions[k]]
  OBVIOUS
<1>8. /\ outcome' = [e \in Events |->
                      CASE e \in succeeded   -> "COMMITTED"
                        [] e \in quarantined -> "FAILED"
                        [] OTHER             -> outcome[e]]
      /\ DispatchAfter(settled, mailbox, exec, ready \cup retried, trans)
      /\ UNCHANGED <<ownershipVars, limits, finalized>>
  BY <1>1, <1>2, <1>3, <1>4, <1>5, <1>6, <1>7 DEF Settle
<1>9. grants[g].events \subseteq Events
  <2>1. grants[g] \in Grant
    BY ElementOfSeq DEF TypeOK
  <2> QED BY <2>1 DEF Grant
<1>10. /\ succeeded \subseteq Events /\ failures \subseteq Events
       /\ quarantined \subseteq Events /\ retried \subseteq Events
  BY <1>1, <1>2, <1>3, <1>9
<1>11. settled \in ShardState
  <2>1. PICK running :
          running = Minus(shard.running, Cardinality(grants[g].events) - isolated)
    OBVIOUS
  <2>2. PICK retryRunning : retryRunning = Minus(shard.retry_running, isolated)
    OBVIOUS
  <2>3. PICK retryPending : retryPending = shard.retry_pending + Cardinality(retried)
    OBVIOUS
  <2>4. PICK completed : completed = shard.completed + Cardinality(succeeded)
    OBVIOUS
  <2>5. PICK failed : failed = shard.failed + Cardinality(quarantined)
    OBVIOUS
  <2>6. PICK active : active = shard.active_keys \ KeysOf(succeeded \cup quarantined)
    OBVIOUS
  <2>7. shard \in ShardState
    BY DEF TypeOK
  <2>8. isolated \in Nat /\ isolated <= Cardinality(grants[g].events)
    <3>1. Retries(grants[g].events) \in SUBSET grants[g].events
      BY DEF Retries
    <3>2. IsFiniteSet(grants[g].events)
      BY <1>9, FS_Subset, EventsAssumption
    <3> QED BY <3>1, <3>2, <1>4, FS_Subset, FS_CardinalityType
  <2>9. running \in Nat /\ retryRunning \in Nat
    <3>1. Cardinality(grants[g].events) \in Nat
      BY <1>9, SizeIsNat
    <3>2. shard.running \in Nat /\ shard.retry_running \in Nat
      BY <2>7 DEF ShardState
    <3> QED BY <2>1, <2>2, <2>8, <3>1, <3>2 DEF Minus
  <2>10. retryPending \in Nat /\ completed \in Nat /\ failed \in Nat
    <3>1. /\ Cardinality(retried) \in Nat
          /\ Cardinality(succeeded) \in Nat
          /\ Cardinality(quarantined) \in Nat
      BY <1>10, SizeIsNat
    <3>2. /\ shard.retry_pending \in Nat
          /\ shard.completed \in Nat
          /\ shard.failed \in Nat
      BY <2>7 DEF ShardState
    <3>3. retryPending \in Nat
      BY <2>3, <3>1, <3>2
    <3>4. completed \in Nat
      BY <2>4, <3>1, <3>2
    <3>5. failed \in Nat
      BY <2>5, <3>1, <3>2
    <3> QED BY <3>3, <3>4, <3>5
  <2>11. active \in SUBSET ProcessKeys
    BY <2>6, <2>7 DEF ShardState
  <2>12. settled = [shard EXCEPT
                      !.running = running, !.retry_running = retryRunning,
                      !.retry_pending = retryPending, !.completed = completed,
                      !.failed = failed, !.active_keys = active]
    BY <1>5, <2>1, <2>2, <2>3, <2>4, <2>5, <2>6
  <2> QED BY <2>7, <2>9, <2>10, <2>11, <2>12 DEF ShardState
<1>12. exec \in [Events -> Execution]
  <2> SUFFICES ASSUME NEW e \in Events
               PROVE  exec[e] \in Execution
    BY <1>6
  <2>1. execution[e] \in Execution
    BY DEF TypeOK
  <2>2. PICK attempt : attempt = execution[e].attempt + 1
    OBVIOUS
  <2>3. attempt \in Nat
    BY <2>1, <2>2 DEF Execution
  <2>4. [execution[e] EXCEPT !.attempt = attempt] \in Execution
    BY <2>1, <2>3 DEF Execution
  <2> QED BY <1>6, <2>1, <2>2, <2>4
<1>13. \A k \in ProcessKeys :
         \/ trans[k] = transitions[k]
         \/ /\ succeeded # {}
            /\ \E t \in Transition :
                 t.grant = g /\ trans[k] = Append(transitions[k], t)
  <2> SUFFICES ASSUME NEW k \in ProcessKeys, k \in KeysOf(succeeded)
               PROVE  /\ succeeded # {}
                      /\ \E t \in Transition :
                           t.grant = g /\ trans[k] = Append(transitions[k], t)
    BY <1>7
  <2>1. PICK e : e = CHOOSE d \in succeeded : KeyOf[d] = k
    OBVIOUS
  <2>2. e \in succeeded
    BY <2>1 DEF KeysOf
  <2>3. PICK t : t = [event |-> e, prior |-> execution[e].prior, grant |-> g]
    OBVIOUS
  <2>4. execution[e].prior \in Nat
    BY <2>2, <1>10 DEF TypeOK, Execution
  <2>5. t \in Transition /\ t.grant = g
    BY <2>2, <2>3, <2>4, <1>10 DEF Transition, TypeOK
  <2>6. trans[k] = Append(transitions[k], t)
    BY <1>7, <2>1, <2>3
  <2> QED BY <2>2, <2>5, <2>6
<1>14. trans \in [ProcessKeys -> Seq(Transition)]
  <2>1. transitions \in [ProcessKeys -> Seq(Transition)]
    BY DEF TypeOK
  <2>2. ASSUME NEW k \in ProcessKeys
        PROVE  trans[k] \in Seq(Transition)
    <3>1. transitions[k] \in Seq(Transition)
      BY <2>1
    <3>2. \A t \in Transition : Append(transitions[k], t) \in Seq(Transition)
      BY <3>1, AppendProperties
    <3> QED BY <1>13, <3>1, <3>2
  <2> QED BY <1>7, <2>2
<1>15. outcome' \in [Events -> Outcomes]
  BY <1>8 DEF TypeOK, Outcomes
<1>16. /\ mailbox \subseteq Events /\ ready \cup retried \subseteq Events
       /\ execution \in [Events -> Execution]
  BY <1>10 DEF TypeOK
<1> HIDE DEF TypeOK
<1>17. /\ shard' \in ShardState
       /\ mailbox' \subseteq Events
       /\ ready' \subseteq Events
       /\ execution' \in [Events -> Execution]
       /\ transitions' = trans
  BY <1>8, <1>11, <1>12, <1>14, <1>16, DispatchAfterType
<1> QED BY <1>8, <1>13, <1>14, <1>15, <1>17

-----------------------------------------------------------------------------
(* Grants *)

\* Completed grants stay completed, so old transitions still name them.
LEMMA KeptTransitions ==
  ASSUME GrantInv, TypeOK', transitions' = transitions,
         \A g \in 1..Len(grants) :
           /\ g \in 1..Len(grants')
           /\ grants[g].status = "completed" => grants'[g].status = "completed"
  PROVE  GrantInv'
<1>1. TransitionsNameCompletedGrants'
  BY DEF GrantInv, TransitionsNameCompletedGrants
<1> QED BY <1>1 DEF GrantInv

\* A grant record changes its status or its expiry in place.
LEMMA GrantUpdate ==
  ASSUME grants \in Seq(Grant), NEW g \in 1..Len(grants),
         NEW status \in {"open", "completed", "revoked"},
         NEW expired \in BOOLEAN
  PROVE  /\ [grants EXCEPT ![g].expired = expired] \in Seq(Grant)
         /\ Len([grants EXCEPT ![g].expired = expired]) = Len(grants)
         /\ [grants EXCEPT ![g].status = status, ![g].expired = expired]
              \in Seq(Grant)
         /\ Len([grants EXCEPT ![g].status = status, ![g].expired = expired])
              = Len(grants)
<1>1. grants[g] \in Grant
  BY ElementOfSeq
<1>2. /\ [grants[g] EXCEPT !.expired = expired] \in Grant
      /\ [grants[g] EXCEPT !.status = status, !.expired = expired] \in Grant
  BY <1>1 DEF Grant
<1>3. PICK a \in Grant : a = [grants[g] EXCEPT !.expired = expired]
  BY <1>2
<1>4. PICK b \in Grant :
        b = [grants[g] EXCEPT !.status = status, !.expired = expired]
  BY <1>2
<1>5. [grants EXCEPT ![g].expired = expired] = [grants EXCEPT ![g] = a]
  BY <1>3
<1>6. [grants EXCEPT ![g].status = status, ![g].expired = expired]
        = [grants EXCEPT ![g] = b]
  BY <1>1, <1>4, ZenonT(60)
<1> QED BY <1>3, <1>4, <1>5, <1>6, ExceptSeq, SMTT(30)

\* The numbered events of a batch are executions.
LEMMA NumberedType ==
  ASSUME TypeOK, NEW batch
  PROVE  Numbered(batch) \in [Events -> Execution]
<1> DEFINE place(e) == CHOOSE i \in 1..Len(batch) : batch[i] = e
           rank(e) == Cardinality({d \in NewEvents(batch) : place(d) <= place(e)})
<1>1. \A e \in Events : rank(e) \in Nat
  <2> SUFFICES ASSUME NEW e \in Events PROVE rank(e) \in Nat
    OBVIOUS
  <2>1. {d \in NewEvents(batch) : place(d) <= place(e)} \subseteq Events
    BY DEF NewEvents
  <2> QED BY <2>1, SizeIsNat
<1>2. Numbered(batch) =
        [e \in Events |->
           IF e \in NewEvents(batch)
           THEN [execution[e] EXCEPT !.sequence = shard.next_sequence + rank(e)]
           ELSE execution[e]]
  BY DEF Numbered
<1> HIDE DEF rank
<1> SUFFICES ASSUME NEW e \in Events
             PROVE  Numbered(batch)[e] \in Execution
  BY <1>2
<1>3. execution[e] \in Execution /\ shard.next_sequence \in Nat
  BY DEF TypeOK, ShardState
<1>4. PICK sequence : sequence = shard.next_sequence + rank(e)
  OBVIOUS
<1>5. sequence \in Nat
  BY <1>1, <1>3, <1>4
<1>6. [execution[e] EXCEPT !.sequence = sequence] \in Execution
  BY <1>3, <1>5 DEF Execution
<1> QED BY <1>2, <1>3, <1>4, <1>6

\* A batch of ingress keeps the types.
LEMMA IngressType ==
  ASSUME TypeOK, NEW r \in Runtimes, NEW batch, Ingress(r, batch)
  PROVE  TypeOK'
<1>1. PICK events : events = NewEvents(batch)
  OBVIOUS
<1>2. PICK exec : exec = Numbered(batch)
  OBVIOUS
<1>3. PICK direct : direct = Startable(shard, events, exec)
  OBVIOUS
<1>4. PICK queued : queued = events \ direct
  OBVIOUS
<1>5. PICK admitted :
        admitted = [shard EXCEPT
                      !.pending = @ + Cardinality(queued),
                      !.running = @ + Cardinality(direct),
                      !.active_keys = @ \cup KeysOf(direct),
                      !.next_sequence = @ + Cardinality(events)]
  OBVIOUS
<1>6. PICK box : box = mailbox \cup queued
  OBVIOUS
<1>7. PICK started :
         started = IF admitted.pending > 0 THEN Dispatchable(admitted, box, exec)
                   ELSE {}
  OBVIOUS
<1>8. /\ shard' = WithStarted(admitted, started)
       /\ mailbox' = box \ started
       /\ ready' = ready \cup direct \cup started
       /\ execution' = WithPrior(exec, direct \cup started, transitions)
       /\ outcome' = [e \in Events |-> IF e \in events THEN "PENDING" ELSE outcome[e]]
       /\ UNCHANGED <<ownershipVars, limits, grants, transitions, finalized>>
  BY <1>1, <1>2, <1>3, <1>4, <1>5, <1>6, <1>7 DEF Ingress
<1>9. /\ events \subseteq Events /\ direct \subseteq Events
       /\ queued \subseteq Events /\ box \subseteq Events
  BY <1>1, <1>3, <1>4, <1>6 DEF NewEvents, Startable, First, TypeOK
<1>10. started \subseteq Events
  BY <1>7, <1>9, DispatchableSubset
<1>11. admitted \in ShardState
  <2>1. PICK pending : pending = shard.pending + Cardinality(queued)
    OBVIOUS
  <2>2. PICK running : running = shard.running + Cardinality(direct)
    OBVIOUS
  <2>3. PICK next : next = shard.next_sequence + Cardinality(events)
    OBVIOUS
  <2>4. PICK active : active = shard.active_keys \cup KeysOf(direct)
    OBVIOUS
  <2>5. shard \in ShardState
    BY DEF TypeOK
  <2>6. /\ Cardinality(queued) \in Nat /\ Cardinality(direct) \in Nat
        /\ Cardinality(events) \in Nat
    BY <1>9, SizeIsNat
  <2>7. /\ shard.pending \in Nat /\ shard.running \in Nat
        /\ shard.next_sequence \in Nat
    BY <2>5 DEF ShardState
  <2>8. pending \in Nat
    BY <2>1, <2>6, <2>7
  <2>9. running \in Nat
    BY <2>2, <2>6, <2>7
  <2>10. next \in Nat
    BY <2>3, <2>6, <2>7
  <2>11. active \in SUBSET ProcessKeys
    BY <2>4, <2>5, <1>9 DEF ShardState, KeysOf, ProcessKeys
  <2>12. admitted = [shard EXCEPT !.pending = pending, !.running = running,
                                  !.active_keys = active, !.next_sequence = next]
    BY <1>5, <2>1, <2>2, <2>3, <2>4
  <2> QED BY <2>5, <2>8, <2>9, <2>10, <2>11, <2>12 DEF ShardState
<1>12. exec \in [Events -> Execution]
  BY <1>2, NumberedType
<1>13. outcome' \in [Events -> Outcomes]
  BY <1>8 DEF TypeOK, Outcomes
<1>14. shard' \in ShardState
  BY <1>8, <1>10, <1>11, WithStartedType
<1>15. execution' \in [Events -> Execution]
  BY <1>8, <1>12, WithPriorType DEF TypeOK
<1>16. OwnershipTypeOK'
  BY <1>8 DEF TypeOK, OwnershipTypeOK, ownershipVars
<1> QED BY <1>8, <1>9, <1>10, <1>13, <1>14, <1>15, <1>16 DEF TypeOK

\* A poll keeps the types and adds one open grant.
LEMMA PollInv ==
  ASSUME GrantInv, NEW r \in Runtimes, Poll(r)
  PROVE  GrantInv'
<1>1. TypeOK
  BY DEF GrantInv
<1>2. PICK candidates \in SUBSET ready :
        LET retries == Retries(candidates)
            slots == Minus(RetryConcurrency, shard.retry_running)
            admitted == (candidates \ retries) \cup First(slots, retries, execution)
            selected == First(BatchMaxSize, admitted, execution)
            selectedRetries == Cardinality(Retries(selected))
        IN
        /\ Owns(r)
        /\ ready' = ready \ selected
        /\ shard' = [shard EXCEPT
                       !.retry_pending = Minus(@, selectedRetries),
                       !.retry_running = @ + selectedRetries]
        /\ grants' = Append(grants, [epoch |-> owner.epoch, events |-> selected,
                                     expired |-> FALSE, status |-> "open"])
        /\ UNCHANGED <<ownershipVars, limits, mailbox, execution, outcome,
                       transitions, finalized>>
  BY DEF Poll
<1>3. PICK selected :
        selected = First(BatchMaxSize,
                         (candidates \ Retries(candidates))
                           \cup First(Minus(RetryConcurrency, shard.retry_running),
                                      Retries(candidates), execution),
                         execution)
  OBVIOUS
<1>4. PICK retries : retries = Cardinality(Retries(selected))
  OBVIOUS
<1>5. PICK grant : grant = [epoch |-> owner.epoch, events |-> selected,
                            expired |-> FALSE, status |-> "open"]
  OBVIOUS
<1>6. /\ Owns(r)
      /\ ready' = ready \ selected
      /\ shard' = [shard EXCEPT !.retry_pending = Minus(@, retries),
                                !.retry_running = @ + retries]
      /\ grants' = Append(grants, grant)
      /\ UNCHANGED <<ownershipVars, limits, mailbox, execution, outcome,
                     transitions, finalized>>
  BY <1>2, <1>3, <1>4, <1>5
<1>7. selected \subseteq Events
  BY <1>1, <1>3 DEF First, Retries, TypeOK
<1>8. grant \in Grant
  <2>1. owner \in Owner
    BY <1>1, <1>6 DEF Owns, ActiveAt, Assigned, TypeOK, OwnershipTypeOK
  <2>2. owner.epoch \in Nat
    BY <2>1, MaxEpochAssumption DEF Owner
  <2> QED BY <1>5, <1>7, <2>2 DEF Grant
<1>9. shard' \in ShardState
  <2>1. PICK pending : pending = Minus(shard.retry_pending, retries)
    OBVIOUS
  <2>2. PICK running : running = shard.retry_running + retries
    OBVIOUS
  <2>3. shard \in ShardState
    BY <1>1 DEF TypeOK
  <2>4. retries \in Nat
    <3>1. Retries(selected) \subseteq Events
      BY <1>7 DEF Retries
    <3> QED BY <1>4, <3>1, SizeIsNat
  <2>5. pending \in Nat
    BY <2>1, <2>3, <2>4 DEF ShardState, Minus
  <2>6. running \in Nat
    BY <2>2, <2>3, <2>4 DEF ShardState
  <2> QED BY <1>6, <2>1, <2>2, <2>3, <2>5, <2>6 DEF ShardState
<1>10. /\ grants \in Seq(Grant)
       /\ grants' \in Seq(Grant)
       /\ Len(grants') = Len(grants) + 1
       /\ \A g \in 1..Len(grants) : grants'[g] = grants[g]
  BY <1>1, <1>6, <1>8, AppendProperties DEF TypeOK
<1>11. OwnershipTypeOK'
  BY <1>1, <1>6 DEF TypeOK, OwnershipTypeOK, ownershipVars
<1>12. TypeOK'
  BY <1>1, <1>6, <1>9, <1>10, <1>11 DEF TypeOK
<1>13. \A g \in 1..Len(grants) : g \in 1..Len(grants')
  BY <1>10, LenProperties
<1> QED BY <1>6, <1>10, <1>12, <1>13, KeptTransitions

\* A transfer that returns the grants keeps the types and revokes them all.
LEMMA ReturnGrantsInv ==
  ASSUME GrantInv, OwnershipTypeOK', NEW r \in Runtimes, ReturnGrants(r)
  PROVE  GrantInv'
<1>1. TypeOK
  BY DEF GrantInv
<1>2. PICK retries : retries = Cardinality(Retries(Leased))
  OBVIOUS
<1>3. /\ ready' = InFlight
      /\ shard' = [shard EXCEPT !.retry_running = Minus(@, retries),
                                !.retry_pending = @ + retries]
      /\ grants' = [g \in 1..Len(grants) |->
                      IF g \in Open THEN [grants[g] EXCEPT !.status = "revoked",
                                                           !.expired = FALSE]
                      ELSE grants[g]]
      /\ UNCHANGED <<limits, mailbox, execution, outcome, transitions, finalized>>
  BY <1>2 DEF ReturnGrants
<1>4. \A g \in 1..Len(grants) : grants[g] \in Grant
  BY <1>1, ElementOfSeq DEF TypeOK
<1>5. Leased \subseteq Events
  BY <1>4 DEF Leased, Open, Grant
<1>6. retries \in Nat
  <2>1. Retries(Leased) \subseteq Events
    BY <1>5 DEF Retries
  <2> QED BY <1>2, <2>1, SizeIsNat
<1>7. shard' \in ShardState
  <2>1. PICK running : running = Minus(shard.retry_running, retries)
    OBVIOUS
  <2>2. PICK pending : pending = shard.retry_pending + retries
    OBVIOUS
  <2>3. shard \in ShardState
    BY <1>1 DEF TypeOK
  <2>4. running \in Nat
    BY <2>1, <2>3, <1>6 DEF ShardState, Minus
  <2>5. pending \in Nat
    BY <2>2, <2>3, <1>6 DEF ShardState
  <2> QED BY <1>3, <2>1, <2>2, <2>3, <2>4, <2>5 DEF ShardState
<1>8. Len(grants) \in Nat
  BY <1>1, LenProperties DEF TypeOK
<1>9. \A g \in 1..Len(grants) : grants'[g] \in Grant
  BY <1>3, <1>4 DEF Grant
<1>10. grants' \in [1..Len(grants) -> Grant]
  BY <1>3, <1>9
<1>11. grants' \in Seq(Grant) /\ Len(grants') = Len(grants)
  BY <1>8, <1>10, SeqDef, LenProperties
<1>12. TypeOK'
  BY <1>1, <1>3, <1>5, <1>7, <1>11 DEF TypeOK, InFlight
<1>13. \A g \in 1..Len(grants) :
         grants[g].status = "completed" => grants'[g].status = "completed"
  BY <1>3 DEF Open
<1> QED BY <1>3, <1>11, <1>12, <1>13, KeptTransitions

\* A completion adds transitions that name the grant it completes.
LEMMA CompleteInv ==
  ASSUME GrantInv, NEW r \in Runtimes, NEW g \in 1..Len(grants), Complete(r, g)
  PROVE  GrantInv'
<1>1. TypeOK
  BY DEF GrantInv
<1>2. PICK succeeded \in SUBSET grants[g].events : Settle(g, succeeded)
  BY DEF Complete
<1>3. grants' = [grants EXCEPT ![g].status = "completed", ![g].expired = FALSE]
  BY DEF Complete, CloseGrant
<1>4. grants' \in Seq(Grant) /\ Len(grants') = Len(grants)
  BY <1>1, <1>3, GrantUpdate DEF TypeOK
<1>5. \A h \in 1..Len(grants) :
        grants'[h].status = IF h = g THEN "completed" ELSE grants[h].status
  <2>1. grants[g] \in Grant
    BY <1>1, ElementOfSeq DEF TypeOK
  <2> QED BY <1>1, <1>3, <2>1 DEF Grant, TypeOK
<1>6. TypeOK'
  <2>1. OwnershipTypeOK' /\ UNCHANGED <<limits, finalized>>
    BY <1>1, <1>2, SettleType DEF TypeOK, OwnershipTypeOK, ownershipVars
  <2>2. /\ shard' \in ShardState
        /\ mailbox' \subseteq Events
        /\ ready' \subseteq Events
        /\ execution' \in [Events -> Execution]
        /\ outcome' \in [Events -> Outcomes]
        /\ transitions' \in [ProcessKeys -> Seq(Transition)]
    BY <1>1, <1>2, SettleType
  <2> QED BY <1>1, <1>4, <2>1, <2>2 DEF TypeOK
<1>7. TransitionsNameCompletedGrants'
  <2> SUFFICES ASSUME NEW k \in ProcessKeys, NEW i \in 1..Len(transitions'[k])
               PROVE  /\ transitions'[k][i].grant \in 1..Len(grants')
                      /\ grants'[transitions'[k][i].grant].status = "completed"
    BY DEF TransitionsNameCompletedGrants
  <2>1. CASE i \in 1..Len(transitions[k]) /\ transitions'[k][i] = transitions[k][i]
    BY <1>4, <1>5, <2>1 DEF GrantInv, TransitionsNameCompletedGrants
  <2>2. CASE transitions'[k][i].grant = g
    BY <1>4, <1>5, <2>2
  <2>3. CASE transitions'[k] = transitions[k]
    BY <2>1, <2>3
  <2>4. ASSUME NEW t \in Transition, t.grant = g,
               transitions'[k] = Append(transitions[k], t)
        PROVE  \/ i \in 1..Len(transitions[k]) /\ transitions'[k][i] = transitions[k][i]
               \/ transitions'[k][i].grant = g
    <3>1. transitions[k] \in Seq(Transition)
      BY <1>1 DEF TypeOK
    <3> QED BY <2>4, <3>1, AppendProperties, LenProperties
  <2> QED BY <1>1, <1>2, <2>1, <2>2, <2>3, <2>4, SettleType
<1> QED BY <1>6, <1>7 DEF GrantInv

\* A recovery revokes an open grant and adds no transition.
LEMMA RecoverGrantInv ==
  ASSUME GrantInv, NEW r \in Runtimes, NEW g \in 1..Len(grants),
         RecoverGrant(r, g)
  PROVE  GrantInv'
<1>1. TypeOK
  BY DEF GrantInv
<1>2. /\ Settle(g, {})
      /\ g \in Open
      /\ grants' = [grants EXCEPT ![g].status = "revoked", ![g].expired = FALSE]
  BY DEF RecoverGrant, CloseGrant
<1>3. grants' \in Seq(Grant) /\ Len(grants') = Len(grants)
  BY <1>1, <1>2, GrantUpdate DEF TypeOK
<1>4. \A h \in 1..Len(grants) :
        grants[h].status = "completed" => grants'[h].status = "completed"
  BY <1>2 DEF Open
<1>5. /\ shard' \in ShardState
      /\ mailbox' \subseteq Events
      /\ ready' \subseteq Events
      /\ execution' \in [Events -> Execution]
      /\ outcome' \in [Events -> Outcomes]
      /\ transitions' \in [ProcessKeys -> Seq(Transition)]
      /\ UNCHANGED <<ownershipVars, limits, finalized>>
      /\ \A k \in ProcessKeys : transitions'[k] = transitions[k]
  BY <1>1, <1>2, SettleType
<1>6. transitions' = transitions
  BY <1>1, <1>5 DEF TypeOK
<1>7. OwnershipTypeOK'
  BY <1>1, <1>5 DEF TypeOK, OwnershipTypeOK, ownershipVars
<1>8. TypeOK'
  BY <1>1, <1>3, <1>5, <1>7 DEF TypeOK
<1> QED BY <1>3, <1>4, <1>6, <1>8, KeptTransitions

\* Every step keeps the types and lets transitions name completed grants only.
LEMMA GrantStepInv ==
  ASSUME OwnershipInv, GrantInv, [Next]_vars
  PROVE  GrantInv'
<1>1. TypeOK
  BY DEF GrantInv
<1>2. OwnershipTypeOK'
  BY StepOwnership, OwnershipStepInv DEF OwnershipInv
<1>3. CASE UNCHANGED processVars
  <2>1. TypeOK'
    BY <1>1, <1>2, <1>3 DEF TypeOK, processVars
  <2> QED BY <1>3, <2>1, KeptTransitions DEF processVars
<1>4. ASSUME NEW r \in Runtimes, NEW batch \in IngressBatches, Ingress(r, batch)
      PROVE  GrantInv'
  <2>1. TypeOK'
    BY <1>1, <1>4, IngressType
  <2>2. UNCHANGED <<grants, transitions>>
    BY <1>4 DEF Ingress
  <2> QED BY <2>1, <2>2, KeptTransitions
<1>5. ASSUME NEW r \in Runtimes, NEW key \in ProcessKeys, Finalize(r, key)
      PROVE  GrantInv'
  <2>1. TypeOK' /\ UNCHANGED <<grants, transitions>>
    BY <1>1, <1>2, <1>5 DEF Finalize, TypeOK
  <2> QED BY <2>1, KeptTransitions
<1>6. ASSUME NEW g \in 1..Len(grants), NEW expired \in BOOLEAN,
             grants' = [grants EXCEPT ![g].expired = expired],
             UNCHANGED <<limits, shard, mailbox, ready, execution, outcome,
                         transitions, finalized>>
      PROVE  GrantInv'
  <2>1. grants' \in Seq(Grant) /\ Len(grants') = Len(grants)
    BY <1>1, <1>6, GrantUpdate DEF TypeOK
  <2>2. TypeOK'
    BY <1>1, <1>2, <1>6, <2>1 DEF TypeOK
  <2>3. \A h \in 1..Len(grants) :
          grants[h].status = "completed" => grants'[h].status = "completed"
    <3>1. grants[g] \in Grant
      BY <1>1, ElementOfSeq DEF TypeOK
    <3> QED BY <1>1, <1>6, <3>1 DEF Grant, TypeOK
  <2> QED BY <1>6, <2>1, <2>2, <2>3, KeptTransitions
<1>7. ASSUME NEW r \in Runtimes, Serve(r)
      PROVE  GrantInv'
  <2>1. ASSUME NEW g \in 1..Len(grants), RenewGrant(r, g)
        PROVE  GrantInv'
    BY <2>1, <1>6 DEF RenewGrant
  <2>2. CASE RecoverAtStart(r)
    BY <1>3, <2>2 DEF RecoverAtStart
  <2> QED BY <1>2, <1>4, <1>5, <1>7, <2>1, <2>2, PollInv, ReturnGrantsInv,
             CompleteInv, RecoverGrantInv DEF Serve
<1>8. ASSUME NEW g \in 1..Len(grants), ExpireGrant(g)
      PROVE  GrantInv'
  BY <1>6, <1>8 DEF ExpireGrant
<1>9. ASSUME NEW l \in Registrations, Reregister(l)
      PROVE  GrantInv'
  <2>1. TypeOK' /\ UNCHANGED <<grants, transitions>>
    BY <1>1, <1>2, <1>9 DEF Reregister, TypeOK
  <2> QED BY <2>1, KeptTransitions
<1>10. CASE UNCHANGED vars
  BY <1>3, <1>10 DEF vars
<1> QED BY <1>3, <1>7, <1>8, <1>9, <1>10 DEF Next

\* The types hold, and every committed transition names a completed grant, for
\* any runtimes, nodes, events, keys and limits.
THEOREM GrantInvariant == Spec => []GrantInv
<1>1. Init => GrantInv
  <2> SUFFICES ASSUME Init PROVE GrantInv
    OBVIOUS
  <2>1. OwnershipTypeOK
    BY MaxEpochAssumption
       DEF Init, InitOwnership, OwnershipTypeOK, NoOwner, Stages
  <2>2. TypeOK
    BY <2>1 DEF Init, InitProcess, TypeOK, ShardState, Execution, Outcomes
  <2> QED BY <2>2 DEF Init, InitProcess, GrantInv, TransitionsNameCompletedGrants
<1>2. OwnershipInv /\ GrantInv /\ [Next]_vars => GrantInv'
  BY GrantStepInv
<1> QED BY <1>1, <1>2, OwnershipInvariant, OwnershipImplemented, PTL DEF Spec

\* Every variable of the shard and of its owner keeps its type.
THEOREM ShardTypeCorrect == Spec => []TypeOK
<1>1. GrantInv => TypeOK
  BY DEF GrantInv
<1> QED BY <1>1, GrantInvariant, PTL

\* No completion of a revoked grant ever commits, whatever was lost, delayed,
\* restarted or transferred in between.
THEOREM RevokedGrantsFenced == Spec => []RevokedGrantsNeverCommit
<1>1. GrantInv => RevokedGrantsNeverCommit
  BY DEF GrantInv, TransitionsNameCompletedGrants, RevokedGrantsNeverCommit
<1> QED BY <1>1, GrantInvariant, PTL

=============================================================================
