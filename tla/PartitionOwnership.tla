------------------------ MODULE PartitionOwnership ------------------------
(***************************************************************************)
(* Who serves one process partition: the ProcessPartitionOwner record of   *)
(* the lane (keyspace.rs), the start and the maintenance loop of a runtime *)
(* (runtime.rs, maintenance.rs) and the three transactions of a transfer   *)
(* (transfer_process_partition).                                           *)
(*                                                                         *)
(* A runtime is one start of a server process: runtime_id is the node id   *)
(* and a fresh uuid.  Several runtimes of a node may follow each other, or *)
(* overlap when an old one is slow to die.  Every action is one            *)
(* transaction of the lane; ObjectJournal says what such a transaction is. *)
(***************************************************************************)
EXTENDS Naturals

CONSTANTS
  Runtimes,    \* runtime ids
  NodeOf,      \* [Runtimes -> node id]
  NoRuntime,   \* the owner of a record no runtime has activated
  MaxEpoch     \* bound: generations in a behaviour

ASSUME NoRuntimeAssumption == NoRuntime \notin Runtimes
ASSUME MaxEpochAssumption == MaxEpoch \in Nat

VARIABLES
  owner,      \* the owner record of the partition
  stage,      \* [Runtimes -> where the runtime's life stands]
  transfer,   \* [Runtimes -> the transfer its request handler is running]
  activated   \* the epochs made ACTIVE, each with the runtime that did it

ownershipVars == <<owner, stage, transfer, activated>>

Nodes == {NodeOf[r] : r \in Runtimes}

Statuses == {"ACTIVE", "DRAINING", "RESTORING"}
Owner == [runtime : Runtimes \cup {NoRuntime}, node : Nodes,
          epoch : 0..MaxEpoch, status : Statuses, live : BOOLEAN]
NoOwner == [epoch |-> 0, live |-> FALSE]

\* "acquiring" and "recovering" are the two steps of a start before the
\* partition loops and the maintenance loop run.
Stages == {"new", "acquiring", "recovering", "serving", "down"}

Transfer == [epoch : 0..MaxEpoch, target : Nodes, step : {"drained", "returned"}]
NoTransfer == [step |-> "none"]

-----------------------------------------------------------------------------
InitOwnership ==
  /\ owner = NoOwner
  /\ stage = [r \in Runtimes |-> "new"]
  /\ transfer = [r \in Runtimes |-> NoTransfer]
  /\ activated = {}

Assigned == owner # NoOwner
ActiveAt(r) == Assigned /\ owner.runtime = r /\ owner.status = "ACTIVE"

\* owned_process_partition_epoch succeeds for r.
Owns(r) == ActiveAt(r) /\ owner.live

-----------------------------------------------------------------------------
(* Acquisition *)

\* initialize_process_partitions takes the partition unless r serves it, or
\* another node holds it and its lease has not lapsed.
MayAcquire(r) ==
  /\ ~Owns(r)
  /\ Assigned => ~owner.live \/ owner.node = NodeOf[r]

\* Mutant: the generation of the replaced owner is kept.
ActivateSameEpoch(r) ==
  LET epoch == IF Assigned THEN owner.epoch ELSE 1 IN
  /\ epoch <= MaxEpoch
  /\ owner' = [runtime |-> r, node |-> NodeOf[r], epoch |-> epoch,
               status |-> "ACTIVE", live |-> TRUE]
  /\ activated' = activated \cup {<<epoch, r>>}

Activate(r) ==
  /\ owner.epoch < MaxEpoch
  /\ owner' = [runtime |-> r, node |-> NodeOf[r], epoch |-> owner.epoch + 1,
               status |-> "ACTIVE", live |-> TRUE]
  /\ activated' = activated \cup {<<owner.epoch + 1, r>>}

Start(r) ==
  /\ stage[r] = "new"
  /\ stage' = [stage EXCEPT ![r] = "acquiring"]
  /\ UNCHANGED <<owner, transfer, activated>>

\* The acquisition of a start, which leaves the partition alone when it may not
\* be taken.
AcquireAtStart(r) ==
  /\ stage[r] = "acquiring"
  /\ IF MayAcquire(r) THEN Activate(r) ELSE UNCHANGED <<owner, activated>>
  /\ stage' = [stage EXCEPT ![r] = "recovering"]
  /\ transfer' = transfer

\* A maintenance tick, every 250 ms.
Acquire(r) ==
  /\ stage[r] = "serving"
  /\ MayAcquire(r)
  /\ Activate(r)
  /\ UNCHANGED <<stage, transfer>>

\* renew_process_partitions, of the same tick.  It does not ask whether the
\* lease has lapsed.
RenewOwner(r) ==
  /\ stage[r] = "serving"
  /\ ActiveAt(r)
  /\ owner' = [owner EXCEPT !.live = TRUE]
  /\ UNCHANGED <<stage, transfer, activated>>

\* Time passes.  Bound: under the last generation the partition stays with its
\* runtime, here and in Crash, Drain and Install.
Lapse ==
  /\ Assigned
  /\ owner.live
  /\ owner.epoch < MaxEpoch
  /\ owner' = [owner EXCEPT !.live = FALSE]
  /\ UNCHANGED <<stage, transfer, activated>>

Crash(r) ==
  /\ stage[r] \notin {"new", "down"}
  /\ ActiveAt(r) => owner.epoch < MaxEpoch
  /\ stage' = [stage EXCEPT ![r] = "down"]
  /\ transfer' = [transfer EXCEPT ![r] = NoTransfer]
  /\ UNCHANGED <<owner, activated>>

-----------------------------------------------------------------------------
(* Transfer.  Bound: a runtime handles one transfer request at a time. *)

\* The request names the epoch it expects; one that names another changes
\* nothing.  The lease may have lapsed.
Drain(r, target) ==
  /\ stage[r] = "serving"
  /\ transfer[r] = NoTransfer
  /\ ActiveAt(r)
  /\ owner.epoch < MaxEpoch
  /\ owner' = [owner EXCEPT !.status = "DRAINING", !.live = TRUE]
  /\ transfer' = [transfer EXCEPT ![r] = [epoch |-> owner.epoch,
                                          target |-> target,
                                          step |-> "drained"]]
  /\ UNCHANGED <<stage, activated>>

\* The second transaction, which does not look at the owner record.
ReturnedLeases(r) ==
  /\ transfer[r].step = "drained"
  /\ transfer' = [transfer EXCEPT ![r].step = "returned"]
  /\ UNCHANGED <<owner, stage, activated>>

\* The third transaction, after a checkpoint.  owner is "<target>:pending".
Install(r) ==
  /\ transfer[r].step = "returned"
  /\ Assigned
  /\ owner.runtime = r
  /\ owner.status = "DRAINING"
  /\ owner.epoch = transfer[r].epoch
  /\ owner.epoch + 1 < MaxEpoch
  /\ owner' = [runtime |-> NoRuntime, node |-> transfer[r].target,
               epoch |-> owner.epoch + 1, status |-> "RESTORING", live |-> TRUE]
  /\ transfer' = [transfer EXCEPT ![r] = NoTransfer]
  /\ UNCHANGED <<stage, activated>>

\* A transaction or the checkpoint fails, or the partition "changed while
\* draining": the request fails and the owner record stays as it is.
AbandonTransfer(r) ==
  /\ transfer[r] # NoTransfer
  /\ transfer' = [transfer EXCEPT ![r] = NoTransfer]
  /\ UNCHANGED <<owner, stage, activated>>

-----------------------------------------------------------------------------
(* The component alone: recovery and the return of leases change no owner. *)

RecoveredAtStart(r) ==
  /\ stage[r] = "recovering"
  /\ stage' = [stage EXCEPT ![r] = "serving"]
  /\ UNCHANGED <<owner, transfer, activated>>

OwnershipStart(r) == Start(r) \/ AcquireAtStart(r) \/ Acquire(r)

\* The steps that touch nothing but the owner record and its runtimes.
OwnershipStep(r) ==
  \/ OwnershipStart(r) \/ RenewOwner(r) \/ Crash(r)
  \/ \E target \in Nodes : Drain(r, target)
  \/ Install(r) \/ AbandonTransfer(r)

NextOwnership ==
  \/ \E r \in Runtimes :
       OwnershipStep(r) \/ ReturnedLeases(r) \/ RecoveredAtStart(r)
  \/ Lapse

SpecOwnership == InitOwnership /\ [][NextOwnership]_ownershipVars

-----------------------------------------------------------------------------
(* Properties *)

OwnershipTypeOK ==
  /\ owner \in Owner \cup {NoOwner}
  /\ stage \in [Runtimes -> Stages]
  /\ transfer \in [Runtimes -> Transfer \cup {NoTransfer}]
  /\ activated \subseteq (1..MaxEpoch) \X Runtimes

\* A generation is served by one runtime, through restarts, overlapping
\* runtimes of a node and transfers: what the epoch in a grant relies on.
OneRuntimePerEpoch ==
  \A a, b \in activated : a[1] = b[1] => a = b

\* A drained partition is installed at the target, unless its lease lapses
\* first.  The code breaks it: the maintenance tick of the source's own node
\* may acquire a DRAINING partition that has not lapsed.
DrainingEndsInRestoring ==
  [][Assigned /\ owner.live /\ owner.status = "DRAINING"
       /\ owner'.status # "DRAINING"
       => owner'.status = "RESTORING"]_owner

-----------------------------------------------------------------------------
(* The inductive invariant *)

\* No generation above the owner record's has been made ACTIVE.
ActivatedEpochsArePast == \A a \in activated : a[1] <= owner.epoch

OwnershipInv ==
  /\ OwnershipTypeOK
  /\ ActivatedEpochsArePast
  /\ OneRuntimePerEpoch

=============================================================================
