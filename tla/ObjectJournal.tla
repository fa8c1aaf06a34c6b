--------------------------- MODULE ObjectJournal ---------------------------
(***************************************************************************)
(* One lane of the object-store journal (journal.rs) and the code that     *)
(* drives it (DurableStore in storage.rs, AppState::commit_shard in        *)
(* state.rs), shared by several runtimes.                                  *)
(*                                                                         *)
(* A commit of a runtime is: synchronise the lane, read the local state in *)
(* a transaction, upload an immutable record, replace the head object by a *)
(* conditional write, apply the record locally.  Synchronising is a walk   *)
(* over parent links.  Every response may be lost, a request may be late,  *)
(* and a crash may take the local state back to an earlier flush.          *)
(*                                                                         *)
(* The transaction holds the lane's mutation lock from its synchronisation *)
(* to its append; sync_remote_shard holds only the sequence lock, and is   *)
(* called by other threads of the runtime (routing, outbox promotion,      *)
(* diagnostics, checkpoints) without the mutation lock.                    *)
(***************************************************************************)
EXTENDS Naturals, Sequences, FiniteSets

CONSTANTS
  Runtimes,      \* server processes that share the lane
  RecordPaths,   \* fresh object names for immutable records (uuid per append)
  NoPath,        \* the parent of the first record, the path of an absent head
  Operations,    \* the kinds of transactions the runtimes make, among Kinds
  MaxCrashes,    \* bound: crashes in a behaviour
  ApplyFails     \* whether a write to the local RocksDB can fail

ASSUME RuntimesAssumption == Runtimes # {}
ASSUME PathAssumption == NoPath \notin RecordPaths
ASSUME CrashAssumption == MaxCrashes \in Nat
ASSUME ApplyFailsAssumption == ApplyFails \in BOOLEAN

VARIABLES
  records,   \* [RecordPaths -> record or NoRecord]: the immutable objects
  head,      \* the head object of the lane, EmptyHead when it does not exist
  requests,  \* conditional head writes the store has not answered yet
  log,       \* the paths the head has named, in order
  cursor,    \* [Runtimes -> the head each journal service believes current]
  applied,   \* [Runtimes -> the record paths its local state holds]
  phase,     \* [Runtimes -> where the committing thread of the lane stands]
  walk,      \* [Runtimes -> the synchronisation in progress, or NoWalk]
  txn,       \* [Runtimes -> what the open transaction has read and will do]
  attempt,   \* [Runtimes -> the head the append in progress proposes]
  acked,     \* the records whose append returned Ok to its caller
  crashes    \* crashes so far

store == <<records, head, requests, log>>
vars == <<records, head, requests, log, cursor, applied, phase, walk, txn,
          attempt, acked, crashes>>

-----------------------------------------------------------------------------
(* Values *)

\* What a transaction of a process lane does.  "claim" makes this runtime the
\* owner at the next epoch; "renew" rewrites the owner record it holds (a lease
\* or an activation number); "work" leaves that record alone.  A transfer is
\* three transactions: "drain" marks the owner record, "return" gives back the
\* leased executions, "install" makes the target's node the pending owner at
\* the next epoch.
Kinds == {"claim", "renew", "work", "drain", "return", "install"}

ASSUME OperationsAssumption == Operations \subseteq Kinds

Record == [position : Nat, epoch : Nat, parent : RecordPaths \cup {NoPath},
           sequence : Nat, writer : Runtimes, kind : Kinds, base : Nat]
NoRecord == [position |-> 0]

\* The e-tag of a head names its content, and no two heads name the same
\* record, so comparing versions is comparing heads.
JournalHead == [position : Nat, epoch : Nat, path : RecordPaths \cup {NoPath}]
EmptyHead == [position |-> 0, epoch |-> 0, path |-> NoPath]

Purposes == {"commit", "background", "open"}
Walk == [purpose : Purposes, head : JournalHead, path : RecordPaths \cup {NoPath},
         expected : Nat, tail : Seq(RecordPaths)]
NoWalk == [purpose |-> "none"]

Txn == [kind : Kinds, base : Nat, epoch : Nat]
NoTxn == [kind |-> "none"]

Phases == {"idle", "syncing", "synced", "open", "waiting", "readback", "down"}

Committed(p) == \E i \in 1..Len(log) : log[i] = p
Unused(p) == records[p] = NoRecord

-----------------------------------------------------------------------------
(* The owner record of the lane, as a sequence of applied records shows it *)

OwnerPuts(s) == {i \in 1..Len(s) : records[s[i]].kind \notin {"work", "return"}}
LastOwnerPut(s) == CHOOSE i \in OwnerPuts(s) : \A j \in OwnerPuts(s) : j <= i
OwnerEpoch(s) == IF OwnerPuts(s) = {} THEN 0
                 ELSE records[s[LastOwnerPut(s)]].epoch

\* r put the owner record last, in a transaction of one of the kinds.
PutLast(r, s, kinds) == /\ OwnerPuts(s) # {}
                        /\ records[s[LastOwnerPut(s)]].writer = r
                        /\ records[s[LastOwnerPut(s)]].kind \in kinds

\* The owner record names r as ACTIVE, or as DRAINING; after "install" it names
\* no runtime.
Serves(r, s) == PutLast(r, s, {"claim", "renew"})
Drains(r, s) == PutLast(r, s, {"drain"})

\* What an operation of the kind asks of the owner record.  A lease that has
\* expired, or one of the same node, may be claimed, and which one is left to
\* the choice; the second transaction of a transfer looks at no owner record.
MayCommit(r, kind, s) == /\ kind \in {"renew", "work", "drain"} => Serves(r, s)
                         /\ kind = "install" => Drains(r, s)

\* The owner records that go up by one generation.
Advances(kind) == kind \in {"claim", "install"}

-----------------------------------------------------------------------------
Init ==
  /\ records = [p \in RecordPaths |-> NoRecord]
  /\ head = EmptyHead
  /\ requests = {}
  /\ log = <<>>
  /\ cursor = [r \in Runtimes |-> EmptyHead]
  /\ applied = [r \in Runtimes |-> <<>>]
  /\ phase = [r \in Runtimes |-> "idle"]
  /\ walk = [r \in Runtimes |-> NoWalk]
  /\ txn = [r \in Runtimes |-> NoTxn]
  /\ attempt = [r \in Runtimes |-> EmptyHead]
  /\ acked = {}
  /\ crashes = 0

-----------------------------------------------------------------------------
(* Synchronisation: recover() walks from the head to the applied position *)

\* The sequence lock is held by a synchronisation and by an append.
SequenceLockFree(r) == walk[r] = NoWalk /\ phase[r] \notin {"waiting", "readback"}

\* Mutant: the walk starts counting one below the head's position.
BeginWalkOneBelow(r, purpose) ==
  walk' = [walk EXCEPT ![r] = [purpose |-> purpose, head |-> head,
                               path |-> head.path,
                               expected |-> head.position - 1, tail |-> <<>>]]

BeginWalk(r, purpose) ==
  walk' = [walk EXCEPT ![r] = [purpose |-> purpose, head |-> head,
                               path |-> head.path, expected |-> head.position,
                               tail |-> <<>>]]

\* commit_shard: take the mutation lock and synchronise before reading.
BeginCommit(r) ==
  /\ phase[r] = "idle"
  /\ SequenceLockFree(r)
  /\ BeginWalk(r, "commit")
  /\ phase' = [phase EXCEPT ![r] = "syncing"]
  /\ UNCHANGED <<store, cursor, applied, txn, attempt, acked, crashes>>

\* Mutant: only while a transaction of this runtime is open.
BeginBackgroundSyncInTransaction(r) ==
  /\ phase[r] = "open"
  /\ SequenceLockFree(r)
  /\ BeginWalk(r, "background")
  /\ UNCHANGED <<store, cursor, applied, phase, txn, attempt, acked, crashes>>

\* Another thread of the runtime synchronises the lane.
BeginBackgroundSync(r) ==
  /\ phase[r] \in {"idle", "synced", "open"}
  /\ SequenceLockFree(r)
  /\ BeginWalk(r, "background")
  /\ UNCHANGED <<store, cursor, applied, phase, txn, attempt, acked, crashes>>

\* A process start: open_sharded_with_journal recovers the tail.
Open(r) ==
  /\ phase[r] = "down"
  /\ walk[r] = NoWalk
  /\ BeginWalk(r, "open")
  /\ UNCHANGED <<store, cursor, applied, phase, txn, attempt, acked, crashes>>

ValidAt(p, position) == /\ records[p] # NoRecord
                        /\ records[p].position = position
                        /\ records[p].epoch # 0

WalkDone(r) == walk[r].expected <= Len(applied[r])

\* One GET of the walk: fetch, validate, go to the parent.
WalkStep(r) ==
  /\ walk[r] # NoWalk
  /\ ~WalkDone(r)
  /\ walk[r].path # NoPath
  /\ ValidAt(walk[r].path, walk[r].expected)
  /\ walk' = [walk EXCEPT ![r] = [purpose  |-> walk[r].purpose,
                                  head     |-> walk[r].head,
                                  path     |-> records[walk[r].path].parent,
                                  expected |-> walk[r].expected - 1,
                                  tail     |-> <<walk[r].path>> \o walk[r].tail]]
  /\ UNCHANGED <<store, cursor, applied, phase, txn, attempt, acked, crashes>>

\* Where the committing thread stands after a synchronisation.
AfterWalk(r, ok) ==
  CASE walk[r].purpose = "commit" -> IF ok THEN "synced" ELSE "idle"
    [] walk[r].purpose = "open"   -> IF ok THEN "idle" ELSE "down"
    [] OTHER                      -> phase[r]

\* A GET fails, or the walk meets a missing or an invalid record.
WalkFails(r) ==
  /\ walk[r] # NoWalk
  /\ ~WalkDone(r)
  /\ phase' = [phase EXCEPT ![r] = AfterWalk(r, FALSE)]
  /\ walk' = [walk EXCEPT ![r] = NoWalk]
  /\ UNCHANGED <<store, cursor, applied, txn, attempt, acked, crashes>>

EpochsMonotone(s) ==
  \A i \in 1..Len(s) - 1 :
    /\ records[s[i]].epoch <= records[s[i + 1]].epoch
    /\ records[s[i + 1]].epoch <= records[s[i]].epoch + 1

\* Mutant: the expected sequence is one too high.
ApplicableOneHigher(r, tail, i) ==
  /\ records[tail[i]].sequence = records[tail[i]].position
  /\ records[tail[i]].sequence = Len(applied[r]) + i + 1

\* Record number i of the tail is the next one this local state may apply.
Applicable(r, tail, i) ==
  /\ records[tail[i]].sequence = records[tail[i]].position
  /\ records[tail[i]].sequence = Len(applied[r]) + i

\* The walk reached the applied position.  The service's cursor moves to the
\* head first; then the tail is applied record by record, up to one that does
\* not carry its position or, when ApplyFails, up to any one.
FinishWalk(r) ==
  LET tail == walk[r].tail IN
  /\ walk[r] # NoWalk
  /\ WalkDone(r)
  /\ EpochsMonotone(tail)
  /\ cursor' = [cursor EXCEPT ![r] = walk[r].head]
  /\ \E n \in 0..Len(tail) :
       /\ \A i \in 1..n : Applicable(r, tail, i)
       /\ n < Len(tail) => ApplyFails \/ ~Applicable(r, tail, n + 1)
       /\ applied' = [applied EXCEPT ![r] = @ \o SubSeq(tail, 1, n)]
       /\ phase' = [phase EXCEPT ![r] = AfterWalk(r, n = Len(tail))]
  /\ walk' = [walk EXCEPT ![r] = NoWalk]
  /\ UNCHANGED <<store, txn, attempt, acked, crashes>>

-----------------------------------------------------------------------------
(* A transaction and its append *)

\* A "return" comes after the "drain" of the same transfer, and only there.
AfterDrain(r, s) ==
  \E i \in 1..Len(s) : records[s[i]].writer = r /\ records[s[i]].kind = "drain"

\* The operation of the transaction runs: it reads the local state and checks
\* what its kind asks of the owner record.
ReadState(r, kind) ==
  /\ phase[r] = "synced"
  /\ walk[r] = NoWalk
  /\ MayCommit(r, kind, applied[r])
  /\ kind = "return" => AfterDrain(r, applied[r])
  /\ txn' = [txn EXCEPT ![r] = [kind |-> kind, base |-> Len(applied[r]),
                                epoch |-> OwnerEpoch(applied[r])]]
  /\ phase' = [phase EXCEPT ![r] = "open"]
  /\ UNCHANGED <<store, cursor, applied, walk, attempt, acked, crashes>>

\* The operation fails, changes nothing, or its record cannot be uploaded.
Abandon(r) ==
  /\ phase[r] \in {"synced", "open"}
  /\ walk[r] = NoWalk
  /\ phase' = [phase EXCEPT ![r] = "idle"]
  /\ txn' = [txn EXCEPT ![r] = NoTxn]
  /\ UNCHANGED <<store, cursor, applied, walk, attempt, acked, crashes>>

\* owner_epoch_for: the epoch in the transaction's own owner record, else the
\* one stored in the local state when the record is written.
OwnerEpochFor(r) ==
  CASE Advances(txn[r].kind)          -> txn[r].epoch + 1
    [] txn[r].kind \in {"renew", "drain"} -> txn[r].epoch
    [] OTHER                          -> OwnerEpoch(applied[r])

\* Mutant: any positive generation is admitted.
EpochAdmittedUnordered(r) == OwnerEpochFor(r) > 0

\* The epoch stays or advances by one over the cursor's.
EpochAdmitted(r) ==
  /\ OwnerEpochFor(r) > 0
  /\ \/ cursor[r] = EmptyHead
     \/ OwnerEpochFor(r) \in {cursor[r].epoch, cursor[r].epoch + 1}

\* Mutant: the condition of the head write is the head read just before it,
\* and not the one the transaction's state was synchronised to.
StageRecordOnFreshHead(r, p) ==
  LET position == cursor[r].position + 1
      proposal == [position |-> position, epoch |-> OwnerEpochFor(r), path |-> p]
  IN
  /\ phase[r] = "open"
  /\ walk[r] = NoWalk
  /\ EpochAdmitted(r)
  /\ Unused(p)
  /\ records' = [records EXCEPT ![p] =
       [position |-> position, epoch |-> OwnerEpochFor(r),
        parent |-> head.path, sequence |-> Len(applied[r]) + 1,
        writer |-> r, kind |-> txn[r].kind, base |-> txn[r].base]]
  /\ requests' = requests \cup {[expected |-> head, proposed |-> proposal]}
  /\ attempt' = [attempt EXCEPT ![r] = proposal]
  /\ phase' = [phase EXCEPT ![r] = "waiting"]
  /\ UNCHANGED <<head, log, cursor, applied, walk, txn, acked, crashes>>

\* commit_shard up to the conditional write of the head.
StageRecord(r, p) ==
  LET position == cursor[r].position + 1
      proposal == [position |-> position, epoch |-> OwnerEpochFor(r), path |-> p]
  IN
  /\ phase[r] = "open"
  /\ walk[r] = NoWalk
  /\ EpochAdmitted(r)
  /\ Unused(p)
  /\ records' = [records EXCEPT ![p] =
       [position |-> position, epoch |-> OwnerEpochFor(r),
        parent |-> cursor[r].path, sequence |-> Len(applied[r]) + 1,
        writer |-> r, kind |-> txn[r].kind, base |-> txn[r].base]]
  /\ requests' = requests \cup {[expected |-> cursor[r], proposed |-> proposal]}
  /\ attempt' = [attempt EXCEPT ![r] = proposal]
  /\ phase' = [phase EXCEPT ![r] = "waiting"]
  /\ UNCHANGED <<head, log, cursor, applied, walk, txn, acked, crashes>>

\* Mutant: the head write is unconditional.
StoreOverwrites(q) ==
  /\ requests' = requests \ {q}
  /\ head' = q.proposed
  /\ log' = Append(log, q.proposed.path)
  /\ UNCHANGED <<records, cursor, applied, phase, walk, txn, attempt, acked,
                 crashes>>

\* The store decides a conditional write, at any time after it was sent; one it
\* never decides is a lost request.
StoreDecides(q) ==
  /\ requests' = requests \ {q}
  /\ IF head = q.expected
     THEN /\ head' = q.proposed
          /\ log' = Append(log, q.proposed.path)
     ELSE UNCHANGED <<head, log>>
  /\ UNCHANGED <<records, cursor, applied, phase, walk, txn, attempt, acked,
                 crashes>>

EndAttempt(r) ==
  /\ txn' = [txn EXCEPT ![r] = NoTxn]
  /\ attempt' = [attempt EXCEPT ![r] = EmptyHead]

\* Mutant: the record is applied without comparing position and sequence.
FinishCommitUnchecked(r) ==
  /\ cursor' = [cursor EXCEPT ![r] = attempt[r]]
  /\ applied' = [applied EXCEPT ![r] = Append(@, attempt[r].path)]
  /\ acked' = acked \cup {attempt[r].path}
  /\ phase' = [phase EXCEPT ![r] = "idle"]
  /\ EndAttempt(r)
  /\ UNCHANGED <<store, walk, crashes>>

\* append returned the proposed head: the service's cursor moves; unless the
\* position is not the expected sequence, or the local write fails, the record
\* is applied and the caller gets Ok.
FinishCommit(r) ==
  /\ cursor' = [cursor EXCEPT ![r] = attempt[r]]
  /\ \/ /\ attempt[r].position = Len(applied[r]) + 1
        /\ applied' = [applied EXCEPT ![r] = Append(@, attempt[r].path)]
        /\ acked' = acked \cup {attempt[r].path}
     \/ /\ attempt[r].position # Len(applied[r]) + 1 \/ ApplyFails
        /\ UNCHANGED <<applied, acked>>
  /\ phase' = [phase EXCEPT ![r] = "idle"]
  /\ EndAttempt(r)
  /\ UNCHANGED <<store, walk, crashes>>

\* The response to the head write says it was accepted.
HeadAccepted(r) ==
  /\ phase[r] = "waiting"
  /\ Committed(attempt[r].path)
  /\ FinishCommit(r)

\* The response says precondition failed, or there is no response.
HeadErrored(r) ==
  /\ phase[r] = "waiting"
  /\ phase' = [phase EXCEPT ![r] = "readback"]
  /\ UNCHANGED <<store, cursor, applied, walk, txn, attempt, acked, crashes>>

\* Mutant: a head at or after the proposed position counts as accepted.
ReadbackReached(r) ==
  /\ phase[r] = "readback"
  /\ head.position >= attempt[r].position
  /\ FinishCommit(r)

\* The uncertain outcome is resolved by reading the head.
ReadbackMatches(r) ==
  /\ phase[r] = "readback"
  /\ head = attempt[r]
  /\ FinishCommit(r)

\* Mutant: the record of an append that is not acknowledged is deleted.
ReadbackDeletes(r) ==
  /\ phase[r] = "readback"
  /\ records' = [records EXCEPT ![attempt[r].path] = NoRecord]
  /\ phase' = [phase EXCEPT ![r] = "idle"]
  /\ EndAttempt(r)
  /\ UNCHANGED <<head, requests, log, cursor, applied, walk, acked, crashes>>

\* The head is another one, or cannot be read: the append fails with "fenced"
\* or with the read's error.  The record is kept.
ReadbackFails(r) ==
  /\ phase[r] = "readback"
  /\ phase' = [phase EXCEPT ![r] = "idle"]
  /\ EndAttempt(r)
  /\ UNCHANGED <<store, cursor, applied, walk, acked, crashes>>

-----------------------------------------------------------------------------
(* Crashes: RocksDB runs without its own WAL, so what was not flushed to it *)
(* or restored from a checkpoint is lost; requests already sent stay sent.  *)
Crash(r) ==
  /\ crashes < MaxCrashes
  /\ phase[r] # "down"
  /\ crashes' = crashes + 1
  /\ \E n \in 0..Len(applied[r]) :
       applied' = [applied EXCEPT ![r] = SubSeq(@, 1, n)]
  /\ phase' = [phase EXCEPT ![r] = "down"]
  /\ cursor' = [cursor EXCEPT ![r] = EmptyHead]
  /\ walk' = [walk EXCEPT ![r] = NoWalk]
  /\ EndAttempt(r)
  /\ UNCHANGED <<store, acked>>

-----------------------------------------------------------------------------
Synchronise(r) == BeginCommit(r) \/ BeginBackgroundSync(r) \/ Open(r)
                  \/ WalkStep(r) \/ WalkFails(r) \/ FinishWalk(r)
Resolve(r) == HeadAccepted(r) \/ HeadErrored(r)
              \/ ReadbackMatches(r) \/ ReadbackFails(r)

Next ==
  \/ \E r \in Runtimes :
       \/ Synchronise(r)
       \/ \E kind \in Operations : ReadState(r, kind)
       \/ Abandon(r)
       \/ \E p \in RecordPaths : StageRecord(r, p)
       \/ Resolve(r)
       \/ Crash(r)
  \/ \E q \in requests : StoreDecides(q)

Spec == Init /\ [][Next]_vars

\* A synchronisation that stops at a record the local state could apply.
LocalWriteFails(r) ==
  /\ FinishWalk(r)
  /\ \E i \in 1..Len(walk[r].tail) :
       /\ i = Len(applied'[r]) - Len(applied[r]) + 1
       /\ Applicable(r, walk[r].tail, i)

\* A runtime keeps synchronising (the maintenance loop does so every 250 ms),
\* keeps going once it started, gets some answer, and from some point on its
\* reads of the store and its local writes succeed.
Fairness ==
  /\ \A r \in Runtimes :
       /\ WF_vars(BeginBackgroundSync(r) \/ Open(r))
       /\ WF_vars(WalkStep(r) \/ FinishWalk(r))
       /\ WF_vars(Abandon(r))
       /\ WF_vars(Resolve(r))
  /\ <>[][\A r \in Runtimes : ~WalkFails(r) /\ ~LocalWriteFails(r)]_vars

FairSpec == Spec /\ Fairness

-----------------------------------------------------------------------------
(* Properties *)

TypeOK ==
  /\ records \in [RecordPaths -> Record \cup {NoRecord}]
  /\ head \in JournalHead
  /\ requests \subseteq [expected : JournalHead, proposed : JournalHead]
  /\ log \in Seq(RecordPaths)
  /\ cursor \in [Runtimes -> JournalHead]
  /\ applied \in [Runtimes -> Seq(RecordPaths)]
  /\ phase \in [Runtimes -> Phases]
  /\ walk \in [Runtimes -> Walk \cup {NoWalk}]
  /\ txn \in [Runtimes -> Txn \cup {NoTxn}]
  /\ attempt \in [Runtimes -> JournalHead]
  /\ acked \subseteq RecordPaths
  /\ crashes \in 0..MaxCrashes

\* What recover() meets on its way from the head is exactly the log: every
\* record the head ever named, whichever responses were lost and whoever
\* appended after it (the chain an uncertain append must not break).
ChainIsLog ==
  /\ head.position = Len(log)
  /\ head.path = IF log = <<>> THEN NoPath ELSE log[Len(log)]
  /\ \A i \in 1..Len(log) :
       /\ ValidAt(log[i], i)
       /\ records[log[i]].parent = IF i = 1 THEN NoPath ELSE log[i - 1]

\* An append that returned Ok, by its own response or by readback, is a record
\* of the lane, and stays one through crashes and later appends.
AckedAreCommitted == \A p \in acked : Committed(p)

\* The local state of every runtime is the result of a prefix of the lane: no
\* record is skipped, applied twice or applied without being committed.
ReplicasArePrefixes ==
  \A r \in Runtimes :
    /\ Len(applied[r]) <= Len(log)
    /\ \A i \in 1..Len(applied[r]) : applied[r][i] = log[i]

\* Owner generations along the lane never go back and never skip one, although
\* each append checks its epoch against a cursor that may be stale.
GenerationsFollow == EpochsMonotone(log)

\* A record carries the position it takes in the lane, so neither a restart
\* nor a synchronisation refuses it ("remote WAL record does not match its
\* journal position").
SequenceIsPosition ==
  \A i \in 1..Len(log) : records[log[i]].sequence = i

\* The record is one that its operation makes of the lane s: the operation may
\* run for its writer, and the generation is the owner's, or the next one.
AllowedAfter(record, s) ==
  /\ MayCommit(record.writer, record.kind, s)
  /\ record.epoch = OwnerEpoch(s) + (IF Advances(record.kind) THEN 1 ELSE 0)

\* A transaction during which its own runtime applied nothing else to the lane
\* commits only what its operation makes of the lane just before its record:
\* work, renewals and the handoff only for the current owner, everything under
\* the current generation or, for a new owner, the next.  The conditional head
\* write rejects every other one.
QuietCommitsAreFenced ==
  \A i \in 1..Len(log) :
    records[log[i]].base + 1 = records[log[i]].sequence =>
      AllowedAfter(records[log[i]], SubSeq(log, 1, i - 1))

\* The same without the condition, of the operations that ask for the owner: a
\* former owner commits nothing.  The code breaks it, because a background
\* synchronisation between the transaction's read and its append moves the
\* cursor the conditional write is made with.
FormerOwnersAreFenced ==
  \A i \in 1..Len(log) :
    records[log[i]].kind \notin {"claim", "return"} =>
      AllowedAfter(records[log[i]], SubSeq(log, 1, i - 1))

\* Replicas catch up, after lost responses, crashes and failed local writes: only
\* a record that does not carry its position can keep a runtime behind the lane.
ReplicasCatchUp ==
  []SequenceIsPosition => \A r \in Runtimes : <>[](applied[r] = log)

Shared == INSTANCE SharedLog WITH replica <- applied
ImplementsSharedLog == Shared!Spec


-----------------------------------------------------------------------------
(* The inductive invariant *)

\* h is a head the lane has had.
PastHead(h) ==
  \/ h = EmptyHead
  \/ /\ h.position \in 1..Len(log)
     /\ h.path = log[h.position]
     /\ h.epoch = records[h.path].epoch

HeadsArePast == PastHead(head) /\ \A r \in Runtimes : PastHead(cursor[r])

\* The record a head proposes has been uploaded as the head says.
Uploaded(h) ==
  /\ h.path \in RecordPaths
  /\ ValidAt(h.path, h.position)
  /\ records[h.path].epoch = h.epoch

\* A request proposes, as the successor of a head the lane has had, a record
\* of its own that is not in the lane yet.
RequestsAreProposals ==
  /\ \A q \in requests :
       /\ Uploaded(q.proposed)
       /\ PastHead(q.expected)
       /\ q.proposed.position = q.expected.position + 1
       /\ records[q.proposed.path].parent = q.expected.path
       /\ q.expected # EmptyHead =>
            q.proposed.epoch \in {q.expected.epoch, q.expected.epoch + 1}
       /\ ~Committed(q.proposed.path)
  /\ \A q1, q2 \in requests :
       q1.proposed.path = q2.proposed.path => q1 = q2

AttemptsAreUploaded ==
  \A r \in Runtimes : phase[r] \in {"waiting", "readback"} => Uploaded(attempt[r])

TransactionsHaveRead ==
  \A r \in Runtimes : phase[r] = "open" => txn[r] # NoTxn

\* What a walk has fetched so far is the part of the log below its head.
WalkFollowsLog(w) ==
  /\ PastHead(w.head)
  /\ w.expected + Len(w.tail) = w.head.position
  /\ w.path = IF w.expected = 0 THEN NoPath ELSE log[w.expected]
  /\ \A i \in 1..Len(w.tail) : w.tail[i] = log[w.expected + i]

WalksFollowLog ==
  \A r \in Runtimes : walk[r] # NoWalk => WalkFollowsLog(walk[r])

\* Inductive: the safety properties hold because every head anyone remembers,
\* proposes or walks from is a head the lane has had, or succeeds one.
JournalInv ==
  /\ TypeOK
  /\ ChainIsLog
  /\ HeadsArePast
  /\ RequestsAreProposals
  /\ AttemptsAreUploaded
  /\ TransactionsHaveRead
  /\ WalksFollowLog
  /\ ReplicasArePrefixes
  /\ AckedAreCommitted
  /\ GenerationsFollow

\* When local writes do not fail: the cursor and the local state of a running
\* runtime agree, and a synchronisation ends where the local state does.
CursorAgrees(r) ==
  /\ phase[r] # "down" => cursor[r].position = Len(applied[r])
  /\ phase[r] \in {"waiting", "readback"} =>
       walk[r] = NoWalk /\ attempt[r].position = Len(applied[r]) + 1
  /\ walk[r] # NoWalk =>
       /\ Len(applied[r]) <= walk[r].expected
       /\ walk[r].purpose # "open" => phase[r] # "down"

\* Then an append proposes the position its sequence says.
SequencesAgree ==
  /\ \A p \in RecordPaths :
       records[p] # NoRecord => records[p].sequence = records[p].position
  /\ \A r \in Runtimes : CursorAgrees(r)

\* A transaction read the owner record as a prefix of the lane shows it.
ReadsAreOfPrefixes ==
  \A r \in Runtimes : phase[r] = "open" =>
    /\ txn[r].base <= Len(applied[r])
    /\ txn[r].epoch = OwnerEpoch(SubSeq(log, 1, txn[r].base))
    /\ MayCommit(r, txn[r].kind, SubSeq(log, 1, txn[r].base))

\* A quiet record, committed or not, is what its operation makes of its base.
QuietRecordsAreAllowed ==
  \A p \in RecordPaths :
    /\ records[p] # NoRecord
    /\ records[p].base + 1 = records[p].sequence
    => /\ records[p].base <= Len(log)
       /\ AllowedAfter(records[p], SubSeq(log, 1, records[p].base))

=============================================================================
