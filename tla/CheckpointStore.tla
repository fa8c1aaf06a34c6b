-------------------------- MODULE CheckpointStore --------------------------
(***************************************************************************)
(* Recovery of one server in local_checkpoint mode: DurableStore in        *)
(* storage.rs, with the callers of checkpoint() in maintenance.rs.         *)
(*                                                                         *)
(* A commit writes a durable WAL file and then applies it to RocksDB, which *)
(* runs without a log of its own: what it has not flushed is lost in a     *)
(* crash.  A checkpoint copies the database under all sequence locks, is   *)
(* published later under the publication lock, and publication deletes the *)
(* WAL files and the older checkpoints it makes unnecessary, file by file. *)
(* Several requests and the maintenance loop prepare and publish at once.  *)
(*                                                                         *)
(* A start uses the state directory when it is not empty, restores the     *)
(* published checkpoint into it otherwise, and replays the WAL.            *)
(***************************************************************************)
EXTENDS Integers, Sequences, FiniteSets

CONSTANTS
  LastLane,            \* the lanes are 0 .. LastLane
  Records,             \* what a WAL record may do to its lane
  NoRecord,            \* there is no WAL file
  SnapshotIds,         \* bound: names of checkpoint directories in use
  NoSnapshot,          \* there is no manifest
  Requests,            \* threads that checkpoint on request
  Maintenance,         \* the thread of the maintenance loop
  Threshold,           \* records worth a checkpoint: 512 in the code
  MaxSequence,         \* bound: records of a lane
  MaxRequested,        \* bound: directories while requests make new ones
  MaxFaults            \* bound: crashes and failed I/O

Lanes == 0 .. LastLane
Publishers == Requests \cup {Maintenance}

ASSUME CheckpointAssumption ==
  /\ LastLane \in Nat /\ Threshold \in Nat /\ MaxSequence \in Nat /\ MaxRequested \in Nat
  /\ MaxFaults \in Nat
  /\ NoRecord \notin Records /\ NoSnapshot \notin SnapshotIds

VARIABLES
  wal,         \* [lane -> [sequence -> the WAL file's record, or NoRecord]]
  disk,        \* [lane -> the records in the flushed part of RocksDB]
  stateDir,    \* "absent", "partial" or "complete"
  snapshots,   \* the checkpoint directories
  manifest,    \* checkpoint-manifest.json
  phase,       \* "up", "down" or "restoring"
  db,          \* [lane -> the records the running database shows]
  commit,      \* [lane -> the record on file that is not applied yet]
  publisher,   \* [thread -> the checkpoint it is working on]
  settled,     \* [lane -> what callers were told of or readers could see]
  faults,      \* faults so far
  misread      \* whether a start has taken part of a copy for a database

files == <<wal, snapshots, manifest>>
server == <<phase, db, commit, publisher>>
vars == <<wal, disk, stateDir, snapshots, manifest, phase, db, commit,
          publisher, settled, faults, misread>>

-----------------------------------------------------------------------------
(* Values *)

\* The state of a lane is the sequence of records applied to it.
States == [Lanes -> Seq(Records)]
Empty == [l \in Lanes |-> <<>>]

Vectors == [Lanes -> Nat]
VectorOf(state) == [l \in Lanes |-> Len(state[l])]
Zero == [l \in Lanes |-> 0]
AtLeast(v, w) == \A l \in Lanes : w[l] <= v[l]

\* The sequence of a checkpoint: how many records its cut holds.
Total(v) == Cardinality({p \in Lanes \X (1 .. MaxSequence) : p[2] <= v[p[1]]})

Snapshot == [id : SnapshotIds, data : States]
Manifest == [id : SnapshotIds \cup {NoSnapshot}, vector : Vectors]
NoManifest == [id |-> NoSnapshot, vector |-> Zero]

\* What a publisher does next.
Steps == {"idle", "check", "write", "trim", "remove"}
Idle == [step |-> "idle", id |-> NoSnapshot, vector |-> Zero]

TypeOK ==
  /\ wal \in [Lanes -> [1 .. MaxSequence -> Records \cup {NoRecord}]]
  /\ disk \in States /\ db \in States /\ settled \in States
  /\ stateDir \in {"absent", "partial", "complete"}
  /\ snapshots \subseteq Snapshot
  /\ manifest \in Manifest
  /\ phase \in {"up", "down", "restoring"}
  /\ commit \in [Lanes -> Records \cup {NoRecord}]
  /\ publisher \in [Publishers -> [step : Steps, vector : Vectors,
                                   id : SnapshotIds \cup {NoSnapshot}]]
  /\ faults \in 0 .. MaxFaults
  /\ misread \in BOOLEAN

-----------------------------------------------------------------------------
(* Replay: the WAL files above the applied sequence, which must follow it. *)

TailAbove(l, n) == {s \in 1 .. MaxSequence : s > n /\ wal[l][s] # NoRecord}

Gapless(l, n) ==
  \A s \in TailAbove(l, n) : \A t \in n + 1 .. s : wal[l][t] # NoRecord

Replayed(state, l) ==
  state[l] \o [i \in 1 .. Cardinality(TailAbove(l, Len(state[l]))) |->
                 wal[l][Len(state[l]) + i]]

IsPrefixOf(s, t) == Len(s) <= Len(t) /\ \A i \in 1 .. Len(s) : s[i] = t[i]

-----------------------------------------------------------------------------
Init ==
  /\ wal = [l \in Lanes |-> [s \in 1 .. MaxSequence |-> NoRecord]]
  /\ disk = Empty /\ db = Empty /\ settled = Empty
  /\ stateDir = "complete"
  /\ snapshots = {} /\ manifest = NoManifest
  /\ phase = "up"
  /\ commit = [l \in Lanes |-> NoRecord]
  /\ publisher = [p \in Publishers |-> Idle]
  /\ faults = 0
  /\ misread = FALSE

Fault == faults < MaxFaults /\ faults' = faults + 1

-----------------------------------------------------------------------------
(* Commits.  A lane's sequence lock is held while commit[l] is a record.    *)

\* Up to the rename and the sync of the directory.  The file replaces one that
\* a commit which failed later has left.
WriteWal(l, r) ==
  /\ phase = "up"
  /\ commit[l] = NoRecord
  /\ Len(db[l]) < MaxSequence
  /\ wal' = [wal EXCEPT ![l][Len(db[l]) + 1] = r]
  /\ commit' = [commit EXCEPT ![l] = r]
  /\ UNCHANGED <<disk, stateDir, snapshots, manifest, phase, db, publisher,
                 settled, faults, misread>>

\* Mutant: a lane's sequence advances although no record was written.
ApplyUnwritten(l) ==
  /\ phase = "up"
  /\ Len(db[l]) < MaxSequence
  /\ db' = [db EXCEPT ![l] = Append(@, commit[l])]
  /\ settled' = [settled EXCEPT ![l] = Append(db[l], commit[l])]
  /\ commit' = [commit EXCEPT ![l] = NoRecord]
  /\ UNCHANGED <<files, disk, stateDir, phase, publisher, faults, misread>>

\* apply_record, and the caller gets Ok.
Apply(l) ==
  /\ phase = "up"
  /\ commit[l] # NoRecord
  /\ db' = [db EXCEPT ![l] = Append(@, commit[l])]
  /\ settled' = [settled EXCEPT ![l] = Append(db[l], commit[l])]
  /\ commit' = [commit EXCEPT ![l] = NoRecord]
  /\ UNCHANGED <<files, disk, stateDir, phase, publisher, faults, misread>>

\* The directory's sync or RocksDB's write fails; the sequence stays.
CommitFails(l) ==
  /\ phase = "up"
  /\ commit[l] # NoRecord
  /\ commit' = [commit EXCEPT ![l] = NoRecord]
  /\ Fault
  /\ UNCHANGED <<files, disk, stateDir, phase, db, publisher, settled, misread>>

\* RocksDB flushes its memtable on its own.
Flush ==
  /\ phase = "up"
  /\ disk # db
  /\ disk' = db
  /\ UNCHANGED <<files, server, stateDir, settled, faults, misread>>

-----------------------------------------------------------------------------
(* Checkpoints *)

Busy(id) == \/ \E s \in snapshots : s.id = id
            \/ \E p \in Publishers : publisher[p].id = id
FreshIds == {id \in SnapshotIds : ~Busy(id)}

\* Records not yet in the published checkpoint, none for a lane that is behind it.
Uncheckpointed == Cardinality({p \in Lanes \X (1 .. MaxSequence) :
                                 p[2] > manifest.vector[p[1]] /\ p[2] <= Len(db[p[1]])})

\* Mutant: maintenance waits for one record more.
WantedAbove(p) == IF p = Maintenance THEN Uncheckpointed > Threshold
                                     ELSE Cardinality(snapshots) < MaxRequested

\* create_checkpoint and the barrier at any time, maintenance when there is
\* enough to do.  Bound: requests come while there are few directories.
Wanted(p) == IF p = Maintenance THEN Uncheckpointed >= Threshold
                                ELSE Cardinality(snapshots) < MaxRequested

\* prepare_checkpoint: under all sequence locks the vector is read, the
\* database flushed and copied, and the copy renamed into place.
Prepare(p) ==
  /\ phase = "up"
  /\ publisher[p].step = "idle"
  /\ \A l \in Lanes : commit[l] = NoRecord
  /\ Wanted(p) /\ FreshIds # {}
  /\ disk' = db
  /\ LET id == CHOOSE i \in FreshIds : TRUE IN
     /\ snapshots' = snapshots \cup {[id |-> id, data |-> db]}
     /\ publisher' = [publisher EXCEPT ![p] =
                        [step |-> "check", id |-> id, vector |-> VectorOf(db)]]
  /\ UNCHANGED <<wal, manifest, stateDir, phase, db, commit, settled, faults, misread>>

Publishing(p) == publisher[p].step \in {"write", "trim", "remove"}
PublicationLockFree == \A p \in Publishers : ~Publishing(p)

Advance(p, next) == publisher' = [publisher EXCEPT ![p].step = next]
Finish(p) == publisher' = [publisher EXCEPT ![p] = Idle]

\* Mutant: any checkpoint that exists may be published.
CheckExists(p) ==
  /\ publisher[p].step = "check"
  /\ PublicationLockFree
  /\ IF \E s \in snapshots : s.id = publisher[p].id
     THEN Advance(p, "write") ELSE Finish(p)
  /\ UNCHANGED <<files, disk, stateDir, phase, db, commit, settled, faults, misread>>

\* Mutant: the check is made before the publication lock is taken.
CheckUnlocked(p) ==
  /\ publisher[p].step = "check"
  /\ IF /\ AtLeast(publisher[p].vector, manifest.vector)
        /\ \E s \in snapshots : s.id = publisher[p].id
     THEN Advance(p, "write") ELSE Finish(p)
  /\ UNCHANGED <<files, disk, stateDir, phase, db, commit, settled, faults, misread>>

\* publish_checkpoint takes the publication lock and refuses a vector that
\* would regress, and a directory that is gone.
Check(p) ==
  /\ publisher[p].step = "check"
  /\ PublicationLockFree
  /\ IF /\ AtLeast(publisher[p].vector, manifest.vector)
        /\ \E s \in snapshots : s.id = publisher[p].id
     THEN Advance(p, "write") ELSE Finish(p)
  /\ UNCHANGED <<files, disk, stateDir, phase, db, commit, settled, faults, misread>>

\* The manifest is replaced by a rename.
WriteManifest(p) ==
  /\ publisher[p].step = "write"
  /\ manifest' = [id |-> publisher[p].id, vector |-> publisher[p].vector]
  /\ Advance(p, "trim")
  /\ UNCHANGED <<wal, snapshots, disk, stateDir, phase, db, commit, settled, faults, misread>>

\* The WAL files the checkpoint covers, lane by lane; within a lane they are
\* deleted in the order the directory lists them, whatever it is.
Trimmable(p, l) == {s \in 1 .. MaxSequence :
                      s <= publisher[p].vector[l] /\ wal[l][s] # NoRecord}

Trim(p, l) ==
  /\ publisher[p].step = "trim"
  /\ \A k \in Lanes : k < l => Trimmable(p, k) = {}
  /\ \E s \in Trimmable(p, l) : wal' = [wal EXCEPT ![l][s] = NoRecord]
  /\ UNCHANGED <<snapshots, manifest, disk, stateDir, server, settled, faults, misread>>

TrimDone(p) ==
  /\ publisher[p].step = "trim"
  /\ \A l \in Lanes : Trimmable(p, l) = {}
  /\ Advance(p, "remove")
  /\ UNCHANGED <<files, disk, stateDir, phase, db, commit, settled, faults, misread>>

\* Mutant: checkpoints of the same cut count as older ones.
OlderOrEqual(p) == {s \in snapshots :
                      Total(VectorOf(s.data)) <= Total(publisher[p].vector)}

\* Checkpoint directories of earlier cuts; prepared ones are never among them.
Older(p) == {s \in snapshots :
               Total(VectorOf(s.data)) < Total(publisher[p].vector)}

\* All but the latest of them are deleted, in the order of their names.
RemoveOldest(p) ==
  /\ publisher[p].step = "remove"
  /\ Cardinality(Older(p)) > 1
  /\ \E s \in Older(p) :
       /\ \A t \in Older(p) : Total(VectorOf(s.data)) <= Total(VectorOf(t.data))
       /\ snapshots' = snapshots \ {s}
  /\ UNCHANGED <<wal, manifest, disk, stateDir, server, settled, faults, misread>>

Published(p) ==
  /\ publisher[p].step = "remove"
  /\ Cardinality(Older(p)) <= 1
  /\ Finish(p)
  /\ UNCHANGED <<files, disk, stateDir, phase, db, commit, settled, faults, misread>>

\* Writing the manifest or deleting a file fails; what was done stays done.
PublicationFails(p) ==
  /\ Publishing(p)
  /\ Finish(p)
  /\ Fault
  /\ UNCHANGED <<files, disk, stateDir, phase, db, commit, settled, misread>>

-----------------------------------------------------------------------------
(* Crashes and starts *)

\* The server stops; the local RocksDB may be lost with it.
Crash ==
  /\ phase = "up"
  /\ phase' = "down"
  /\ db' = Empty
  /\ commit' = [l \in Lanes |-> NoRecord]
  /\ publisher' = [p \in Publishers |-> Idle]
  /\ \/ UNCHANGED <<disk, stateDir>>
     \/ stateDir' = "absent" /\ disk' = Empty
  /\ Fault
  /\ UNCHANGED <<files, settled, misread>>

\* copy_checkpoint creates the state directory and copies file by file.
StartRestore ==
  /\ phase = "down"
  /\ stateDir = "absent"
  /\ manifest # NoManifest
  /\ phase' = "restoring"
  /\ stateDir' = "partial"
  /\ UNCHANGED <<files, disk, db, commit, publisher, settled, faults, misread>>

FinishRestore ==
  /\ phase = "restoring"
  /\ \E s \in snapshots : s.id = manifest.id /\ disk' = s.data
  /\ stateDir' = "complete"
  /\ phase' = "down"
  /\ UNCHANGED <<files, db, commit, publisher, settled, faults, misread>>

\* What has been copied stays; if that is nothing, the directory is as good as
\* absent.
InterruptRestore ==
  /\ phase = "restoring"
  /\ phase' = "down"
  /\ stateDir' \in {"absent", "partial"}
  /\ Fault
  /\ UNCHANGED <<files, disk, db, commit, publisher, settled, misread>>

\* RocksDB creates a database in a directory that has no CURRENT file, be it
\* empty or a part of a copy.  (A copy that has one, but not all it names, is
\* refused as corrupt: the server stays down.)  The start fails when replay
\* meets a gap.
Open ==
  /\ phase = "down"
  /\ stateDir = "absent" => manifest = NoManifest
  /\ \A l \in Lanes : Gapless(l, Len(disk[l]))
  /\ db' = [l \in Lanes |-> Replayed(disk, l)]
  /\ settled' = [l \in Lanes |->
       IF Len(db'[l]) > Len(settled[l]) THEN db'[l] ELSE settled[l]]
  /\ stateDir' = "complete"
  /\ misread' = (misread \/ stateDir = "partial")
  /\ phase' = "up"
  /\ UNCHANGED <<files, disk, commit, publisher, faults>>

-----------------------------------------------------------------------------
Publish(p) == \/ Check(p) \/ WriteManifest(p)
              \/ \E l \in Lanes : Trim(p, l)
              \/ TrimDone(p) \/ RemoveOldest(p) \/ Published(p)
Restart == StartRestore \/ FinishRestore \/ Open

Next ==
  \/ \E l \in Lanes : (\E r \in Records : WriteWal(l, r)) \/ Apply(l) \/ CommitFails(l)
  \/ Flush
  \/ \E p \in Publishers : Prepare(p) \/ Publish(p) \/ PublicationFails(p)
  \/ Crash \/ Restart \/ InterruptRestore

Spec == Init /\ [][Next]_vars

\* A commit under way returns, the maintenance loop comes round again, threads
\* go on, and a server that is down is started.
Fairness ==
  /\ WF_vars(\E l \in Lanes : Apply(l) \/ CommitFails(l))
  /\ SF_vars(Prepare(Maintenance))
  /\ \A p \in Publishers : WF_vars(Publish(p))
  /\ WF_vars(Restart)

FairSpec == Spec /\ Fairness

-----------------------------------------------------------------------------
(* Properties *)

\* The state a start would begin its replay from if the state directory were
\* lost now.
Restored ==
  IF manifest = NoManifest THEN Empty
  ELSE (CHOOSE s \in snapshots : s.id = manifest.id).data

\* The published checkpoint can be restored: publishers that race with it, and
\* their cleanup, never delete its directory (publish_checkpoint).
ManifestNamesASnapshot ==
  manifest # NoManifest =>
    \E s \in snapshots : s.id = manifest.id /\ VectorOf(s.data) = manifest.vector

\* What a start could begin with, now: the flushed part of the database, or,
\* if that is lost, the checkpoint.
Bases == {Restored} \cup (IF stateDir = "complete" THEN {disk} ELSE {})

\* A server that is up shows what is settled, and what a start could begin with
\* brings it back: its replay meets no gap.
Recoverable ==
  /\ phase = "up" => db = settled
  /\ \A base \in Bases : \A l \in Lanes :
       /\ Gapless(l, Len(base[l]))
       /\ IsPrefixOf(settled[l], Replayed(base, l))

\* A crash at any moment, also one that loses the state directory or hits a
\* restore, loses no record that a caller was told of or that a reader saw, and
\* replay meets no gap: whatever publications and cleanups were going on, and
\* wherever one of them stopped ("WAL shard N sequence M is missing",
\* DurableStore), until a start takes part of a copy for a database.
SettledAreRecoverable == ~misread => Recoverable

\* Loss of the local RocksDB is made good from the checkpoint and the WAL
\* (docs/DURABILITY.md:31).  The code does not keep this: a start after a crash
\* during the restore finds a directory that is not empty and restores nothing
\* (DurableStore::open_sharded_with_journal).
LossOfRocksDBIsRecovered == Recoverable

\* A late publication never moves the recovery point back in any lane
\* ("checkpoint publication would regress partition"), not even that of a server
\* which came up with less than it had.
RecoveryPointAdvances == [][AtLeast(manifest'.vector, manifest.vector)]_vars

\* The tail a start must replay does not stay long: the maintenance loop gets
\* it checkpointed, against competing requests and through faults, unless a start
\* takes part of a copy for a database.
TailIsCheckpointed ==
  []<>(misread \/ (phase = "up" => Uncheckpointed < Threshold))
=============================================================================
