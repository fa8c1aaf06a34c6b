-------------------------- MODULE CheckpointProofs --------------------------
(***************************************************************************)
(* Proofs about CheckpointStore, for any lanes, records, publishers, and   *)
(* any number of crashes and failures.                                     *)
(***************************************************************************)
EXTENDS CheckpointStore, FiniteSetTheorems, SequenceTheorems, TLAPS

-----------------------------------------------------------------------------
(* The inductive invariant *)

\* Publication: a checkpoint keeps its name and its vector while somebody works
\* on it, one thread publishes at a time, it has checked what it writes, and
\* nobody takes its checkpoint away.
PublicationInv ==
  /\ \A s, t \in snapshots : s.id = t.id => s = t
  /\ \A p \in Publishers : \A s \in snapshots :
       s.id = publisher[p].id => VectorOf(s.data) = publisher[p].vector
  /\ \A p, q \in Publishers : Publishing(p) /\ Publishing(q) => p = q
  /\ \A p \in Publishers : publisher[p].step = "write" =>
       /\ AtLeast(publisher[p].vector, manifest.vector)
       /\ publisher[p].id \in SnapshotIds
       /\ \E s \in snapshots : s.id = publisher[p].id
  /\ \A p \in Publishers : publisher[p].step \in {"trim", "remove"} =>
       manifest = [id |-> publisher[p].id, vector |-> publisher[p].vector]
  /\ ManifestNamesASnapshot

\* A lane's WAL files hold what is settled, all of it from the checkpoint on,
\* and at most one record more.
WalInv ==
  \A l \in Lanes :
    /\ Len(settled[l]) <= MaxSequence
    /\ \A s \in 1 .. MaxSequence :
         /\ wal[l][s] # NoRecord /\ s <= Len(settled[l]) => wal[l][s] = settled[l][s]
         /\ wal[l][s] # NoRecord => s <= Len(settled[l]) + 1
         /\ manifest.vector[l] < s /\ s <= Len(settled[l]) => wal[l][s] # NoRecord
    /\ commit[l] # NoRecord =>
         /\ phase = "up" /\ Len(db[l]) < MaxSequence
         /\ wal[l][Len(db[l]) + 1] = commit[l]

\* What is copied or flushed is a prefix of what is settled, not behind the
\* checkpoint that a publisher works on or has published.
CopiesInv ==
  /\ phase = "up" => stateDir = "complete" /\ db = settled
  /\ phase = "restoring" => stateDir = "partial"
  /\ stateDir # "complete" => disk = Empty
  /\ stateDir = "complete" =>
       \A l \in Lanes : IsPrefixOf(disk[l], settled[l]) /\ manifest.vector[l] <= Len(disk[l])
  /\ \A s \in snapshots : \A l \in Lanes : IsPrefixOf(s.data[l], settled[l])
  /\ \A p \in Publishers : publisher[p].step # "idle" =>
       phase = "up" /\ AtLeast(VectorOf(disk), publisher[p].vector)

RecoveryInv == ~misread => WalInv /\ CopiesInv

CheckpointInv == TypeOK /\ PublicationInv /\ RecoveryInv

-----------------------------------------------------------------------------
(* Vectors and states *)

\* The vector of a state has a position for every lane.
LEMMA VectorType ==
  ASSUME NEW state \in States
  PROVE  VectorOf(state) \in Vectors
BY DEF States, VectorOf, Vectors

\* The sequence of a checkpoint is a number.
LEMMA TotalIsNat ==
  ASSUME NEW v \in Vectors
  PROVE  Total(v) \in Nat
<1>1. IsFiniteSet(Lanes) /\ IsFiniteSet(1 .. MaxSequence)
  BY FS_Interval, CheckpointAssumption DEF Lanes
<1>2. IsFiniteSet(Lanes \X (1 .. MaxSequence))
  BY <1>1, FS_Product
<1>3. {p \in Lanes \X (1 .. MaxSequence) : p[2] <= v[p[1]]} \subseteq Lanes \X (1 .. MaxSequence)
  OBVIOUS
<1>4. IsFiniteSet({p \in Lanes \X (1 .. MaxSequence) : p[2] <= v[p[1]]})
  BY <1>2, <1>3, FS_Subset
<1> QED BY <1>4, FS_CardinalityType DEF Total

\* Vectors are ordered lane by lane.
LEMMA AtLeastReflexive ==
  ASSUME NEW v \in Vectors
  PROVE  AtLeast(v, v)
BY DEF AtLeast, Vectors

\* What is at least a vector is at least all below it.
LEMMA AtLeastTransitive ==
  ASSUME NEW u \in Vectors, NEW v \in Vectors, NEW w \in Vectors,
         AtLeast(u, v), AtLeast(v, w)
  PROVE  AtLeast(u, w)
BY DEF AtLeast, Vectors

\* Prefixes are ordered as well.
LEMMA PrefixReflexive ==
  ASSUME NEW s \in Seq(Records)
  PROVE  IsPrefixOf(s, s)
BY DEF IsPrefixOf

\* A prefix of a prefix is a prefix.
LEMMA PrefixTransitive ==
  ASSUME NEW s \in Seq(Records), NEW t \in Seq(Records), NEW u \in Seq(Records),
         IsPrefixOf(s, t), IsPrefixOf(t, u)
  PROVE  IsPrefixOf(s, u)
BY DEF IsPrefixOf

\* One more record leaves what was there.
LEMMA PrefixOfAppend ==
  ASSUME NEW t \in Seq(Records), NEW r \in Records
  PROVE  IsPrefixOf(t, Append(t, r))
BY DEF IsPrefixOf

-----------------------------------------------------------------------------
(* Replay *)

WalType == wal \in [Lanes -> [1 .. MaxSequence -> Records \cup {NoRecord}]]

\* A tail without a gap is an interval: every member brings all below it, so
\* none is further up than there are members.
LEMMA TailIsInterval ==
  ASSUME WalType, NEW l \in Lanes, NEW n \in Nat, Gapless(l, n)
  PROVE  \E c \in Nat : /\ TailAbove(l, n) = n + 1 .. n + c
                        /\ Cardinality(TailAbove(l, n)) = c
<1> DEFINE tail == TailAbove(l, n)
<1> PICK c : c = Cardinality(tail)
  OBVIOUS
<1>1. MaxSequence \in Nat
  BY CheckpointAssumption
<1>2. tail \subseteq 1 .. MaxSequence /\ IsFiniteSet(tail) /\ c \in Nat
  <2>1. tail \subseteq 1 .. MaxSequence
    BY DEF TailAbove
  <2>2. IsFiniteSet(1 .. MaxSequence)
    BY <1>1, FS_Interval
  <2> QED BY <2>1, <2>2, FS_Subset, FS_CardinalityType
<1>3. ASSUME NEW s \in tail PROVE s \in n + 1 .. n + c
  <2>1. s \in Nat /\ n < s /\ s <= MaxSequence
    BY <1>1 DEF TailAbove
  <2>2. n + 1 .. s \subseteq tail
    BY <1>1, <2>1 DEF Gapless, TailAbove
  <2>3. Cardinality(n + 1 .. s) = s - n
    <3>1. n + 1 \in Int /\ s \in Int
      BY <2>1
    <3>2. Cardinality(n + 1 .. s) = IF n + 1 > s THEN 0 ELSE s - (n + 1) + 1
      BY <3>1, FS_Interval
    <3> QED BY <3>2, <2>1
  <2>4. Cardinality(n + 1 .. s) <= c
    BY <1>2, <2>2, FS_Subset
  <2> HIDE DEF tail
  <2> QED BY <1>2, <2>1, <2>3, <2>4
<1>4. tail = n + 1 .. n + c
  <2> HIDE DEF tail
  <2>1. PICK m : m = n + c
    OBVIOUS
  <2>2. n + 1 \in Int /\ m \in Int
    BY <1>2, <2>1
  <2>3. IsFiniteSet(n + 1 .. m)
    BY <2>2, FS_Interval
  <2>4. Cardinality(n + 1 .. m) = IF n + 1 > m THEN 0 ELSE m - (n + 1) + 1
    BY <2>2, FS_Interval
  <2>5. Cardinality(n + 1 .. m) = Cardinality(tail)
    BY <1>2, <2>1, <2>4
  <2>6. tail \in SUBSET (n + 1 .. m)
    BY <1>3, <2>1
  <2> QED BY <2>1, <2>3, <2>5, <2>6, FS_Subset
<1> QED BY <1>2, <1>4

\* Replay appends the WAL files above what is applied.
LEMMA ReplayedIs ==
  ASSUME WalType, NEW state \in States, NEW l \in Lanes, Gapless(l, Len(state[l]))
  PROVE  \E c \in Nat :
           /\ TailAbove(l, Len(state[l])) = Len(state[l]) + 1 .. Len(state[l]) + c
           /\ Replayed(state, l) \in Seq(Records)
           /\ Len(Replayed(state, l)) = Len(state[l]) + c
           /\ \A i \in 1 .. Len(state[l]) : Replayed(state, l)[i] = state[l][i]
           /\ \A i \in Len(state[l]) + 1 .. Len(state[l]) + c : Replayed(state, l)[i] = wal[l][i]
<1> DEFINE n == Len(state[l])
<1>1. state[l] \in Seq(Records) /\ n \in Nat
  BY DEF States
<1> HIDE DEF n
<1>2. PICK c \in Nat : TailAbove(l, n) = n + 1 .. n + c /\ Cardinality(TailAbove(l, n)) = c
  BY <1>1, TailIsInterval DEF n
<1> PICK tail : tail = [i \in 1 .. c |-> wal[l][n + i]]
  OBVIOUS
<1>3. tail \in Seq(Records)
  <2>1. ASSUME NEW i \in 1 .. c PROVE wal[l][n + i] \in Records
    <3>1. n + i \in TailAbove(l, n)
      BY <1>1, <1>2
    <3> QED BY <3>1 DEF TailAbove, WalType
  <2> QED BY <2>1
<1>4. Len(tail) = c /\ \A i \in 1 .. c : tail[i] = wal[l][n + i]
  OBVIOUS
<1>5. Replayed(state, l) = state[l] \o tail
  BY <1>2 DEF Replayed, n
<1>6. /\ Replayed(state, l) \in Seq(Records)
      /\ Len(Replayed(state, l)) = n + c
      /\ \A i \in 1 .. n + c : Replayed(state, l)[i] = IF i <= n THEN state[l][i] ELSE tail[i - n]
  <2>1. /\ state[l] \o tail \in Seq(Records)
        /\ Len(state[l] \o tail) = Len(state[l]) + Len(tail)
        /\ \A i \in 1 .. Len(state[l]) + Len(tail) :
             (state[l] \o tail)[i] = IF i <= Len(state[l]) THEN state[l][i]
                                                         ELSE tail[i - Len(state[l])]
    BY <1>1, <1>3, ConcatProperties
  <2> QED BY <2>1, <1>4, <1>5 DEF n
<1>7. \A i \in 1 .. n : Replayed(state, l)[i] = state[l][i]
  BY <1>1, <1>6
<1>8. ASSUME NEW i \in n + 1 .. n + c PROVE Replayed(state, l)[i] = wal[l][i]
  <2>1. i - n \in 1 .. c /\ i \in 1 .. n + c /\ ~(i <= n) /\ n + (i - n) = i
    BY <1>1
  <2> QED BY <2>1, <1>4, <1>6
<1> QED BY <1>2, <1>6, <1>7, <1>8 DEF n

-----------------------------------------------------------------------------
(* Type correctness *)

\* A prepared checkpoint gets a name that is not in use.
LEMMA PrepareIs ==
  ASSUME NEW p \in Publishers, Prepare(p)
  PROVE  \E id \in FreshIds :
           /\ snapshots' = snapshots \cup {[id |-> id, data |-> db]}
           /\ publisher' = [publisher EXCEPT ![p] =
                              [step |-> "check", id |-> id, vector |-> VectorOf(db)]]
<1>1. (CHOOSE i \in FreshIds : TRUE) \in FreshIds
  BY DEF Prepare
<1> QED BY <1>1 DEF Prepare

\* A database without records is a state.
LEMMA EmptyIsState == Empty \in States
BY DEF Empty, States

\* Every step of the store keeps the types.
LEMMA TypePreserved ==
  ASSUME TypeOK, [Next]_vars
  PROVE  TypeOK'
<1> USE DEF TypeOK
<1>1. ASSUME NEW l \in Lanes, NEW r \in Records, WriteWal(l, r) PROVE TypeOK'
  <2>1. Len(db[l]) + 1 \in 1 .. MaxSequence
    BY <1>1, CheckpointAssumption DEF WriteWal, States
  <2>2. wal' \in [Lanes -> [1 .. MaxSequence -> Records \cup {NoRecord}]]
    BY <1>1, <2>1 DEF WriteWal
  <2>3. commit' \in [Lanes -> Records \cup {NoRecord}]
    BY <1>1 DEF WriteWal
  <2> QED BY <1>1, <2>2, <2>3 DEF WriteWal
<1>2. ASSUME NEW l \in Lanes, Apply(l) PROVE TypeOK'
  <2>1. commit[l] \in Records /\ db[l] \in Seq(Records)
    BY <1>2 DEF Apply, States
  <2>2. Append(db[l], commit[l]) \in Seq(Records)
    BY <2>1
  <2>3. db' \in States /\ settled' \in States
    BY <1>2, <2>2 DEF Apply, States
  <2>4. commit' \in [Lanes -> Records \cup {NoRecord}]
    BY <1>2 DEF Apply
  <2> QED BY <1>2, <2>3, <2>4 DEF Apply, files
<1>3. ASSUME NEW l \in Lanes, CommitFails(l) PROVE TypeOK'
  <2>1. commit' \in [Lanes -> Records \cup {NoRecord}]
    BY <1>3 DEF CommitFails
  <2>2. faults' \in 0 .. MaxFaults
    BY <1>3, CheckpointAssumption DEF CommitFails, Fault
  <2> QED BY <1>3, <2>1, <2>2 DEF CommitFails, files
<1>4. ASSUME Flush PROVE TypeOK'
  BY <1>4 DEF Flush, files, server
<1>5. ASSUME NEW p \in Publishers, Prepare(p) PROVE TypeOK'
  <2>1. PICK id \in FreshIds :
          /\ snapshots' = snapshots \cup {[id |-> id, data |-> db]}
          /\ publisher' = [publisher EXCEPT ![p] =
                             [step |-> "check", id |-> id, vector |-> VectorOf(db)]]
    BY <1>5, PrepareIs
  <2>2. id \in SnapshotIds
    BY DEF FreshIds
  <2>3. snapshots' \subseteq Snapshot
    BY <2>1, <2>2 DEF Snapshot
  <2>4. VectorOf(db) \in Vectors
    BY VectorType
  <2>5. publisher' \in [Publishers -> [step : Steps, vector : Vectors,
                                       id : SnapshotIds \cup {NoSnapshot}]]
    BY <2>1, <2>2, <2>4 DEF Steps
  <2> QED BY <1>5, <2>3, <2>5 DEF Prepare
<1>6. ASSUME NEW p \in Publishers, NEW next \in Steps, Advance(p, next) PROVE
        publisher' \in [Publishers -> [step : Steps, vector : Vectors,
                                       id : SnapshotIds \cup {NoSnapshot}]]
  BY <1>6 DEF Advance
<1>7. ASSUME NEW p \in Publishers, Finish(p) PROVE
        publisher' \in [Publishers -> [step : Steps, vector : Vectors,
                                       id : SnapshotIds \cup {NoSnapshot}]]
  BY <1>7 DEF Finish, Idle, Zero, Vectors, Steps
<1>8. ASSUME NEW p \in Publishers, Check(p) PROVE TypeOK'
  <2>1. Advance(p, "write") \/ Finish(p)
    BY <1>8 DEF Check
  <2> QED BY <1>6, <1>7, <1>8, <2>1 DEF Check, files, Steps
<1>9. ASSUME NEW p \in Publishers, WriteManifest(p) PROVE TypeOK'
  <2>1. publisher' \in [Publishers -> [step : Steps, vector : Vectors,
                                       id : SnapshotIds \cup {NoSnapshot}]]
    BY <1>6, <1>9 DEF WriteManifest, Steps
  <2>2. manifest' \in Manifest
    BY <1>9 DEF WriteManifest, Manifest
  <2> QED BY <1>9, <2>1, <2>2 DEF WriteManifest
<1>10. ASSUME NEW p \in Publishers, NEW l \in Lanes, Trim(p, l) PROVE TypeOK'
  <2>1. PICK s \in 1 .. MaxSequence : wal' = [wal EXCEPT ![l][s] = NoRecord]
    BY <1>10 DEF Trim, Trimmable
  <2>2. wal' \in [Lanes -> [1 .. MaxSequence -> Records \cup {NoRecord}]]
    BY <2>1
  <2> QED BY <1>10, <2>2 DEF Trim, server
<1>11. ASSUME NEW p \in Publishers, TrimDone(p) PROVE TypeOK'
  BY <1>6, <1>11 DEF TrimDone, files, Steps
<1>12. ASSUME NEW p \in Publishers, RemoveOldest(p) PROVE TypeOK'
  <2>1. snapshots' \subseteq Snapshot
    BY <1>12 DEF RemoveOldest
  <2> QED BY <1>12, <2>1 DEF RemoveOldest, server
<1>13. ASSUME NEW p \in Publishers, Published(p) PROVE TypeOK'
  BY <1>7, <1>13 DEF Published, files
<1>14. ASSUME NEW p \in Publishers, PublicationFails(p) PROVE TypeOK'
  <2>1. faults' \in 0 .. MaxFaults
    BY <1>14, CheckpointAssumption DEF PublicationFails, Fault
  <2> QED BY <1>7, <1>14, <2>1 DEF PublicationFails, files
<1>15. ASSUME Crash PROVE TypeOK'
  <2>1. faults' \in 0 .. MaxFaults
    BY <1>15, CheckpointAssumption DEF Crash, Fault
  <2>2. db' \in States /\ disk' \in States
    BY <1>15, EmptyIsState DEF Crash
  <2>3. commit' \in [Lanes -> Records \cup {NoRecord}]
    BY <1>15 DEF Crash
  <2>4. publisher' \in [Publishers -> [step : Steps, vector : Vectors,
                                       id : SnapshotIds \cup {NoSnapshot}]]
    BY <1>15 DEF Crash, Idle, Zero, Vectors, Steps
  <2> QED BY <1>15, <2>1, <2>2, <2>3, <2>4 DEF Crash, files
<1>16. ASSUME StartRestore PROVE TypeOK'
  BY <1>16 DEF StartRestore, files
<1>17. ASSUME FinishRestore PROVE TypeOK'
  <2>1. disk' \in States
    BY <1>17 DEF FinishRestore, Snapshot
  <2> QED BY <1>17, <2>1 DEF FinishRestore, files
<1>18. ASSUME InterruptRestore PROVE TypeOK'
  <2>1. faults' \in 0 .. MaxFaults
    BY <1>18, CheckpointAssumption DEF InterruptRestore, Fault
  <2> QED BY <1>18, <2>1 DEF InterruptRestore, files
<1>19. ASSUME Open PROVE TypeOK'
  <2>1. \A l \in Lanes : Replayed(disk, l) \in Seq(Records)
    BY <1>19, ReplayedIs DEF Open, WalType
  <2>2. db' \in States
    BY <1>19, <2>1 DEF Open, States
  <2>3. settled' \in States
    BY <1>19, <2>2 DEF Open, States
  <2> QED BY <1>19, <2>2, <2>3 DEF Open, files
<1>20. CASE UNCHANGED vars
  BY <1>20 DEF vars
<1> QED
  BY <1>1, <1>2, <1>3, <1>4, <1>5, <1>8, <1>9, <1>10, <1>11, <1>12, <1>13, <1>14, <1>15,
     <1>16, <1>17, <1>18, <1>19, <1>20 DEF Next, Publish, Restart

-----------------------------------------------------------------------------
(* Publication *)

PublicationVars == <<snapshots, manifest, publisher>>

\* Steps that touch neither checkpoints nor publishers keep their invariant.
LEMMA PublicationUnchanged ==
  ASSUME TypeOK, PublicationInv, UNCHANGED PublicationVars
  PROVE  PublicationInv'
BY DEF PublicationInv, PublicationVars, ManifestNamesASnapshot, Publishing, NoManifest

\* A publisher that has nothing to do any more is in nobody's way.
LEMMA FinishKeepsPublication ==
  ASSUME TypeOK, PublicationInv, NEW p \in Publishers, Finish(p),
         UNCHANGED <<snapshots, manifest>>
  PROVE  PublicationInv'
<1>1. \A q \in Publishers : publisher'[q] = IF q = p THEN Idle ELSE publisher[q]
  BY DEF Finish, TypeOK
<1>2. \A s \in snapshots : s.id # NoSnapshot
  BY CheckpointAssumption DEF TypeOK, Snapshot
<1>3. Idle.step = "idle" /\ Idle.id = NoSnapshot
  BY DEF Idle
<1>4. \A q \in Publishers : Publishing(q)' => q # p /\ Publishing(q)
  BY <1>1, <1>3 DEF Publishing
<1> QED BY <1>1, <1>2, <1>3, <1>4 DEF PublicationInv, ManifestNamesASnapshot, NoManifest

\* What a step of a publisher does to its own record.
LEMMA AdvanceIs ==
  ASSUME TypeOK, NEW p \in Publishers, NEW next \in Steps, Advance(p, next)
  PROVE  \A q \in Publishers :
           /\ publisher'[q].step = IF q = p THEN next ELSE publisher[q].step
           /\ publisher'[q].id = publisher[q].id
           /\ publisher'[q].vector = publisher[q].vector
BY DEF Advance, TypeOK

\* Every step keeps the publication invariant.
LEMMA PublicationPreserved ==
  ASSUME TypeOK, PublicationInv, [Next]_vars
  PROVE  PublicationInv'
<1>1. ASSUME NEW p \in Publishers, Prepare(p) PROVE PublicationInv'
  <2>1. PICK id \in FreshIds :
          /\ snapshots' = snapshots \cup {[id |-> id, data |-> db]}
          /\ publisher' = [publisher EXCEPT ![p] =
                             [step |-> "check", id |-> id, vector |-> VectorOf(db)]]
    BY <1>1, PrepareIs
  <2> DEFINE new == [id |-> id, data |-> db]
  <2>2. /\ \A s \in snapshots : s.id # id
        /\ \A q \in Publishers : publisher[q].id # id
    BY <2>1 DEF FreshIds, Busy
  <2>3. new.id = id /\ new.data = db
    OBVIOUS
  <2>4. \A q \in Publishers : q # p => publisher'[q] = publisher[q]
    BY <2>1 DEF TypeOK
  <2>5. /\ publisher'[p].step = "check" /\ publisher'[p].id = id
        /\ publisher'[p].vector = VectorOf(db)
    BY <2>1 DEF TypeOK
  <2>6. manifest' = manifest
    BY <1>1 DEF Prepare
  <2>7. \A q \in Publishers : Publishing(q)' => q # p /\ Publishing(q)
    BY <2>4, <2>5 DEF Publishing
  <2>8. snapshots' = snapshots \cup {new}
    BY <2>1
  <2> HIDE DEF new
  <2>9. \A s, t \in snapshots' : s.id = t.id => s = t
    BY <2>2, <2>3, <2>8 DEF PublicationInv
  <2>10. \A q \in Publishers : \A s \in snapshots' :
           s.id = publisher'[q].id => VectorOf(s.data) = publisher'[q].vector
    <3> SUFFICES ASSUME NEW q \in Publishers, NEW s \in snapshots', s.id = publisher'[q].id
                 PROVE  VectorOf(s.data) = publisher'[q].vector
      OBVIOUS
    <3>1. CASE q = p
      <4>1. s = new
        BY <2>2, <2>5, <2>8, <3>1
      <4> QED BY <2>3, <2>5, <3>1, <4>1
    <3>2. CASE q # p
      <4>1. s # new
        BY <2>2, <2>3, <2>4, <3>2
      <4> QED BY <2>4, <2>8, <3>2, <4>1 DEF PublicationInv
    <3> QED BY <3>1, <3>2
  <2>11. ManifestNamesASnapshot'
    BY <2>6, <2>8 DEF PublicationInv, ManifestNamesASnapshot, NoManifest
  <2> QED BY <2>4, <2>5, <2>6, <2>7, <2>8, <2>9, <2>10, <2>11 DEF PublicationInv
<1>2. ASSUME NEW p \in Publishers, Check(p) PROVE PublicationInv'
  <2>1. UNCHANGED <<snapshots, manifest>>
    BY <1>2 DEF Check, files
  <2>2. CASE Finish(p)
    BY <2>1, <2>2, FinishKeepsPublication
  <2>3. CASE /\ AtLeast(publisher[p].vector, manifest.vector)
             /\ \E s \in snapshots : s.id = publisher[p].id
             /\ Advance(p, "write")
    <3>1. \A q \in Publishers :
            /\ publisher'[q].step = IF q = p THEN "write" ELSE publisher[q].step
            /\ publisher'[q].id = publisher[q].id
            /\ publisher'[q].vector = publisher[q].vector
      BY <2>3, AdvanceIs DEF Steps
    <3>2. \A q \in Publishers : Publishing(q)' => q = p
      BY <1>2, <3>1 DEF Check, PublicationLockFree, Publishing
    <3>3. publisher[p].id \in SnapshotIds
      BY <2>3 DEF TypeOK, Snapshot
    <3>4. \A q \in Publishers : q # p => publisher'[q].step \notin {"write", "trim", "remove"}
      BY <3>2 DEF Publishing
    <3>5. publisher'[p].step = "write"
      BY <3>1
    <3>6. ManifestNamesASnapshot'
      BY <2>1 DEF PublicationInv, ManifestNamesASnapshot, NoManifest
    <3> QED BY <2>1, <2>3, <3>1, <3>2, <3>3, <3>4, <3>5, <3>6 DEF PublicationInv
  <2> QED BY <1>2, <2>2, <2>3 DEF Check
<1>3. ASSUME NEW p \in Publishers, WriteManifest(p) PROVE PublicationInv'
  <2>1. publisher[p].step = "write" /\ Publishing(p) /\ UNCHANGED snapshots
    BY <1>3 DEF WriteManifest, Publishing
  <2>2. \A q \in Publishers :
          /\ publisher'[q].step = IF q = p THEN "trim" ELSE publisher[q].step
          /\ publisher'[q].id = publisher[q].id
          /\ publisher'[q].vector = publisher[q].vector
    BY <1>3, AdvanceIs DEF WriteManifest, Steps
  <2>3. \A q \in Publishers : q # p => ~Publishing(q) /\ ~Publishing(q)'
    BY <2>1, <2>2 DEF PublicationInv, Publishing
  <2>4. manifest' = [id |-> publisher'[p].id, vector |-> publisher'[p].vector]
    BY <1>3, <2>2 DEF WriteManifest
  <2>5. ManifestNamesASnapshot'
    <3>1. PICK s \in snapshots : s.id = publisher[p].id
      BY <2>1 DEF PublicationInv
    <3>2. VectorOf(s.data) = publisher[p].vector
      BY <3>1 DEF PublicationInv
    <3> QED BY <2>1, <2>2, <2>4, <3>1, <3>2 DEF ManifestNamesASnapshot
  <2>6. \A q \in Publishers : publisher'[q].step # "write"
    BY <2>2, <2>3 DEF Publishing
  <2>7. \A q \in Publishers : publisher'[q].step \in {"trim", "remove"} => q = p
    BY <2>3 DEF Publishing
  <2> QED BY <2>1, <2>2, <2>3, <2>4, <2>5, <2>6, <2>7 DEF PublicationInv
<1>4. ASSUME NEW p \in Publishers, NEW l \in Lanes, Trim(p, l) PROVE PublicationInv'
  BY <1>4, PublicationUnchanged DEF Trim, server, PublicationVars
<1>5. ASSUME NEW p \in Publishers, TrimDone(p) PROVE PublicationInv'
  <2>1. publisher[p].step = "trim" /\ UNCHANGED <<snapshots, manifest>>
    BY <1>5 DEF TrimDone, files
  <2>2. \A q \in Publishers :
          /\ publisher'[q].step = IF q = p THEN "remove" ELSE publisher[q].step
          /\ publisher'[q].id = publisher[q].id
          /\ publisher'[q].vector = publisher[q].vector
    BY <1>5, AdvanceIs DEF TrimDone, Steps
  <2>3. \A q \in Publishers : Publishing(q)' => Publishing(q)
    BY <2>1, <2>2 DEF Publishing
  <2>4. ManifestNamesASnapshot'
    BY <2>1 DEF PublicationInv, ManifestNamesASnapshot, NoManifest
  <2>5. manifest = [id |-> publisher[p].id, vector |-> publisher[p].vector]
    BY <2>1 DEF PublicationInv
  <2> QED BY <2>1, <2>2, <2>3, <2>4, <2>5 DEF PublicationInv
<1>6. ASSUME NEW p \in Publishers, RemoveOldest(p) PROVE PublicationInv'
  <2>1. PICK s \in Older(p) : snapshots' = snapshots \ {s}
    BY <1>6 DEF RemoveOldest
  <2>2. publisher[p].step = "remove" /\ UNCHANGED <<manifest, publisher>> /\ Publishing(p)
    BY <1>6 DEF RemoveOldest, server, Publishing
  <2>3. manifest = [id |-> publisher[p].id, vector |-> publisher[p].vector]
    BY <2>2 DEF PublicationInv
  <2>4. ASSUME NEW t \in snapshots, VectorOf(t.data) = publisher[p].vector PROVE t # s
    <3>1. Total(publisher[p].vector) \in Nat
      BY TotalIsNat DEF TypeOK
    <3>2. Total(VectorOf(s.data)) < Total(publisher[p].vector)
      BY DEF Older
    <3> QED BY <2>4, <3>1, <3>2
  <2>5. ManifestNamesASnapshot'
    <3> SUFFICES ASSUME manifest # NoManifest
                 PROVE  \E t \in snapshots' : t.id = manifest.id /\ VectorOf(t.data) = manifest.vector
      BY <2>2 DEF ManifestNamesASnapshot, NoManifest
    <3>1. PICK t \in snapshots : t.id = manifest.id /\ VectorOf(t.data) = manifest.vector
      BY DEF PublicationInv, ManifestNamesASnapshot
    <3>2. t # s
      BY <2>3, <2>4, <3>1
    <3> QED BY <2>1, <3>1, <3>2
  <2>6. \A q \in Publishers : publisher[q].step # "write"
    BY <2>2 DEF PublicationInv, Publishing
  <2>7. snapshots' \subseteq snapshots
    BY <2>1
  <2> QED BY <2>2, <2>5, <2>6, <2>7 DEF PublicationInv, Publishing
<1>7. ASSUME NEW p \in Publishers, Published(p) \/ PublicationFails(p) PROVE PublicationInv'
  BY <1>7, FinishKeepsPublication DEF Published, PublicationFails, files
<1>8. ASSUME Crash PROVE PublicationInv'
  <2>1. \A q \in Publishers : publisher'[q] = Idle
    BY <1>8 DEF Crash
  <2>2. UNCHANGED <<snapshots, manifest>>
    BY <1>8 DEF Crash, files
  <2>3. Idle.step = "idle" /\ Idle.id = NoSnapshot
    BY DEF Idle
  <2>4. \A s \in snapshots : s.id # NoSnapshot
    BY CheckpointAssumption DEF TypeOK, Snapshot
  <2> QED BY <2>1, <2>2, <2>3, <2>4
          DEF PublicationInv, Publishing, ManifestNamesASnapshot, NoManifest
<1>9. ASSUME UNCHANGED PublicationVars PROVE PublicationInv'
  BY <1>9, PublicationUnchanged
<1>10. ASSUME \/ \E l \in Lanes : (\E r \in Records : WriteWal(l, r)) \/ Apply(l) \/ CommitFails(l)
              \/ Flush \/ Restart \/ InterruptRestore \/ UNCHANGED vars
       PROVE  UNCHANGED PublicationVars
  BY <1>10 DEF WriteWal, Apply, CommitFails, Flush, Restart, StartRestore, FinishRestore, Open,
               InterruptRestore, vars, files, server, PublicationVars
<1> QED
  BY <1>1, <1>2, <1>3, <1>4, <1>5, <1>6, <1>7, <1>8, <1>9, <1>10 DEF Next, Publish

-----------------------------------------------------------------------------
(* Recovery *)

\* Whatever a start begins with, if it is a prefix of what is settled and not
\* behind the checkpoint: replay meets no gap, restores what is settled, and at
\* most the record of a commit that did not return.
LEMMA BaseRecovers ==
  ASSUME TypeOK, WalInv, NEW state \in States, NEW l \in Lanes,
         IsPrefixOf(state[l], settled[l]), manifest.vector[l] <= Len(state[l])
  PROVE  /\ Gapless(l, Len(state[l]))
         /\ IsPrefixOf(settled[l], Replayed(state, l))
         /\ Replayed(state, l) \in Seq(Records)
         /\ Len(Replayed(state, l)) <= Len(settled[l]) + 1
         /\ Len(Replayed(state, l)) <= MaxSequence
         /\ \A i \in Len(state[l]) + 1 .. Len(Replayed(state, l)) :
              Replayed(state, l)[i] = wal[l][i] /\ wal[l][i] # NoRecord
<1> DEFINE n == Len(state[l])
           m == Len(settled[l])
<1>1. /\ state[l] \in Seq(Records) /\ settled[l] \in Seq(Records)
      /\ n \in Nat /\ m \in Nat /\ n <= m /\ m <= MaxSequence /\ MaxSequence \in Nat
      /\ manifest.vector[l] \in Nat /\ manifest.vector[l] <= n
  BY CheckpointAssumption DEF TypeOK, States, Manifest, Vectors, IsPrefixOf, WalInv
<1>2. ASSUME NEW t \in 1 .. MaxSequence, n < t, t <= m PROVE wal[l][t] # NoRecord
  <2>1. manifest.vector[l] < t
    BY <1>1, <1>2
  <2> QED BY <1>2, <2>1 DEF WalInv
<1>3. ASSUME NEW s \in TailAbove(l, n) PROVE s \in 1 .. MaxSequence /\ n < s /\ s <= m + 1
  BY DEF TailAbove, WalInv
<1>4. Gapless(l, n)
  <2> SUFFICES ASSUME NEW s \in TailAbove(l, n), NEW t \in n + 1 .. s
               PROVE  wal[l][t] # NoRecord
    BY DEF Gapless
  <2> HIDE DEF n, m
  <2>1. s \in 1 .. MaxSequence /\ n < s /\ s <= m + 1
    BY <1>3
  <2>2. t \in 1 .. MaxSequence /\ n < t
    BY <1>1, <2>1
  <2>3. CASE t = s
    BY <2>3 DEF TailAbove
  <2>4. CASE t # s
    <3>1. t <= m
      BY <1>1, <2>1, <2>4
    <3> QED BY <1>2, <2>2, <3>1
  <2> QED BY <2>3, <2>4
<1>5. WalType
  BY DEF TypeOK, WalType
<1>6. PICK c \in Nat :
        /\ TailAbove(l, n) = n + 1 .. n + c
        /\ Replayed(state, l) \in Seq(Records)
        /\ Len(Replayed(state, l)) = n + c
        /\ \A i \in 1 .. n : Replayed(state, l)[i] = state[l][i]
        /\ \A i \in n + 1 .. n + c : Replayed(state, l)[i] = wal[l][i]
  BY <1>4, <1>5, ReplayedIs
<1>7. m <= n + c
  <2> SUFFICES ASSUME m > n PROVE m <= n + c
    BY <1>1, <1>6
  <2> HIDE DEF n, m
  <2>1. m \in 1 .. MaxSequence
    BY <1>1
  <2>2. wal[l][m] # NoRecord
    BY <1>1, <1>2, <2>1
  <2>3. m \in TailAbove(l, n)
    BY <2>1, <2>2 DEF TailAbove
  <2> QED BY <1>6, <2>3
<1>8. n + c <= m + 1 /\ n + c <= MaxSequence
  <2> HIDE DEF n, m
  <2>1. CASE c = 0
    BY <1>1, <2>1
  <2>2. CASE c # 0
    <3>1. n + c \in TailAbove(l, n)
      BY <1>1, <1>6, <2>2
    <3> QED BY <1>1, <1>3, <3>1
  <2> QED BY <2>1, <2>2
<1>9. \A i \in n + 1 .. n + c : wal[l][i] # NoRecord
  BY <1>6 DEF TailAbove
<1>10. ASSUME NEW i \in 1 .. m PROVE settled[l][i] = Replayed(state, l)[i]
  <2>1. CASE i <= n
    BY <1>1, <1>6, <2>1 DEF IsPrefixOf
  <2>2. CASE n < i
    <3>1. i \in n + 1 .. n + c
      BY <1>1, <1>6, <1>7, <2>2
    <3>2. i \in 1 .. MaxSequence /\ i <= m
      BY <1>1
    <3>3. wal[l][i] = settled[l][i]
      BY <1>9, <3>1, <3>2 DEF WalInv
    <3> QED BY <1>6, <3>1, <3>3
  <2> QED BY <1>1, <2>1, <2>2
<1>11. IsPrefixOf(settled[l], Replayed(state, l))
  BY <1>6, <1>7, <1>10 DEF IsPrefixOf
<1> QED BY <1>4, <1>6, <1>8, <1>9, <1>11

\* A checkpoint that a start restores has the positions that its manifest says.
LEMMA RestoredIs ==
  ASSUME TypeOK, PublicationInv, NEW s \in snapshots, s.id = manifest.id
  PROVE  VectorOf(s.data) = manifest.vector
<1>1. manifest # NoManifest
  BY CheckpointAssumption DEF NoManifest, TypeOK, Snapshot
<1>2. PICK t \in snapshots : t.id = manifest.id /\ VectorOf(t.data) = manifest.vector
  BY <1>1 DEF PublicationInv, ManifestNamesASnapshot
<1> QED BY <1>2 DEF PublicationInv

\* The recovery invariant says what the reader wants to know.
LEMMA RecoveryImpliesSettled ==
  ASSUME TypeOK, PublicationInv, RecoveryInv
  PROVE  SettledAreRecoverable
<1> SUFFICES ASSUME ~misread
             PROVE  /\ phase = "up" => db = settled
                    /\ \A base \in Bases : \A l \in Lanes :
                         /\ Gapless(l, Len(base[l]))
                         /\ IsPrefixOf(settled[l], Replayed(base, l))
  BY DEF SettledAreRecoverable, Recoverable
<1>1. WalInv /\ CopiesInv
  BY DEF RecoveryInv
<1>2. ASSUME NEW l \in Lanes
      PROVE  /\ Restored \in States
             /\ IsPrefixOf(Restored[l], settled[l]) /\ manifest.vector[l] <= Len(Restored[l])
  <2>1. CASE manifest = NoManifest
    <3>1. Restored = Empty
      BY <2>1 DEF Restored
    <3>2. manifest.vector[l] = 0 /\ Empty[l] = <<>>
      BY <2>1 DEF NoManifest, Zero, Empty
    <3>3. settled[l] \in Seq(Records)
      BY DEF TypeOK, States
    <3> QED BY <3>1, <3>2, <3>3, EmptyIsState DEF IsPrefixOf
  <2>2. CASE manifest # NoManifest
    <3> DEFINE s == CHOOSE t \in snapshots : t.id = manifest.id
    <3>1. s \in snapshots /\ s.id = manifest.id
      BY <2>2 DEF PublicationInv, ManifestNamesASnapshot
    <3>2. Restored = s.data
      BY <2>2 DEF Restored
    <3> HIDE DEF s
    <3>3. VectorOf(s.data) = manifest.vector
      BY <3>1, RestoredIs
    <3>4. s.data \in States /\ Len(s.data[l]) \in Nat
      BY <3>1 DEF TypeOK, Snapshot, States
    <3>5. Len(s.data[l]) = manifest.vector[l]
      BY <3>3 DEF VectorOf
    <3>6. IsPrefixOf(s.data[l], settled[l])
      BY <1>1, <3>1 DEF CopiesInv
    <3> QED BY <3>2, <3>4, <3>5, <3>6
  <2> QED BY <2>1, <2>2
<1>3. ASSUME NEW base \in Bases, NEW l \in Lanes
      PROVE  /\ base \in States
             /\ IsPrefixOf(base[l], settled[l]) /\ manifest.vector[l] <= Len(base[l])
  <2>1. CASE base = Restored
    BY <1>2, <2>1
  <2>2. CASE stateDir = "complete" /\ base = disk
    BY <1>1, <2>2 DEF CopiesInv, TypeOK
  <2> QED BY <2>1, <2>2 DEF Bases
<1>4. phase = "up" => db = settled
  BY <1>1 DEF CopiesInv
<1> QED BY <1>1, <1>3, <1>4, BaseRecovers

\* A commit that is applied settles the record that is on file.
LEMMA ApplyRecovers ==
  ASSUME TypeOK, WalInv, CopiesInv, NEW l \in Lanes, Apply(l)
  PROVE  WalInv' /\ CopiesInv'
<1>1. /\ phase = "up" /\ db = settled /\ commit[l] \in Records
      /\ \A k \in Lanes : settled[k] \in Seq(Records)
      /\ \A k \in Lanes : disk[k] \in Seq(Records)
      /\ MaxSequence \in Nat
  BY CheckpointAssumption DEF Apply, CopiesInv, TypeOK, States
<1>2. /\ settled' = [settled EXCEPT ![l] = Append(settled[l], commit[l])]
      /\ db' = settled' /\ commit' = [commit EXCEPT ![l] = NoRecord]
      /\ UNCHANGED <<wal, snapshots, manifest, disk, stateDir, phase, publisher, misread>>
  BY <1>1 DEF Apply, files
<1>3. /\ settled'[l] = Append(settled[l], commit[l])
      /\ \A k \in Lanes : k # l => settled'[k] = settled[k]
  BY <1>2 DEF TypeOK, States
<1>4. /\ Len(settled'[l]) = Len(settled[l]) + 1
      /\ \A i \in 1 .. Len(settled[l]) : settled'[l][i] = settled[l][i]
      /\ settled'[l][Len(settled[l]) + 1] = commit[l]
  BY <1>1, <1>3
<1>5. /\ wal[l][Len(settled[l]) + 1] = commit[l] /\ commit[l] # NoRecord
      /\ Len(settled[l]) < MaxSequence
  BY <1>1, CheckpointAssumption DEF WalInv
<1>6. /\ commit'[l] = NoRecord
      /\ \A k \in Lanes : k # l => commit'[k] = commit[k] /\ db'[k] = db[k]
  BY <1>1, <1>2, <1>3 DEF TypeOK
<1>7. WalInv'
  <2> SUFFICES ASSUME NEW k \in Lanes
               PROVE  /\ Len(settled'[k]) <= MaxSequence
                      /\ \A s \in 1 .. MaxSequence :
                           /\ wal[k][s] # NoRecord /\ s <= Len(settled'[k]) =>
                                wal[k][s] = settled'[k][s]
                           /\ wal[k][s] # NoRecord => s <= Len(settled'[k]) + 1
                           /\ manifest.vector[k] < s /\ s <= Len(settled'[k]) =>
                                wal[k][s] # NoRecord
                      /\ commit'[k] # NoRecord =>
                           /\ phase = "up" /\ Len(db'[k]) < MaxSequence
                           /\ wal[k][Len(db'[k]) + 1] = commit'[k]
    BY <1>2 DEF WalInv
  <2>1. CASE k # l
    BY <1>3, <1>6, <2>1 DEF WalInv
  <2>2. CASE k = l
    <3>1. Len(settled'[l]) <= MaxSequence
      BY <1>1, <1>4, <1>5
    <3>2. ASSUME NEW s \in 1 .. MaxSequence
          PROVE  /\ wal[l][s] # NoRecord /\ s <= Len(settled'[l]) => wal[l][s] = settled'[l][s]
                 /\ wal[l][s] # NoRecord => s <= Len(settled'[l]) + 1
                 /\ manifest.vector[l] < s /\ s <= Len(settled'[l]) => wal[l][s] # NoRecord
      <4>1. CASE s = Len(settled[l]) + 1
        BY <1>1, <1>4, <1>5, <4>1
      <4>2. CASE s # Len(settled[l]) + 1
        <5>1. s <= Len(settled'[l]) => s \in 1 .. Len(settled[l])
          BY <1>1, <1>4, <4>2
        <5> QED BY <1>1, <1>4, <5>1 DEF WalInv
      <4> QED BY <4>1, <4>2
    <3> QED BY <1>6, <2>2, <3>1, <3>2
  <2> QED BY <2>1, <2>2
<1>8. ASSUME NEW k \in Lanes, NEW t \in Seq(Records), IsPrefixOf(t, settled[k])
      PROVE  IsPrefixOf(t, settled'[k])
  <2>1. IsPrefixOf(settled[k], settled'[k])
    BY <1>1, <1>3, PrefixOfAppend, PrefixReflexive
  <2>2. settled[k] \in Seq(Records) /\ settled'[k] \in Seq(Records)
    <3>1. Append(settled[l], commit[l]) \in Seq(Records)
      BY <1>1, AppendProperties
    <3> QED BY <1>1, <1>3, <3>1
  <2> QED BY <1>8, <2>1, <2>2, PrefixTransitive
<1>9. \A s \in snapshots : \A k \in Lanes : s.data[k] \in Seq(Records)
  BY DEF TypeOK, Snapshot, States
<1>10. \A k \in Lanes : stateDir = "complete" =>
         IsPrefixOf(disk[k], settled'[k]) /\ manifest.vector[k] <= Len(disk[k])
  BY <1>1, <1>8 DEF CopiesInv
<1>11. \A s \in snapshots : \A k \in Lanes : IsPrefixOf(s.data[k], settled'[k])
  BY <1>8, <1>9 DEF CopiesInv
<1>12. CopiesInv'
  BY <1>1, <1>2, <1>10, <1>11 DEF CopiesInv
<1> QED BY <1>7, <1>12

\* A flush brings the files of RocksDB up to what is settled.
LEMMA FlushRecovers ==
  ASSUME TypeOK, CopiesInv, phase = "up", disk' = db
  PROVE  /\ disk' = settled
         /\ \A l \in Lanes : IsPrefixOf(disk'[l], settled[l])
         /\ \A l \in Lanes : manifest.vector[l] <= Len(disk'[l])
         /\ \A p \in Publishers : publisher[p].step # "idle" =>
              AtLeast(VectorOf(disk'), publisher[p].vector)
<1>1. disk' = settled /\ stateDir = "complete" /\ db = settled
  BY DEF CopiesInv
<1>2. \A l \in Lanes : settled[l] \in Seq(Records) /\ disk[l] \in Seq(Records)
  BY DEF TypeOK, States
<1>3. ASSUME NEW l \in Lanes
      PROVE  Len(disk[l]) <= Len(settled[l]) /\ manifest.vector[l] <= Len(disk[l])
  BY <1>1 DEF CopiesInv, IsPrefixOf
<1>4. ASSUME NEW l \in Lanes PROVE manifest.vector[l] <= Len(settled[l])
  <2>1. manifest.vector[l] \in Nat
    BY DEF TypeOK, Manifest, Vectors
  <2>2. Len(disk[l]) \in Nat /\ Len(settled[l]) \in Nat
    BY <1>2, LenProperties
  <2> QED BY <1>3, <2>1, <2>2
<1>5. AtLeast(VectorOf(settled), VectorOf(disk))
  <2>1. ASSUME NEW l \in Lanes
        PROVE  VectorOf(disk)[l] = Len(disk[l]) /\ VectorOf(settled)[l] = Len(settled[l])
    BY DEF VectorOf
  <2> QED BY <1>3, <2>1 DEF AtLeast
<1>6. VectorOf(settled) \in Vectors /\ VectorOf(disk) \in Vectors
  BY VectorType DEF TypeOK
<1>7. ASSUME NEW p \in Publishers, publisher[p].step # "idle"
      PROVE  AtLeast(VectorOf(settled), publisher[p].vector)
  <2>1. publisher[p].vector \in Vectors
    BY DEF TypeOK
  <2>2. AtLeast(VectorOf(disk), publisher[p].vector)
    BY <1>7 DEF CopiesInv
  <2> QED BY <1>5, <1>6, <2>1, <2>2, AtLeastTransitive
<1> QED BY <1>1, <1>2, <1>4, <1>7, PrefixReflexive

\* A start that finds no part of a copy ends with what is settled, and the
\* record of a commit that did not return is then settled too.
LEMMA OpenRecovers ==
  ASSUME TypeOK, WalInv, CopiesInv, Open, stateDir # "partial"
  PROVE  WalInv' /\ CopiesInv'
<1>1. /\ phase = "down" /\ phase' = "up" /\ stateDir' = "complete"
      /\ db' = [l \in Lanes |-> Replayed(disk, l)]
      /\ settled' = [l \in Lanes |->
           IF Len(db'[l]) > Len(settled[l]) THEN db'[l] ELSE settled[l]]
      /\ UNCHANGED <<wal, snapshots, manifest, disk, commit, publisher>>
  BY DEF Open, files
<1>2. ASSUME NEW l \in Lanes
      PROVE  IsPrefixOf(disk[l], settled[l]) /\ manifest.vector[l] <= Len(disk[l])
  <2>1. CASE stateDir = "complete"
    BY <2>1 DEF CopiesInv
  <2>2. CASE stateDir # "complete"
    <3>1. stateDir = "absent"
      BY <2>2 DEF TypeOK
    <3>2. disk[l] = <<>> /\ manifest.vector[l] = 0
      BY <3>1 DEF CopiesInv, Open, Empty, NoManifest, Zero
    <3>3. settled[l] \in Seq(Records)
      BY DEF TypeOK, States
    <3> QED BY <3>2, <3>3 DEF IsPrefixOf
  <2> QED BY <2>1, <2>2
<1>3. ASSUME NEW l \in Lanes
      PROVE  /\ IsPrefixOf(settled[l], db'[l]) /\ db'[l] \in Seq(Records)
             /\ Len(db'[l]) <= Len(settled[l]) + 1 /\ Len(db'[l]) <= MaxSequence
             /\ \A i \in Len(disk[l]) + 1 .. Len(db'[l]) :
                  db'[l][i] = wal[l][i] /\ wal[l][i] # NoRecord
  <2>1. db'[l] = Replayed(disk, l)
    BY <1>1
  <2>2. disk \in States
    BY DEF TypeOK
  <2> QED BY <1>2, <2>1, <2>2, BaseRecovers
<1>4. \A l \in Lanes :
        /\ settled[l] \in Seq(Records) /\ disk[l] \in Seq(Records)
        /\ Len(settled[l]) \in Nat /\ Len(disk[l]) \in Nat /\ Len(db'[l]) \in Nat
  BY <1>3, LenProperties DEF TypeOK, States
<1>5. ASSUME NEW l \in Lanes PROVE settled'[l] = db'[l]
  <2>1. settled'[l] = IF Len(db'[l]) > Len(settled[l]) THEN db'[l] ELSE settled[l]
    BY <1>1
  <2>2. CASE Len(db'[l]) > Len(settled[l])
    BY <2>1, <2>2
  <2>3. CASE ~(Len(db'[l]) > Len(settled[l]))
    <3>1. Len(settled[l]) = Len(db'[l])
      BY <1>3, <1>4, <2>3 DEF IsPrefixOf
    <3>2. \A i \in 1 .. Len(settled[l]) : settled[l][i] = db'[l][i]
      BY <1>3 DEF IsPrefixOf
    <3>3. settled[l] = db'[l]
      BY <1>3, <1>4, <3>1, <3>2, SeqEqual
    <3> QED BY <2>1, <2>3, <3>3
  <2> QED BY <2>2, <2>3
<1>6. settled' = db'
  <2>1. settled' = [l \in Lanes |-> settled'[l]] /\ db' = [l \in Lanes |-> db'[l]]
    BY <1>1
  <2> QED BY <1>5, <2>1
<1>7. ASSUME NEW l \in Lanes PROVE commit[l] = NoRecord
  BY <1>1 DEF WalInv
<1>8. WalInv'
  <2> SUFFICES ASSUME NEW l \in Lanes
               PROVE  /\ Len(db'[l]) <= MaxSequence
                      /\ \A s \in 1 .. MaxSequence :
                           /\ wal[l][s] # NoRecord /\ s <= Len(db'[l]) =>
                                wal[l][s] = db'[l][s]
                           /\ wal[l][s] # NoRecord => s <= Len(db'[l]) + 1
                           /\ manifest.vector[l] < s /\ s <= Len(db'[l]) =>
                                wal[l][s] # NoRecord
    BY <1>1, <1>6, <1>7 DEF WalInv
  <2>1. Len(settled[l]) <= Len(db'[l])
    BY <1>3 DEF IsPrefixOf
  <2>2. ASSUME NEW s \in 1 .. MaxSequence
        PROVE  /\ wal[l][s] # NoRecord /\ s <= Len(db'[l]) => wal[l][s] = db'[l][s]
               /\ wal[l][s] # NoRecord => s <= Len(db'[l]) + 1
               /\ manifest.vector[l] < s /\ s <= Len(db'[l]) => wal[l][s] # NoRecord
    <3>1. CASE s <= Len(settled[l])
      <4>1. settled[l][s] = db'[l][s]
        BY <1>3, <1>4, <3>1 DEF IsPrefixOf
      <4> QED BY <1>4, <2>1, <3>1, <4>1 DEF WalInv
    <3>2. CASE ~(s <= Len(settled[l]))
      <4>1. wal[l][s] # NoRecord => s <= Len(settled[l]) + 1
        BY DEF WalInv
      <4>2. Len(disk[l]) <= Len(settled[l])
        BY <1>2 DEF IsPrefixOf
      <4>3. s <= Len(db'[l]) => s \in Len(disk[l]) + 1 .. Len(db'[l])
        BY <1>4, <3>2, <4>2
      <4> QED BY <1>3, <1>4, <2>1, <4>1, <4>3
    <3> QED BY <3>1, <3>2
  <2> QED BY <1>3, <2>2
<1>9. ASSUME NEW l \in Lanes, NEW t \in Seq(Records), IsPrefixOf(t, settled[l])
      PROVE  IsPrefixOf(t, settled'[l])
  <2>1. IsPrefixOf(settled[l], settled'[l]) /\ settled'[l] \in Seq(Records)
    BY <1>3, <1>5
  <2> QED BY <1>4, <1>9, <2>1, PrefixTransitive
<1>10. \A l \in Lanes : IsPrefixOf(disk[l], settled'[l]) /\ manifest.vector[l] <= Len(disk[l])
  BY <1>2, <1>4, <1>9
<1>11. \A s \in snapshots : \A l \in Lanes : IsPrefixOf(s.data[l], settled'[l])
  <2>1. \A s \in snapshots : \A l \in Lanes : s.data[l] \in Seq(Records)
    BY DEF TypeOK, Snapshot, States
  <2> QED BY <1>9, <2>1 DEF CopiesInv
<1>12. \A p \in Publishers : publisher[p].step = "idle"
  BY <1>1 DEF CopiesInv
<1>13. CopiesInv'
  BY <1>1, <1>6, <1>10, <1>11, <1>12 DEF CopiesInv
<1> QED BY <1>8, <1>13

\* Every step keeps the recovery invariant.
LEMMA RecoveryPreserved ==
  ASSUME TypeOK, PublicationInv, RecoveryInv, [Next]_vars
  PROVE  RecoveryInv'
<1> SUFFICES ASSUME ~misread' PROVE WalInv' /\ CopiesInv'
  BY DEF RecoveryInv
<1>1. ~misread /\ ~(Open /\ stateDir = "partial")
  <2>1. Open => misread' = (misread \/ stateDir = "partial")
    BY DEF Open
  <2>2. ~Open => misread' = misread
    BY DEF Next, WriteWal, Apply, CommitFails, Flush, Prepare, Publish, Check, WriteManifest,
         Trim, TrimDone, RemoveOldest, Published, PublicationFails, Crash, Restart, StartRestore,
         FinishRestore, InterruptRestore, vars
  <2>3. CASE Open
    BY <2>1, <2>3
  <2>4. CASE ~Open
    BY <2>2, <2>4
  <2> QED BY <2>3, <2>4
<1> SUFFICES ASSUME WalInv, CopiesInv PROVE WalInv' /\ CopiesInv'
  BY <1>1 DEF RecoveryInv
<1>2. CASE InterruptRestore
  <2>1. /\ phase = "restoring" /\ phase' = "down" /\ stateDir' \in {"absent", "partial"}
        /\ UNCHANGED <<wal, snapshots, manifest, disk, db, commit, publisher, settled>>
    BY <1>2 DEF InterruptRestore, files
  <2>2. WalInv'
    BY <2>1 DEF WalInv
  <2>3. disk = Empty
    BY <2>1 DEF CopiesInv
  <2> QED BY <2>1, <2>2, <2>3 DEF CopiesInv
<1>3. ASSUME NEW l \in Lanes, NEW r \in Records, WriteWal(l, r) PROVE WalInv' /\ CopiesInv'
  <2>1. /\ phase = "up" /\ db = settled /\ Len(db[l]) < MaxSequence
        /\ Len(settled[l]) \in Nat /\ r # NoRecord /\ MaxSequence \in Nat
    BY <1>3, CheckpointAssumption DEF WriteWal, CopiesInv, TypeOK, States
  <2>2. UNCHANGED <<disk, stateDir, snapshots, manifest, phase, db, publisher, settled>>
    BY <1>3 DEF WriteWal
  <2>3. Len(settled[l]) + 1 \in 1 .. MaxSequence
    BY <2>1
  <2>4. \A k \in Lanes : \A s \in 1 .. MaxSequence :
          wal'[k][s] = IF k = l /\ s = Len(settled[l]) + 1 THEN r ELSE wal[k][s]
    BY <1>3, <2>1, <2>3 DEF WriteWal, TypeOK
  <2>5. \A k \in Lanes : commit'[k] = IF k = l THEN r ELSE commit[k]
    BY <1>3 DEF WriteWal, TypeOK
  <2>6. ASSUME NEW k \in Lanes, NEW s \in 1 .. MaxSequence
        PROVE  /\ wal'[k][s] # NoRecord /\ s <= Len(settled[k]) => wal'[k][s] = settled[k][s]
               /\ wal'[k][s] # NoRecord => s <= Len(settled[k]) + 1
               /\ manifest.vector[k] < s /\ s <= Len(settled[k]) => wal'[k][s] # NoRecord
    <3>1. CASE k = l /\ s = Len(settled[l]) + 1
      BY <2>1, <3>1
    <3>2. CASE ~(k = l /\ s = Len(settled[l]) + 1)
      BY <2>4, <3>2 DEF WalInv
    <3> QED BY <3>1, <3>2
  <2>7. ASSUME NEW k \in Lanes, commit'[k] # NoRecord
        PROVE  Len(db[k]) < MaxSequence /\ wal'[k][Len(db[k]) + 1] = commit'[k]
    <3>1. CASE k = l
      BY <2>1, <2>3, <2>4, <2>5, <3>1
    <3>2. CASE k # l
      <4>1. Len(db[k]) < MaxSequence /\ wal[k][Len(db[k]) + 1] = commit[k]
        BY <2>5, <2>7, <3>2 DEF WalInv
      <4>2. Len(db[k]) + 1 \in 1 .. MaxSequence
        BY <2>1, <4>1 DEF TypeOK, States
      <4> QED BY <2>4, <2>5, <3>2, <4>1, <4>2
    <3> QED BY <3>1, <3>2
  <2>8. WalInv'
    BY <2>1, <2>2, <2>6, <2>7 DEF WalInv
  <2> QED BY <2>2, <2>8 DEF CopiesInv
<1>4. ASSUME NEW l \in Lanes, Apply(l) PROVE WalInv' /\ CopiesInv'
  BY <1>4, ApplyRecovers
<1>5. ASSUME NEW l \in Lanes, CommitFails(l) PROVE WalInv' /\ CopiesInv'
  <2>1. UNCHANGED <<wal, disk, stateDir, snapshots, manifest, phase, db, publisher, settled>>
    BY <1>5 DEF CommitFails, files
  <2>2. \A k \in Lanes : commit'[k] # NoRecord => commit'[k] = commit[k]
    BY <1>5 DEF CommitFails, TypeOK
  <2> QED BY <2>1, <2>2 DEF WalInv, CopiesInv
<1>6. CASE Flush
  <2>1. /\ phase = "up" /\ disk' = db
        /\ UNCHANGED <<wal, snapshots, manifest, phase, db, commit, publisher, stateDir, settled>>
    BY <1>6 DEF Flush, files, server
  <2>2. stateDir = "complete"
    BY <2>1 DEF CopiesInv
  <2> QED BY <2>1, <2>2, FlushRecovers DEF WalInv, CopiesInv
<1>7. ASSUME NEW p \in Publishers, Prepare(p) PROVE WalInv' /\ CopiesInv'
  <2>1. /\ phase = "up" /\ disk' = db
        /\ UNCHANGED <<wal, manifest, phase, db, commit, stateDir, settled>>
    BY <1>7 DEF Prepare
  <2>2. stateDir = "complete" /\ db = settled
    BY <2>1 DEF CopiesInv
  <2>3. PICK id \in FreshIds :
          /\ snapshots' = snapshots \cup {[id |-> id, data |-> db]}
          /\ publisher' = [publisher EXCEPT ![p] =
                             [step |-> "check", id |-> id, vector |-> VectorOf(db)]]
    BY <1>7, PrepareIs
  <2>4. \A s \in snapshots' : s \in snapshots \/ s.data = settled
    BY <2>2, <2>3
  <2>5. \A s \in snapshots' : \A l \in Lanes : IsPrefixOf(s.data[l], settled[l])
    BY <2>4, PrefixReflexive DEF CopiesInv, TypeOK, States
  <2>6. \A q \in Publishers : q # p => publisher'[q] = publisher[q]
    BY <2>3 DEF TypeOK
  <2>7. publisher'[p].vector = VectorOf(disk')
    BY <2>1, <2>3 DEF TypeOK
  <2>8. AtLeast(VectorOf(disk'), publisher'[p].vector)
    <3>1. VectorOf(disk') \in Vectors
      BY <2>1, VectorType DEF TypeOK
    <3> QED BY <2>7, <3>1, AtLeastReflexive
  <2>9. \A q \in Publishers : publisher'[q].step # "idle" =>
          AtLeast(VectorOf(disk'), publisher'[q].vector)
    BY <2>1, <2>6, <2>8, FlushRecovers
  <2>10. WalInv'
    BY <2>1 DEF WalInv
  <2>11. \A l \in Lanes : IsPrefixOf(disk'[l], settled[l]) /\ manifest.vector[l] <= Len(disk'[l])
    BY <2>1, FlushRecovers
  <2>12. CopiesInv'
    BY <2>1, <2>2, <2>5, <2>9, <2>11 DEF CopiesInv
  <2> QED BY <2>10, <2>12
<1>8. ASSUME NEW p \in Publishers,
             \/ \E next \in Steps : publisher[p].step # "idle" /\ Advance(p, next)
             \/ Finish(p)
             \/ UNCHANGED publisher,
             UNCHANGED <<disk, phase>>
      PROVE  \A q \in Publishers : publisher'[q].step # "idle" =>
               phase' = "up" /\ AtLeast(VectorOf(disk'), publisher'[q].vector)
  <2>1. CASE UNCHANGED publisher
    BY <1>8, <2>1 DEF CopiesInv
  <2>2. CASE Finish(p)
    <3>1. \A q \in Publishers : publisher'[q] = IF q = p THEN Idle ELSE publisher[q]
      BY <2>2 DEF Finish, TypeOK
    <3> QED BY <1>8, <3>1 DEF CopiesInv, Idle
  <2>3. ASSUME NEW next \in Steps, publisher[p].step # "idle", Advance(p, next)
        PROVE  \A q \in Publishers : publisher'[q].step # "idle" =>
                 phase' = "up" /\ AtLeast(VectorOf(disk'), publisher'[q].vector)
    BY <1>8, <2>3, AdvanceIs DEF CopiesInv
  <2> QED BY <1>8, <2>1, <2>2, <2>3
<1>9. ASSUME NEW p \in Publishers,
             Check(p) \/ TrimDone(p) \/ RemoveOldest(p) \/ Published(p) \/ PublicationFails(p)
      PROVE  WalInv' /\ CopiesInv'
  <2>1. /\ UNCHANGED <<wal, manifest, disk, stateDir, phase, db, commit, settled>>
        /\ snapshots' \subseteq snapshots
    BY <1>9 DEF Check, TrimDone, RemoveOldest, Published, PublicationFails, files, server
  <2>2. \/ \E next \in Steps : publisher[p].step # "idle" /\ Advance(p, next)
        \/ Finish(p)
        \/ UNCHANGED publisher
    BY <1>9 DEF Check, TrimDone, RemoveOldest, Published, PublicationFails, server, Steps
  <2> QED BY <1>8, <2>1, <2>2 DEF WalInv, CopiesInv
<1>10. ASSUME NEW p \in Publishers, WriteManifest(p) PROVE WalInv' /\ CopiesInv'
  <2>1. /\ UNCHANGED <<wal, snapshots, disk, stateDir, phase, db, commit, settled>>
        /\ publisher[p].step = "write" /\ Advance(p, "trim")
        /\ manifest'.vector = publisher[p].vector
    BY <1>10 DEF WriteManifest
  <2>2. AtLeast(publisher[p].vector, manifest.vector)
    BY <2>1 DEF PublicationInv
  <2>3. \A l \in Lanes : manifest.vector[l] <= manifest'.vector[l]
    BY <2>1, <2>2 DEF AtLeast
  <2>4. \A l \in Lanes : manifest'.vector[l] <= Len(disk[l])
    <3>1. AtLeast(VectorOf(disk), publisher[p].vector)
      BY <2>1 DEF CopiesInv
    <3> QED BY <2>1, <3>1 DEF AtLeast, VectorOf
  <2>5. \A l \in Lanes : manifest.vector[l] \in Nat /\ manifest'.vector[l] \in Nat
    BY <2>1 DEF TypeOK, Manifest, Vectors
  <2>6. \A l \in Lanes : \A s \in 1 .. MaxSequence :
          manifest'.vector[l] < s => manifest.vector[l] < s
    BY <2>3, <2>5
  <2>7. WalInv'
    BY <2>1, <2>6 DEF WalInv
  <2>8. \A q \in Publishers : publisher'[q].step # "idle" =>
          phase' = "up" /\ AtLeast(VectorOf(disk'), publisher'[q].vector)
    BY <1>8, <2>1 DEF Steps
  <2> QED BY <2>1, <2>4, <2>7, <2>8 DEF CopiesInv
<1>11. ASSUME NEW p \in Publishers, NEW l \in Lanes, Trim(p, l) PROVE WalInv' /\ CopiesInv'
  <2>1. /\ UNCHANGED <<snapshots, manifest, disk, stateDir, phase, db, commit, publisher, settled>>
        /\ publisher[p].step = "trim"
    BY <1>11 DEF Trim, server
  <2>2. PICK t \in Trimmable(p, l) : wal' = [wal EXCEPT ![l][t] = NoRecord]
    BY <1>11 DEF Trim
  <2>3. t \in 1 .. MaxSequence /\ t <= manifest.vector[l]
    BY <2>1 DEF Trimmable, PublicationInv
  <2>4. \A k \in Lanes : \A s \in 1 .. MaxSequence :
          wal'[k][s] = IF k = l /\ s = t THEN NoRecord ELSE wal[k][s]
    BY <2>2, <2>3 DEF TypeOK
  <2>5. /\ phase = "up" /\ stateDir = "complete" /\ db = settled
        /\ manifest.vector[l] <= Len(settled[l])
    <3>1. phase = "up" /\ stateDir = "complete" /\ db = settled
      BY <2>1 DEF CopiesInv
    <3>2. manifest.vector[l] <= Len(disk[l]) /\ Len(disk[l]) <= Len(settled[l])
      BY <3>1 DEF CopiesInv, IsPrefixOf
    <3>3. manifest.vector[l] \in Nat /\ Len(disk[l]) \in Nat /\ Len(settled[l]) \in Nat
      BY DEF TypeOK, States, Manifest, Vectors
    <3> QED BY <3>1, <3>2, <3>3
  <2>6. manifest.vector[l] \in Nat /\ \A k \in Lanes : Len(settled[k]) \in Nat
    BY DEF TypeOK, States, Manifest, Vectors
  <2>7. ASSUME NEW k \in Lanes, NEW s \in 1 .. MaxSequence
        PROVE  /\ wal'[k][s] # NoRecord /\ s <= Len(settled[k]) => wal'[k][s] = settled[k][s]
               /\ wal'[k][s] # NoRecord => s <= Len(settled[k]) + 1
               /\ manifest.vector[k] < s /\ s <= Len(settled[k]) => wal'[k][s] # NoRecord
    <3>1. CASE k = l /\ s = t
      BY <2>3, <2>4, <2>6, <3>1
    <3>2. CASE ~(k = l /\ s = t)
      BY <2>4, <3>2 DEF WalInv
    <3> QED BY <3>1, <3>2
  <2>8. ASSUME NEW k \in Lanes, commit[k] # NoRecord
        PROVE  Len(db[k]) < MaxSequence /\ wal'[k][Len(db[k]) + 1] = commit[k]
    <3>1. Len(db[k]) < MaxSequence /\ wal[k][Len(db[k]) + 1] = commit[k]
      BY <2>8 DEF WalInv
    <3>2. Len(db[k]) + 1 \in 1 .. MaxSequence
      BY <2>5, <2>6, <3>1, CheckpointAssumption
    <3>3. ~(k = l /\ Len(db[k]) + 1 = t)
      BY <2>3, <2>5, <2>6
    <3> QED BY <2>4, <3>1, <3>2, <3>3
  <2>9. WalInv'
    BY <2>1, <2>5, <2>7, <2>8 DEF WalInv
  <2> QED BY <2>1, <2>9 DEF CopiesInv
<1>12. CASE Crash
  <2>1. /\ phase = "up" /\ phase' = "down"
        /\ commit' = [l \in Lanes |-> NoRecord]
        /\ publisher' = [p \in Publishers |-> Idle]
        /\ UNCHANGED <<disk, stateDir>> \/ (stateDir' = "absent" /\ disk' = Empty)
        /\ UNCHANGED <<wal, snapshots, manifest, settled>>
    BY <1>12 DEF Crash, files
  <2>2. \A p \in Publishers : publisher'[p].step = "idle"
    BY <2>1 DEF Idle
  <2>3. WalInv'
    BY <2>1 DEF WalInv
  <2> QED BY <2>1, <2>2, <2>3 DEF CopiesInv
<1>13. CASE StartRestore
  <2>1. /\ phase = "down" /\ phase' = "restoring" /\ stateDir = "absent" /\ stateDir' = "partial"
        /\ UNCHANGED <<wal, snapshots, manifest, disk, db, commit, publisher, settled>>
    BY <1>13 DEF StartRestore, files
  <2>2. \A l \in Lanes : commit[l] = NoRecord
    BY <2>1 DEF WalInv
  <2>3. \A p \in Publishers : publisher[p].step = "idle"
    BY <2>1 DEF CopiesInv
  <2> QED BY <2>1, <2>2, <2>3 DEF WalInv, CopiesInv
<1>14. CASE FinishRestore
  <2>1. /\ phase = "restoring" /\ phase' = "down" /\ stateDir' = "complete"
        /\ UNCHANGED <<wal, snapshots, manifest, db, commit, publisher, settled>>
    BY <1>14 DEF FinishRestore, files
  <2>2. PICK s \in snapshots : s.id = manifest.id /\ disk' = s.data
    BY <1>14 DEF FinishRestore
  <2>3. VectorOf(s.data) = manifest.vector
    BY <2>2, RestoredIs
  <2>4. \A l \in Lanes : Len(disk'[l]) = manifest.vector[l] /\ manifest.vector[l] \in Nat
    BY <2>2, <2>3 DEF VectorOf, TypeOK, Manifest, Vectors
  <2>5. \A l \in Lanes : IsPrefixOf(disk'[l], settled[l]) /\ manifest.vector[l] <= Len(disk'[l])
    BY <2>2, <2>4 DEF CopiesInv
  <2>6. \A l \in Lanes : commit[l] = NoRecord
    BY <2>1 DEF WalInv
  <2>7. \A p \in Publishers : publisher[p].step = "idle"
    BY <2>1 DEF CopiesInv
  <2> QED BY <2>1, <2>5, <2>6, <2>7 DEF WalInv, CopiesInv
<1>15. CASE Open
  BY <1>1, <1>15, OpenRecovers
<1>16. CASE UNCHANGED vars
  BY <1>16 DEF vars, WalInv, CopiesInv
<1> QED
  BY <1>2, <1>3, <1>4, <1>5, <1>6, <1>7, <1>9, <1>10, <1>11, <1>12, <1>13, <1>14, <1>15, <1>16
  DEF Next, Publish, Restart

-----------------------------------------------------------------------------
(* Theorems *)

\* A new server satisfies the invariant.
LEMMA InitCheckpointInv == Init => CheckpointInv
<1> SUFFICES ASSUME Init PROVE CheckpointInv
  OBVIOUS
<1>1. /\ Empty \in States /\ \A l \in Lanes : Empty[l] = <<>>
      /\ Zero \in Vectors /\ \A l \in Lanes : Zero[l] = 0
  BY EmptyIsState DEF Empty, Zero, Vectors
<1>2. TypeOK
  <2>1. /\ disk \in States /\ db \in States /\ settled \in States
        /\ stateDir = "complete" /\ phase = "up" /\ misread = FALSE /\ snapshots = {}
    BY <1>1 DEF Init
  <2>2. wal \in [Lanes -> [1 .. MaxSequence -> Records \cup {NoRecord}]]
    BY DEF Init
  <2>3. commit \in [Lanes -> Records \cup {NoRecord}] /\ manifest \in Manifest
    BY <1>1 DEF Init, Manifest, NoManifest
  <2>4. publisher \in [Publishers -> [step : Steps, vector : Vectors,
                                      id : SnapshotIds \cup {NoSnapshot}]]
    BY <1>1 DEF Init, Idle, Steps
  <2>5. faults \in 0 .. MaxFaults
    BY CheckpointAssumption DEF Init
  <2> QED BY <2>1, <2>2, <2>3, <2>4, <2>5 DEF TypeOK
<1>3. PublicationInv
  BY DEF Init, PublicationInv, ManifestNamesASnapshot, Publishing, Idle, NoManifest
<1>4. WalInv
  BY <1>1, CheckpointAssumption DEF Init, WalInv
<1>5. CopiesInv
  BY <1>1 DEF Init, CopiesInv, Idle, NoManifest, IsPrefixOf
<1> QED BY <1>2, <1>3, <1>4, <1>5 DEF CheckpointInv, RecoveryInv

\* The inductive invariant: types, who publishes what, and, until a start
\* takes part of a copy for a database, what the WAL files and every copy of the database hold.
THEOREM CheckpointInvariant == Spec => []CheckpointInv
<1>1. CheckpointInv /\ [Next]_vars => CheckpointInv'
  BY TypePreserved, PublicationPreserved, RecoveryPreserved DEF CheckpointInv
<1> QED BY InitCheckpointInv, <1>1, PTL DEF Spec

\* Every state of every run has the types TypeOK gives (DurableStore).
THEOREM CheckpointTypeCorrect == Spec => []TypeOK
<1>1. CheckpointInv => TypeOK
  BY DEF CheckpointInv
<1> QED BY CheckpointInvariant, <1>1, PTL

\* The published checkpoint is there, with the positions that the manifest says,
\* however publications and cleanups interleave and wherever one of them stops
\* (publish_checkpoint).
THEOREM PublishedCheckpointExists == Spec => []ManifestNamesASnapshot
<1>1. CheckpointInv => ManifestNamesASnapshot
  BY DEF CheckpointInv, PublicationInv
<1> QED BY CheckpointInvariant, <1>1, PTL

\* No publication, however late, moves the recovery point of a lane back
\* ("checkpoint publication would regress partition").
THEOREM RecoveryPointNeverRegresses == Spec => RecoveryPointAdvances
<1>1. CheckpointInv /\ [Next]_vars => [AtLeast(manifest'.vector, manifest.vector)]_vars
  <2> SUFFICES ASSUME CheckpointInv, [Next]_vars
               PROVE  AtLeast(manifest'.vector, manifest.vector)
    OBVIOUS
  <2>1. manifest.vector \in Vectors
    BY DEF CheckpointInv, TypeOK, Manifest
  <2>2. ASSUME NEW p \in Publishers, WriteManifest(p)
        PROVE  AtLeast(manifest'.vector, manifest.vector)
    BY <2>2 DEF WriteManifest, CheckpointInv, PublicationInv
  <2>3. ASSUME ~ \E p \in Publishers : WriteManifest(p) PROVE manifest' = manifest
    BY <2>3 DEF Next, WriteWal, Apply, CommitFails, Flush, Prepare, Publish, Check,
         Trim, TrimDone, RemoveOldest, Published, PublicationFails, Crash, Restart, StartRestore,
         FinishRestore, InterruptRestore, Open, vars, files, server
  <2> QED BY <2>1, <2>2, <2>3, AtLeastReflexive
<1> QED BY CheckpointInvariant, <1>1, PTL DEF Spec, RecoveryPointAdvances

\* No record that a caller was told of or a reader saw is lost, whatever crash
\* comes, with or without the state directory, also in a restore, until a start
\* takes what that has left for a database (DurableStore::open_sharded_with_journal).
THEOREM SettledRecoverable == Spec => []SettledAreRecoverable
<1>1. CheckpointInv => SettledAreRecoverable
  BY RecoveryImpliesSettled DEF CheckpointInv
<1> QED BY CheckpointInvariant, <1>1, PTL
=============================================================================
