------------------------ MODULE ObjectJournalProofs ------------------------
(***************************************************************************)
(* Proofs about ObjectJournal: the invariant JournalInv is inductive, the  *)
(* safety properties follow from it, and the journal implements SharedLog. *)
(* When local writes do not fail, records carry their positions, and a     *)
(* transaction its own runtime leaves alone commits only for the current   *)
(* owner of the lane.                                                      *)
(***************************************************************************)
EXTENDS ObjectJournal, WellFoundedInduction, SequenceTheorems, TLAPS

-----------------------------------------------------------------------------
(* Numbers, and what the local state says of the owner *)

\* A bounded set of numbers has a largest one: owner_epoch_for finds the last
\* owner record among the applied ones.
LEMMA MaxExists ==
  ASSUME NEW n \in Nat, NEW S, S \subseteq 1..n, S # {}
  PROVE  \E i \in S : \A j \in S : j <= i
<1> DEFINE R == OpToRel(<, Nat)
           T == {n - i : i \in S}
<1>1. IsWellFoundedOn(R, Nat)
  BY NatLessThanWellFounded
<1>2. T \subseteq Nat /\ T # {}
  <2> HIDE DEF R
  <2>1. \A i \in S : n - i \in Nat
    OBVIOUS
  <2> QED BY <2>1
<1>3. PICK x \in T : \A y \in T : ~ (<<y, x>> \in R)
  <2> HIDE DEF R, T
  <2> QED BY <1>1, <1>2, WFMin
<1>4. PICK i \in S : x = n - i
  OBVIOUS
<1>5. ASSUME NEW j \in S PROVE j <= i
  <2>1. n - j \in T /\ n - j \in Nat /\ n - i \in Nat
    OBVIOUS
  <2>2. ~ (<<n - j, n - i>> \in R)
    BY <2>1, <1>3, <1>4
  <2>3. ~(n - j < n - i)
    BY <2>1, <2>2 DEF OpToRel
  <2> QED BY <2>3
<1> QED BY <1>5

\* Every record of the lane was uploaded before it was named, so the generation
\* the local state shows is a number.
LEMMA OwnerEpochIsNat ==
  ASSUME TypeOK, ChainIsLog, ReplicasArePrefixes, NEW r \in Runtimes
  PROVE  OwnerEpoch(applied[r]) \in Nat
<1> DEFINE s == applied[r]
<1>1. s \in Seq(RecordPaths) /\ Len(s) \in Nat
  BY DEF TypeOK
<1>2. CASE OwnerPuts(s) = {}
  BY <1>2 DEF OwnerEpoch
<1>3. CASE OwnerPuts(s) # {}
  <2>1. OwnerPuts(s) \subseteq 1..Len(s)
    BY DEF OwnerPuts
  <2>2. LastOwnerPut(s) \in 1..Len(s)
    <3> HIDE DEF s
    <3>1. \E i \in OwnerPuts(s) : \A j \in OwnerPuts(s) : j <= i
      BY <1>1, <1>3, <2>1, MaxExists
    <3> QED BY <2>1, <3>1 DEF LastOwnerPut
  <2>3. \A i \in 1..Len(s) : records[s[i]] \in Record
    BY <1>1 DEF TypeOK, ChainIsLog, ReplicasArePrefixes, ValidAt
  <2>4. records[s[LastOwnerPut(s)]].epoch \in Nat
    BY <2>2, <2>3 DEF Record
  <2> QED BY <1>3, <2>4 DEF OwnerEpoch
<1> QED BY <1>2, <1>3

-----------------------------------------------------------------------------
(* Steps that leave the store alone *)

\* What is said of the store alone, and what heads and records are, survives
\* every step of a runtime that uploads nothing and decides nothing.
LEMMA StoreFrame ==
  ASSUME JournalInv, UNCHANGED store
  PROVE  /\ ChainIsLog' /\ RequestsAreProposals' /\ GenerationsFollow'
         /\ \A h : PastHead(h)' = PastHead(h)
         /\ \A h : Uploaded(h)' = Uploaded(h)
         /\ \A w : WalkFollowsLog(w)' = WalkFollowsLog(w)
         /\ \A p : Committed(p)' = Committed(p)
<1>1. records' = records /\ head' = head /\ requests' = requests /\ log' = log
  BY DEF store
<1>2. ChainIsLog'
  BY <1>1 DEF JournalInv, ChainIsLog, ValidAt
<1>3. GenerationsFollow'
  BY <1>1 DEF JournalInv, GenerationsFollow, EpochsMonotone
<1>4. \A h : PastHead(h)' = PastHead(h)
  BY <1>1 DEF PastHead, EmptyHead
<1>5. \A h : Uploaded(h)' = Uploaded(h)
  BY <1>1 DEF Uploaded, ValidAt
<1>6. \A p : Committed(p)' = Committed(p)
  BY <1>1 DEF Committed
<1>7. RequestsAreProposals'
  BY <1>1, <1>4, <1>5, <1>6 DEF JournalInv, RequestsAreProposals
<1>8. \A w : WalkFollowsLog(w)' = WalkFollowsLog(w)
  BY <1>1, <1>4 DEF WalkFollowsLog
<1> QED BY <1>2, <1>3, <1>4, <1>5, <1>6, <1>7, <1>8

\* A step of the runtimes keeps the invariant when what they newly remember is
\* past, follows the log, or is a prefix of it.
LEMMA LocalStep ==
  ASSUME JournalInv, UNCHANGED store, TypeOK',
         \A r \in Runtimes : cursor'[r] = cursor[r] \/ PastHead(cursor'[r]),
         \A r \in Runtimes :
           phase'[r] \in {"waiting", "readback"} =>
             phase[r] \in {"waiting", "readback"} /\ attempt'[r] = attempt[r],
         \A r \in Runtimes : phase'[r] = "open" => txn'[r] # NoTxn,
         \A r \in Runtimes :
           walk'[r] = walk[r] \/ walk'[r] = NoWalk \/ WalkFollowsLog(walk'[r]),
         \A r \in Runtimes :
           /\ Len(applied'[r]) <= Len(log)
           /\ \A i \in 1..Len(applied'[r]) : applied'[r][i] = log[i],
         \A p \in acked' : Committed(p)
  PROVE  JournalInv'
<1> USE DEF JournalInv
<1>1. /\ ChainIsLog' /\ RequestsAreProposals' /\ GenerationsFollow'
      /\ \A h : PastHead(h)' = PastHead(h)
      /\ \A h : Uploaded(h)' = Uploaded(h)
      /\ \A w : WalkFollowsLog(w)' = WalkFollowsLog(w)
      /\ \A p : Committed(p)' = Committed(p)
  BY StoreFrame
<1>2. HeadsArePast'
  BY <1>1 DEF HeadsArePast, store
<1>3. AttemptsAreUploaded'
  BY <1>1 DEF AttemptsAreUploaded
<1>4. TransactionsHaveRead'
  BY DEF TransactionsHaveRead
<1>5. WalksFollowLog'
  BY <1>1 DEF WalksFollowLog
<1>6. ReplicasArePrefixes'
  BY DEF ReplicasArePrefixes, store
<1>7. AckedAreCommitted'
  BY <1>1 DEF AckedAreCommitted
<1> QED BY <1>1, <1>2, <1>3, <1>4, <1>5, <1>6, <1>7

\* A synchronisation starts at the current head.
LEMMA BeginWalkInv ==
  ASSUME JournalInv, NEW r \in Runtimes, NEW purpose \in Purposes,
         BeginWalk(r, purpose),
         \/ phase' = phase
         \/ phase' = [phase EXCEPT ![r] = "syncing"],
         UNCHANGED <<store, cursor, applied, txn, attempt, acked, crashes>>
  PROVE  JournalInv'
<1> USE DEF JournalInv
<1> DEFINE w == [purpose |-> purpose, head |-> head, path |-> head.path,
                 expected |-> head.position, tail |-> <<>>]
<1>1. head \in JournalHead /\ head.position \in Nat
      /\ head.path \in RecordPaths \cup {NoPath}
  BY DEF TypeOK, JournalHead
<1>2. w \in Walk
  BY <1>1 DEF Walk
<1>3. WalkFollowsLog(w)
  <2>1. head.path = IF head.position = 0 THEN NoPath ELSE log[head.position]
    BY DEF ChainIsLog, TypeOK
  <2> QED BY <1>1, <2>1 DEF WalkFollowsLog, HeadsArePast
<1>4. /\ walk' \in [Runtimes -> Walk \cup {NoWalk}]
      /\ \A s \in Runtimes : walk'[s] = walk[s] \/ walk'[s] = w
  <2> HIDE DEF w
  <2>1. walk' = [walk EXCEPT ![r] = w]
    BY DEF BeginWalk, w
  <2> QED BY <1>2, <2>1 DEF TypeOK
<1>5. TypeOK'
  BY <1>4 DEF TypeOK, Phases, store
<1>6. \A s \in Runtimes : phase'[s] = phase[s] \/ phase'[s] = "syncing"
  BY DEF TypeOK
<1>7. \A s \in Runtimes :
        walk'[s] = walk[s] \/ walk'[s] = NoWalk \/ WalkFollowsLog(walk'[s])
  <2> HIDE DEF w
  <2> QED BY <1>3, <1>4
<1>8. \A p \in acked' : Committed(p)
  BY DEF AckedAreCommitted
<1>9. \A s \in Runtimes :
        /\ Len(applied'[s]) <= Len(log)
        /\ \A i \in 1..Len(applied'[s]) : applied'[s][i] = log[i]
  BY DEF ReplicasArePrefixes
<1> QED BY <1>5, <1>6, <1>7, <1>8, <1>9, LocalStep DEF TransactionsHaveRead

\* A walk goes from a record to the one before it in the log.
LEMMA WalkStepInv ==
  ASSUME JournalInv, NEW r \in Runtimes, WalkStep(r)
  PROVE  JournalInv'
<1> USE DEF JournalInv
<1> DEFINE w == walk[r]
           v == [purpose |-> w.purpose, head |-> w.head,
                 path |-> records[w.path].parent, expected |-> w.expected - 1,
                 tail |-> <<w.path>> \o w.tail]
<1>1. /\ w \in Walk /\ w # NoWalk /\ WalkFollowsLog(w)
      /\ w.path \in RecordPaths
      /\ ValidAt(w.path, w.expected)
      /\ w.expected \in Nat /\ w.expected > Len(applied[r]) /\ Len(applied[r]) \in Nat
      /\ w.tail \in Seq(RecordPaths) /\ Len(w.tail) \in Nat
      /\ w.head \in JournalHead /\ w.head.position \in Nat
  BY SMTT(30) DEF WalkStep, WalkDone, TypeOK, WalksFollowLog, Walk, JournalHead
<1>2. records[w.path] \in Record /\ records[w.path].parent \in RecordPaths \cup {NoPath}
  BY <1>1 DEF TypeOK, ValidAt, Record
<1>3. /\ Len(<<w.path>> \o w.tail) = Len(w.tail) + 1
      /\ <<w.path>> \o w.tail \in Seq(RecordPaths)
      /\ \A i \in 1..(Len(w.tail) + 1) :
           (<<w.path>> \o w.tail)[i] = IF i = 1 THEN w.path ELSE w.tail[i - 1]
  BY <1>1
<1>4. v \in Walk
  BY <1>1, <1>2, <1>3 DEF Walk
<1>5. WalkFollowsLog(v)
  <2>1. /\ v.head = w.head /\ v.expected = w.expected - 1
        /\ v.path = records[w.path].parent /\ v.tail = <<w.path>> \o w.tail
    OBVIOUS
  <2>6. w.expected \in Nat /\ Len(w.tail) \in Nat /\ w.head.position \in Nat
    BY <1>1
  <2>2. w.path = log[w.expected] /\ w.expected \in 1..Len(log)
    BY <1>1 DEF WalkFollowsLog, PastHead, EmptyHead, TypeOK
  <2>3. v.path = IF v.expected = 0 THEN NoPath ELSE log[v.expected]
    BY <1>1, <2>1, <2>2 DEF ChainIsLog
  <2>4. \A i \in 1..Len(v.tail) : v.tail[i] = log[v.expected + i]
    <3> HIDE DEF v
    <3> SUFFICES ASSUME NEW i \in 1..(Len(w.tail) + 1)
                 PROVE  v.tail[i] = log[v.expected + i]
      BY <1>3, <2>1
    <3>1. CASE i = 1
      BY <1>1, <1>3, <2>1, <2>2, <3>1
    <3>2. CASE i # 1
      <4>1. i - 1 \in 1..Len(w.tail) /\ w.expected + (i - 1) = v.expected + i
        <5>1. i \in Nat /\ v.expected = w.expected - 1
          BY <2>1, <2>6
        <5> HIDE DEF w
        <5> QED BY <2>6, <3>2, <5>1
      <4> QED BY <1>1, <1>3, <2>1, <3>2, <4>1 DEF WalkFollowsLog
    <3> QED BY <3>1, <3>2
  <2>5. v.expected + Len(v.tail) = v.head.position
    <3>1. w.expected + Len(w.tail) = w.head.position
      BY <1>1 DEF WalkFollowsLog
    <3>2. Len(v.tail) = Len(w.tail) + 1
      BY <1>3, <2>1
    <3> HIDE DEF v, w
    <3> QED BY <2>1, <2>6, <3>1, <3>2, SMTT(30)
  <2> HIDE DEF v
  <2> QED BY <1>1, <2>1, <2>3, <2>4, <2>5 DEF WalkFollowsLog
<1>6. /\ walk' \in [Runtimes -> Walk \cup {NoWalk}]
      /\ \A s \in Runtimes : walk'[s] = walk[s] \/ walk'[s] = v
  <2>2. walk' = [walk EXCEPT ![r] = v]
    BY DEF WalkStep
  <2> HIDE DEF v
  <2> QED BY <1>4, <2>2 DEF TypeOK
<1>7. TypeOK'
  BY <1>6 DEF TypeOK, WalkStep, store
<1>8. \A s \in Runtimes :
        walk'[s] = walk[s] \/ walk'[s] = NoWalk \/ WalkFollowsLog(walk'[s])
  <2> HIDE DEF v
  <2> QED BY <1>5, <1>6
<1>9. /\ \A p \in acked' : Committed(p)
      /\ \A s \in Runtimes :
           /\ Len(applied'[s]) <= Len(log)
           /\ \A i \in 1..Len(applied'[s]) : applied'[s][i] = log[i]
  BY DEF AckedAreCommitted, ReplicasArePrefixes, WalkStep
<1> QED BY <1>7, <1>8, <1>9, LocalStep DEF TransactionsHaveRead, WalkStep

\* The parts of LocalStep that hold of what a step leaves alone.
LEMMA Remembered ==
  ASSUME JournalInv
  PROVE  /\ \A r \in Runtimes : walk[r] # NoWalk => WalkFollowsLog(walk[r])
         /\ \A p \in acked : Committed(p)
         /\ \A r \in Runtimes :
              /\ Len(applied[r]) \in Nat
              /\ Len(applied[r]) <= Len(log)
              /\ \A i \in 1..Len(applied[r]) : applied[r][i] = log[i]
         /\ \A r \in Runtimes : phase[r] = "open" => txn[r] # NoTxn
  BY DEF JournalInv, AckedAreCommitted, ReplicasArePrefixes, WalksFollowLog,
         TransactionsHaveRead, TypeOK

\* The steps that fetch, read or give up, and leave heads and replicas alone.
LEMMA QuietStepInv ==
  ASSUME JournalInv, NEW r \in Runtimes,
         \/ WalkFails(r) \/ (\E kind \in Operations : ReadState(r, kind))
         \/ Abandon(r) \/ HeadErrored(r) \/ ReadbackFails(r)
  PROVE  JournalInv'
<1> USE DEF JournalInv
<1>1. CASE WalkFails(r)
  <2>1. walk[r] \in Walk /\ phase' = [phase EXCEPT ![r] = AfterWalk(r, FALSE)]
        /\ AfterWalk(r, FALSE) \in {"idle", "down", phase[r]}
    BY <1>1 DEF WalkFails, TypeOK, AfterWalk
  <2>2. TypeOK'
    BY <1>1, <2>1 DEF WalkFails, TypeOK, Phases, store
  <2> QED BY <1>1, <2>1, <2>2, Remembered, LocalStep DEF WalkFails, TypeOK
<1>2. CASE \E kind \in Operations : ReadState(r, kind)
  <2>1. PICK kind \in Operations : ReadState(r, kind)
    BY <1>2
  <2> DEFINE t == [kind |-> kind, base |-> Len(applied[r]),
                   epoch |-> OwnerEpoch(applied[r])]
  <2>2. t \in Txn
    BY OwnerEpochIsNat, OperationsAssumption DEF Txn, TypeOK
  <2>3. t # NoTxn
    BY OperationsAssumption DEF NoTxn, Kinds
  <2>4. txn' = [txn EXCEPT ![r] = t] /\ phase' = [phase EXCEPT ![r] = "open"]
    BY <2>1 DEF ReadState
  <2> HIDE DEF t
  <2>5. TypeOK'
    BY <2>1, <2>2, <2>4 DEF ReadState, TypeOK, Phases, store
  <2>6. \A s \in Runtimes : phase'[s] = "open" => txn'[s] # NoTxn
    BY <2>3, <2>4, Remembered DEF TypeOK
  <2> QED BY <2>1, <2>4, <2>5, <2>6, Remembered, LocalStep DEF ReadState, TypeOK
<1>3. CASE Abandon(r)
  <2>1. TypeOK'
    BY <1>3 DEF Abandon, TypeOK, Phases, store
  <2> QED BY <1>3, <2>1, Remembered, LocalStep DEF Abandon, TypeOK
<1>4. CASE HeadErrored(r)
  <2>1. TypeOK'
    BY <1>4 DEF HeadErrored, TypeOK, Phases, store
  <2> QED BY <1>4, <2>1, Remembered, LocalStep DEF HeadErrored, TypeOK
<1>5. CASE ReadbackFails(r)
  <2>1. TypeOK'
    BY <1>5 DEF ReadbackFails, EndAttempt, TypeOK, Phases, JournalHead,
                EmptyHead, store
  <2> QED BY <1>5, <2>1, Remembered, LocalStep DEF ReadbackFails, EndAttempt, TypeOK
<1> QED BY <1>1, <1>2, <1>3, <1>4, <1>5

\* A crash takes the local state back to a shorter prefix.
LEMMA CrashInv ==
  ASSUME JournalInv, NEW r \in Runtimes, Crash(r)
  PROVE  JournalInv'
<1> USE DEF JournalInv
<1>1. PICK n \in 0..Len(applied[r]) :
        applied' = [applied EXCEPT ![r] = SubSeq(@, 1, n)]
  BY DEF Crash
<1>2. /\ SubSeq(applied[r], 1, n) \in Seq(RecordPaths)
      /\ Len(SubSeq(applied[r], 1, n)) = n
      /\ \A i \in 1..n : SubSeq(applied[r], 1, n)[i] = applied[r][i]
  BY <1>1 DEF TypeOK
<1>3. TypeOK'
  <2>1. applied' \in [Runtimes -> Seq(RecordPaths)]
    BY <1>1, <1>2 DEF TypeOK
  <2>2. crashes' \in 0..MaxCrashes
    BY CrashAssumption DEF Crash, TypeOK
  <2> QED BY <2>1, <2>2 DEF Crash, EndAttempt, TypeOK, Phases, JournalHead,
                            EmptyHead, store
<1>4. \A s \in Runtimes :
        /\ Len(applied'[s]) <= Len(log)
        /\ \A i \in 1..Len(applied'[s]) : applied'[s][i] = log[i]
  <2> SUFFICES ASSUME NEW s \in Runtimes
               PROVE  /\ Len(applied'[s]) <= Len(log)
                      /\ \A i \in 1..Len(applied'[s]) : applied'[s][i] = log[i]
    OBVIOUS
  <2>1. CASE s = r
    <3>1. applied'[s] = SubSeq(applied[r], 1, n)
      BY <1>1, <2>1 DEF TypeOK
    <3> QED BY <1>1, <1>2, <3>1, Remembered DEF TypeOK
  <2>2. CASE s # r
    BY <1>1, <2>2, Remembered DEF TypeOK
  <2> QED BY <2>1, <2>2
<1>5. \A s \in Runtimes : cursor'[s] = cursor[s] \/ PastHead(cursor'[s])
  <2>1. PastHead(EmptyHead)
    BY DEF PastHead
  <2> QED BY <2>1 DEF Crash, TypeOK
<1>6. \A s \in Runtimes : \/ s # r /\ UNCHANGED <<phase[s], txn[s], attempt[s], walk[s]>>
                          \/ phase'[s] = "down" /\ walk'[s] = NoWalk
  BY DEF Crash, EndAttempt, TypeOK
<1>7. UNCHANGED <<store, acked>>
  BY DEF Crash
<1> QED BY <1>3, <1>4, <1>5, <1>6, <1>7, Remembered, LocalStep


\* The records a walk fetched that carry their positions are the next ones of
\* the log after the applied ones.
LEMMA ApplicableIsNext ==
  ASSUME JournalInv, NEW r \in Runtimes, walk[r] # NoWalk,
         NEW i \in 1..Len(walk[r].tail), Applicable(r, walk[r].tail, i)
  PROVE  /\ Len(applied[r]) + i \in 1..Len(log)
         /\ walk[r].tail[i] = log[Len(applied[r]) + i]
<1> USE DEF JournalInv
<1> DEFINE w == walk[r]
<1>1. /\ w \in Walk /\ WalkFollowsLog(w)
      /\ w.expected \in Nat /\ Len(w.tail) \in Nat /\ w.head.position \in Nat
      /\ Len(applied[r]) \in Nat /\ Len(log) \in Nat /\ i \in Nat
  BY DEF TypeOK, WalksFollowLog, Walk, JournalHead
<1>2. w.tail[i] = log[w.expected + i] /\ w.expected + Len(w.tail) = w.head.position
  BY <1>1 DEF WalkFollowsLog
<1>3. w.head.position <= Len(log)
  BY <1>1 DEF WalkFollowsLog, PastHead, EmptyHead
<1>4. w.expected + i \in 1..Len(log)
  <2>1. /\ w.expected \in Nat /\ Len(w.tail) \in Nat /\ i \in 1..Len(w.tail)
        /\ Len(log) \in Nat /\ w.expected + Len(w.tail) <= Len(log)
    BY <1>1, <1>2, <1>3
  <2> HIDE DEF w
  <2> QED BY <2>1
<1>5. records[w.tail[i]].position = w.expected + i
  BY <1>2, <1>4 DEF ChainIsLog, ValidAt
<1>6. records[w.tail[i]].position = Len(applied[r]) + i
  BY DEF Applicable
<1>7. Len(applied[r]) + i = w.expected + i
  BY <1>5, <1>6
<1> QED BY <1>2, <1>4, <1>7

\* A synchronisation leaves the runtime with a prefix of the log that is not
\* shorter than the one it had.
LEMMA FinishWalkInv ==
  ASSUME JournalInv, NEW r \in Runtimes, FinishWalk(r)
  PROVE  /\ JournalInv'
         /\ \E n \in Len(applied[r])..Len(log) :
              applied' = [applied EXCEPT ![r] = SubSeq(log, 1, n)]
<1> USE DEF JournalInv
<1> DEFINE tail == walk[r].tail
<1>1. /\ walk[r] \in Walk /\ WalkFollowsLog(walk[r])
      /\ tail \in Seq(RecordPaths) /\ Len(tail) \in Nat
      /\ walk[r].head \in JournalHead /\ PastHead(walk[r].head)
  BY DEF FinishWalk, TypeOK, WalksFollowLog, Walk, WalkFollowsLog
<1>2. PICK n \in 0..Len(tail) :
        /\ \A i \in 1..n : Applicable(r, tail, i)
        /\ applied' = [applied EXCEPT ![r] = @ \o SubSeq(tail, 1, n)]
        /\ phase' = [phase EXCEPT ![r] = AfterWalk(r, n = Len(tail))]
  BY DEF FinishWalk
<1>3. /\ walk' = [walk EXCEPT ![r] = NoWalk]
      /\ cursor' = [cursor EXCEPT ![r] = walk[r].head]
      /\ UNCHANGED <<store, txn, attempt, acked, crashes>>
  BY DEF FinishWalk
<1> DEFINE a == applied[r]
           b == SubSeq(tail, 1, n)
           m == Len(a) + n
<1>4. /\ a \in Seq(RecordPaths) /\ Len(a) \in Nat /\ Len(a) <= Len(log)
      /\ \A i \in 1..Len(a) : a[i] = log[i]
      /\ log \in Seq(RecordPaths) /\ Len(log) \in Nat
  BY DEF TypeOK, ReplicasArePrefixes
<1>5. /\ b \in Seq(RecordPaths) /\ Len(b) = n
      /\ \A i \in 1..n : b[i] = tail[i]
  BY <1>1, <1>2
<1>6. \A i \in 1..n : Len(a) + i \in 1..Len(log) /\ tail[i] = log[Len(a) + i]
  <2> SUFFICES ASSUME NEW i \in 1..n
               PROVE  Len(a) + i \in 1..Len(log) /\ tail[i] = log[Len(a) + i]
    OBVIOUS
  <2>1. i \in 1..Len(tail) /\ Applicable(r, tail, i)
    BY <1>1, <1>2
  <2>2. walk[r] # NoWalk
    BY DEF FinishWalk
  <2> QED BY <2>1, <2>2, ApplicableIsNext
<1>7. m \in Len(a)..Len(log)
  <2>1. CASE n = 0
    BY <1>4, <2>1
  <2>2. CASE n # 0
    <3>1. Len(a) + n \in 1..Len(log)
      BY <1>2, <1>6, <2>2, <1>1
    <3> QED BY <1>2, <1>4, <3>1
  <2> QED BY <2>1, <2>2
<1>8. /\ a \o b \in Seq(RecordPaths) /\ Len(a \o b) = m
      /\ \A i \in 1..m : (a \o b)[i] = log[i]
  <2> HIDE DEF a, b, tail
  <2>1. a \o b \in Seq(RecordPaths) /\ Len(a \o b) = m
    BY <1>4, <1>5, SMTT(30)
  <2>2. ASSUME NEW i \in 1..m PROVE (a \o b)[i] = log[i]
    <3>1. CASE i \in 1..Len(a)
      BY <1>4, <1>5, <3>1
    <3>2. CASE i \notin 1..Len(a)
      <4>1. i - Len(a) \in 1..n /\ Len(a) + (i - Len(a)) = i /\ i \in 1..(Len(a) + Len(b))
        BY <1>2, <1>4, <1>5, <3>2
      <4>2. (a \o b)[i] = b[i - Len(a)]
        BY <1>4, <1>5, <3>2, <4>1
      <4> QED BY <1>5, <1>6, <4>1, <4>2
    <3> QED BY <3>1, <3>2
  <2> QED BY <2>1, <2>2
<1>9. a \o b = SubSeq(log, 1, m)
  <2> HIDE DEF a, b, m
  <2>1. /\ SubSeq(log, 1, m) \in Seq(RecordPaths) /\ Len(SubSeq(log, 1, m)) = m
        /\ \A i \in 1..m : SubSeq(log, 1, m)[i] = log[i]
    BY <1>4, <1>7
  <2> QED BY <1>8, <2>1, SeqEqual
<1>10. applied' = [applied EXCEPT ![r] = a \o b]
  BY <1>2
<1>11. TypeOK'
  <2>1. applied' \in [Runtimes -> Seq(RecordPaths)]
    BY <1>8, <1>10 DEF TypeOK
  <2>2. AfterWalk(r, n = Len(tail)) \in Phases
    BY DEF AfterWalk, TypeOK, Phases
  <2>3. phase' \in [Runtimes -> Phases]
    BY <1>2, <2>2 DEF TypeOK
  <2>4. /\ walk' \in [Runtimes -> Walk \cup {NoWalk}]
        /\ cursor' \in [Runtimes -> JournalHead]
    BY <1>1, <1>3 DEF TypeOK
  <2> QED BY <1>3, <2>1, <2>3, <2>4 DEF TypeOK, store
<1>12. \A s \in Runtimes :
         /\ Len(applied'[s]) <= Len(log)
         /\ \A i \in 1..Len(applied'[s]) : applied'[s][i] = log[i]
  <2> HIDE DEF b
  <2> SUFFICES ASSUME NEW s \in Runtimes
               PROVE  /\ Len(applied'[s]) <= Len(log)
                      /\ \A i \in 1..Len(applied'[s]) : applied'[s][i] = log[i]
    OBVIOUS
  <2>1. CASE s = r
    BY <1>4, <1>7, <1>8, <1>10, <2>1 DEF TypeOK
  <2>2. CASE s # r
    BY <1>10, <2>2 DEF TypeOK, ReplicasArePrefixes
  <2> QED BY <2>1, <2>2
<1>13. \A s \in Runtimes : cursor'[s] = cursor[s] \/ PastHead(cursor'[s])
  BY <1>1, <1>3 DEF TypeOK
<1>14. \A s \in Runtimes : walk'[s] = walk[s] \/ walk'[s] = NoWalk
  BY <1>3 DEF TypeOK
<1>15. \A s \in Runtimes :
         phase'[s] = phase[s] \/ phase'[s] \in {"synced", "idle", "down"}
  BY <1>2 DEF AfterWalk, TypeOK
<1>16. JournalInv'
  <2> HIDE DEF b, tail
  <2> QED BY <1>3, <1>11, <1>12, <1>13, <1>14, <1>15, Remembered, LocalStep
<1> QED BY <1>7, <1>9, <1>10, <1>16

-----------------------------------------------------------------------------
(* The steps of an append *)

\* A proposed head whose record is in the log, or that is the current head, is a
\* head the lane has had: the response and the readback mean the same.
LEMMA AttemptIsPast ==
  ASSUME JournalInv, NEW r \in Runtimes, phase[r] \in {"waiting", "readback"},
         Committed(attempt[r].path) \/ head = attempt[r]
  PROVE  /\ PastHead(attempt[r])
         /\ attempt[r] \in JournalHead
         /\ attempt[r].path \in RecordPaths
         /\ attempt[r].position \in 1..Len(log)
         /\ attempt[r].path = log[attempt[r].position]
<1> USE DEF JournalInv
<1> DEFINE a == attempt[r]
<1>1. a \in JournalHead /\ Uploaded(a)
  BY DEF TypeOK, AttemptsAreUploaded
<1>2. CASE Committed(a.path)
  <2>1. PICK i \in 1..Len(log) : log[i] = a.path
    BY <1>2 DEF Committed
  <2>2. a.position = i
    BY <1>1, <2>1 DEF ChainIsLog, ValidAt, Uploaded
  <2> QED BY <1>1, <2>1, <2>2 DEF PastHead, Uploaded
<1>3. CASE head = a
  <2>1. PastHead(a) /\ a.path # NoPath
    BY <1>1, <1>3, PathAssumption DEF HeadsArePast, Uploaded
  <2> QED BY <1>1, <2>1 DEF PastHead, EmptyHead, Uploaded
<1> QED BY <1>2, <1>3

\* The append ends: either the record is applied right after the applied prefix
\* and acknowledged, or nothing is applied or acknowledged.
LEMMA FinishCommitInv ==
  ASSUME JournalInv, NEW r \in Runtimes, phase[r] \in {"waiting", "readback"},
         Committed(attempt[r].path) \/ head = attempt[r], FinishCommit(r)
  PROVE  /\ JournalInv'
         /\ \/ UNCHANGED <<applied, acked>>
            \/ \E n \in Len(applied[r])..Len(log) :
                 /\ n > 0
                 /\ applied' = [applied EXCEPT ![r] = SubSeq(log, 1, n)]
                 /\ log[n] = attempt[r].path
                 /\ acked' = acked \cup {attempt[r].path}
<1> USE DEF JournalInv
<1> DEFINE a == attempt[r]
           s == applied[r]
           t == Append(s, a.path)
<1>1. /\ PastHead(a) /\ a \in JournalHead /\ a.path \in RecordPaths
      /\ a.position \in 1..Len(log) /\ a.path = log[a.position]
  BY AttemptIsPast
<1>2. /\ cursor' = [cursor EXCEPT ![r] = a]
      /\ phase' = [phase EXCEPT ![r] = "idle"]
      /\ txn' = [txn EXCEPT ![r] = NoTxn]
      /\ attempt' = [attempt EXCEPT ![r] = EmptyHead]
      /\ UNCHANGED <<store, walk, crashes>>
  BY DEF FinishCommit, EndAttempt
<1>3. /\ s \in Seq(RecordPaths) /\ Len(s) \in Nat /\ Len(s) <= Len(log)
      /\ \A i \in 1..Len(s) : s[i] = log[i]
      /\ log \in Seq(RecordPaths) /\ Len(log) \in Nat
  BY DEF TypeOK, ReplicasArePrefixes
<1>4. \/ UNCHANGED <<applied, acked>>
      \/ /\ a.position = Len(s) + 1
         /\ applied' = [applied EXCEPT ![r] = SubSeq(log, 1, Len(s) + 1)]
         /\ acked' = acked \cup {a.path}
  <2>1. CASE UNCHANGED <<applied, acked>>
    BY <2>1
  <2>2. CASE /\ a.position = Len(s) + 1
             /\ applied' = [applied EXCEPT ![r] = Append(@, a.path)]
             /\ acked' = acked \cup {a.path}
    <3>1. applied' = [applied EXCEPT ![r] = t]
      BY <2>2
    <3>2. t = SubSeq(log, 1, Len(s) + 1)
      <4> HIDE DEF a, s
      <4>1. t \in Seq(RecordPaths) /\ Len(t) = Len(s) + 1
            /\ \A i \in 1..Len(s) + 1 : t[i] = log[i]
        BY <1>1, <1>3, <2>2
      <4>2. Len(s) + 1 \in 1..Len(log)
        BY <1>1, <2>2
      <4>3. /\ SubSeq(log, 1, Len(s) + 1) \in Seq(RecordPaths)
            /\ Len(SubSeq(log, 1, Len(s) + 1)) = Len(s) + 1
            /\ \A i \in 1..Len(s) + 1 : SubSeq(log, 1, Len(s) + 1)[i] = log[i]
        BY <1>3, <4>2
      <4> HIDE DEF t
      <4> QED BY <4>1, <4>3, SeqEqual
    <3> HIDE DEF t
    <3> QED BY <2>2, <3>1, <3>2
  <2> QED BY <2>1, <2>2 DEF FinishCommit
<1>5. /\ applied' \in [Runtimes -> Seq(RecordPaths)]
      /\ \A x \in Runtimes :
           /\ Len(applied'[x]) <= Len(log)
           /\ \A i \in 1..Len(applied'[x]) : applied'[x][i] = log[i]
      /\ acked' \subseteq RecordPaths
      /\ \A p \in acked' : Committed(p)
  <2>1. CASE UNCHANGED <<applied, acked>>
    BY <2>1 DEF TypeOK, ReplicasArePrefixes, AckedAreCommitted
  <2>2. CASE /\ a.position = Len(s) + 1
             /\ applied' = [applied EXCEPT ![r] = SubSeq(log, 1, Len(s) + 1)]
             /\ acked' = acked \cup {a.path}
    <3>1. Len(s) + 1 \in 1..Len(log)
      BY <1>1, <2>2
    <3> DEFINE u == SubSeq(log, 1, Len(s) + 1)
    <3>2. /\ u \in Seq(RecordPaths) /\ Len(u) = Len(s) + 1 /\ Len(u) <= Len(log)
          /\ \A i \in 1..Len(u) : u[i] = log[i]
      BY <1>3, <3>1
    <3>3. applied' = [applied EXCEPT ![r] = u]
      BY <2>2
    <3> HIDE DEF u
    <3>4. applied' \in [Runtimes -> Seq(RecordPaths)]
      BY <3>2, <3>3 DEF TypeOK
    <3>5. \A x \in Runtimes : applied'[x] = u \/ applied'[x] = applied[x]
      BY <3>3 DEF TypeOK
    <3>6. Committed(a.path)
      BY <1>1 DEF Committed
    <3> QED BY <1>1, <2>2, <3>2, <3>4, <3>5, <3>6
         DEF TypeOK, ReplicasArePrefixes, AckedAreCommitted
  <2> QED BY <1>4, <2>1, <2>2
<1>6. TypeOK'
  BY <1>1, <1>2, <1>5 DEF TypeOK, Phases, JournalHead, EmptyHead, store
<1>7. JournalInv'
  <2>1. \A x \in Runtimes : cursor'[x] = cursor[x] \/ PastHead(cursor'[x])
    BY <1>1, <1>2 DEF TypeOK
  <2>2. \A x \in Runtimes :
          \/ phase'[x] = "idle"
          \/ phase'[x] = phase[x] /\ attempt'[x] = attempt[x] /\ txn'[x] = txn[x]
    BY <1>2 DEF TypeOK
  <2> HIDE DEF JournalInv
  <2> QED BY <1>2, <1>5, <1>6, <2>1, <2>2, Remembered, LocalStep
<1>8. Len(s) + 1 \in Len(s)..Len(log) \/ a.position # Len(s) + 1
  BY <1>1, <1>3
<1> QED BY <1>1, <1>3, <1>4, <1>7, <1>8

-----------------------------------------------------------------------------
(* The steps of the store *)

\* An upload puts a fresh object and asks for a head that succeeds the cursor's.
LEMMA StageRecordInv ==
  ASSUME JournalInv, NEW r \in Runtimes, NEW p \in RecordPaths, StageRecord(r, p)
  PROVE  JournalInv'
<1> USE DEF JournalInv
<1> DEFINE e == OwnerEpochFor(r)
           n == cursor[r].position + 1
           rec == [position |-> n, epoch |-> e, parent |-> cursor[r].path,
                   sequence |-> Len(applied[r]) + 1, writer |-> r,
                   kind |-> txn[r].kind, base |-> txn[r].base]
<1> PICK h : h = [position |-> n, epoch |-> e, path |-> p]
  OBVIOUS
<1> PICK q : q = [expected |-> cursor[r], proposed |-> h]
  OBVIOUS
<1>1. /\ phase[r] = "open" /\ txn[r] \in Txn /\ cursor[r] \in JournalHead
      /\ Len(applied[r]) \in Nat
  BY DEF StageRecord, TypeOK, TransactionsHaveRead
<1>2. e \in Nat
  BY <1>1, OwnerEpochIsNat DEF OwnerEpochFor, Txn
<1>3. rec \in Record
  BY <1>1, <1>2 DEF Record, Txn, JournalHead
<1>4. h \in JournalHead /\ q \in [expected : JournalHead, proposed : JournalHead]
  BY <1>1, <1>2 DEF JournalHead
<1>5. /\ records' = [records EXCEPT ![p] = rec]
      /\ requests' = requests \cup {q}
      /\ attempt' = [attempt EXCEPT ![r] = h]
      /\ phase' = [phase EXCEPT ![r] = "waiting"]
      /\ UNCHANGED <<head, log, cursor, applied, walk, txn, acked, crashes>>
      /\ EpochAdmitted(r) /\ records[p] = NoRecord
  BY DEF StageRecord, Unused
<1>6. /\ h.path = p /\ h.position = n /\ h.epoch = e
      /\ q.expected = cursor[r] /\ q.proposed = h
      /\ rec.position = n /\ rec.epoch = e /\ rec.parent = cursor[r].path
      /\ n \in Nat /\ n # 0 /\ e # 0
  BY <1>1, <1>2, <1>5 DEF EpochAdmitted, JournalHead
<1>7. rec # NoRecord
  <2>1. rec.position # NoRecord.position
    BY <1>6 DEF NoRecord
  <2> QED BY <2>1
<1> HIDE DEF e, n, rec
<1>8. TypeOK'
  BY <1>3, <1>4, <1>5 DEF TypeOK, Phases
<1>9. \A x \in RecordPaths : x # p => records'[x] = records[x]
  BY <1>5 DEF TypeOK
<1>10. records'[p] = rec
  BY <1>5 DEF TypeOK
<1>11. \A x : Committed(x) => x # p
  BY <1>5 DEF Committed, ChainIsLog, ValidAt
<1>12. \A i \in 1..Len(log) : log[i] \in RecordPaths /\ log[i] # p
  BY <1>11 DEF Committed, TypeOK
<1>13. \A x : PastHead(x)' = PastHead(x)
  BY <1>5, <1>9, <1>12 DEF PastHead, EmptyHead
<1>14. \A x : Uploaded(x) => x.path # p /\ Uploaded(x)'
  BY <1>5, <1>9 DEF Uploaded, ValidAt
<1>15. \A w : WalkFollowsLog(w)' = WalkFollowsLog(w)
  BY <1>5, <1>13 DEF WalkFollowsLog
<1>16. Uploaded(h)'
  BY <1>6, <1>7, <1>10 DEF Uploaded, ValidAt
<1>17. ChainIsLog'
  BY <1>5, <1>9, <1>12 DEF ChainIsLog, ValidAt
<1>18. GenerationsFollow'
  <2>1. \A i \in 1..Len(log) : records'[log[i]] = records[log[i]]
    BY <1>9, <1>12
  <2>2. \A i \in 1..Len(log) - 1 : i \in 1..Len(log) /\ i + 1 \in 1..Len(log)
    BY DEF TypeOK
  <2> QED BY <1>5, <2>1, <2>2 DEF GenerationsFollow, EpochsMonotone
<1>19. HeadsArePast'
  BY <1>5, <1>13 DEF HeadsArePast
<1>20. \A x : Committed(x)' = Committed(x)
  BY <1>5 DEF Committed
<1>21. RequestsAreProposals'
  <2>1. \A x \in requests :
          /\ x.proposed.path # p
          /\ Uploaded(x.proposed)'
          /\ records'[x.proposed.path] = records[x.proposed.path]
    BY <1>9, <1>14 DEF RequestsAreProposals, Uploaded
  <2>2. q.expected # EmptyHead =>
          q.proposed.epoch \in {q.expected.epoch, q.expected.epoch + 1}
    BY <1>5, <1>6 DEF EpochAdmitted, e
  <2>3. /\ Uploaded(q.proposed)'
        /\ PastHead(q.expected)'
        /\ q.proposed.position = q.expected.position + 1
        /\ records'[q.proposed.path].parent = q.expected.path
        /\ ~Committed(q.proposed.path)'
    <3>1. PastHead(cursor[r])
      BY DEF HeadsArePast
    <3> QED BY <1>6, <1>10, <1>11, <1>13, <1>16, <1>20, <3>1 DEF n
  <2>4. \A q1, q2 \in requests' :
          q1.proposed.path = q2.proposed.path => q1 = q2
    BY <1>5, <1>6, <2>1 DEF RequestsAreProposals
  <2>5. \A x \in requests :
          /\ Uploaded(x.proposed)'
          /\ PastHead(x.expected)'
          /\ x.proposed.position = x.expected.position + 1
          /\ records'[x.proposed.path].parent = x.expected.path
          /\ x.expected # EmptyHead =>
               x.proposed.epoch \in {x.expected.epoch, x.expected.epoch + 1}
          /\ ~Committed(x.proposed.path)'
    BY <1>13, <1>20, <2>1 DEF RequestsAreProposals
  <2>6. \A x \in requests' : x \in requests \/ x = q
    BY <1>5
  <2> QED BY <2>2, <2>3, <2>4, <2>5, <2>6 DEF RequestsAreProposals, EmptyHead
<1>22. AttemptsAreUploaded'
  BY <1>5, <1>14, <1>16 DEF AttemptsAreUploaded, TypeOK
<1>23. TransactionsHaveRead'
  BY <1>5 DEF TransactionsHaveRead, TypeOK
<1>24. WalksFollowLog'
  BY <1>5, <1>15 DEF WalksFollowLog
<1>25. ReplicasArePrefixes' /\ AckedAreCommitted'
  BY <1>5, <1>20 DEF ReplicasArePrefixes, AckedAreCommitted
<1> QED BY <1>8, <1>17, <1>18, <1>19, <1>21, <1>22, <1>23, <1>24, <1>25

\* The store accepts a head only when it succeeds the current one, so the log
\* grows by a record whose parent is the last one; else it forgets the request.
LEMMA StoreDecidesInv ==
  ASSUME JournalInv, NEW q \in requests, StoreDecides(q)
  PROVE  /\ JournalInv'
         /\ \/ log' = log
            \/ /\ log' = Append(log, q.proposed.path)
               /\ q.proposed.path \in RecordPaths
               /\ ~Committed(q.proposed.path)
<1> USE DEF JournalInv
<1> DEFINE h == q.proposed
<1>1. /\ q \in [expected : JournalHead, proposed : JournalHead]
      /\ Uploaded(h) /\ PastHead(q.expected)
      /\ h.position = q.expected.position + 1
      /\ records[h.path].parent = q.expected.path
      /\ q.expected # EmptyHead =>
           h.epoch \in {q.expected.epoch, q.expected.epoch + 1}
      /\ ~Committed(h.path)
  BY DEF RequestsAreProposals, TypeOK
<1>2. /\ requests' = requests \ {q}
      /\ UNCHANGED <<records, cursor, applied, phase, walk, txn, attempt, acked,
                     crashes>>
  BY DEF StoreDecides
<1>3. h \in JournalHead /\ h.path \in RecordPaths /\ log \in Seq(RecordPaths)
      /\ Len(log) \in Nat
  BY <1>1 DEF Uploaded, TypeOK
<1>4. \A x : Uploaded(x)' = Uploaded(x)
  BY <1>2 DEF Uploaded, ValidAt
<1>5. AttemptsAreUploaded' /\ TransactionsHaveRead'
  BY <1>2, <1>4 DEF AttemptsAreUploaded, TransactionsHaveRead
<1>6. CASE UNCHANGED <<head, log>>
  <2>1. TypeOK'
    BY <1>2, <1>6 DEF TypeOK
  <2>2. /\ \A x : PastHead(x)' = PastHead(x)
        /\ \A x : Committed(x)' = Committed(x)
    BY <1>2, <1>6 DEF PastHead, EmptyHead, Committed
  <2>3. WalksFollowLog'
    BY <1>2, <1>6, <2>2 DEF WalksFollowLog, WalkFollowsLog
  <2>4. RequestsAreProposals'
    BY <1>2, <1>4, <2>2 DEF RequestsAreProposals
  <2>5. ChainIsLog' /\ GenerationsFollow'
    BY <1>2, <1>6 DEF ChainIsLog, ValidAt, GenerationsFollow, EpochsMonotone
  <2>6. HeadsArePast' /\ ReplicasArePrefixes' /\ AckedAreCommitted'
    BY <1>2, <1>6, <2>2 DEF HeadsArePast, ReplicasArePrefixes, AckedAreCommitted
  <2> QED BY <1>5, <1>6, <2>1, <2>3, <2>4, <2>5, <2>6
<1>7. CASE /\ head = q.expected
           /\ head' = h
           /\ log' = Append(log, h.path)
  <2> DEFINE N == Len(log)
  <2>1. /\ log' \in Seq(RecordPaths) /\ Len(log') = N + 1
        /\ \A i \in 1..N : log'[i] = log[i]
        /\ log'[N + 1] = h.path
        /\ N \in Nat
    BY <1>3, <1>7
  <2>2. h.position = N + 1 /\ head.position = N
    BY <1>1, <1>7 DEF ChainIsLog
  <2> HIDE DEF N
  <2>3. \A i \in 1..(N + 1) : i \in 1..N \/ i = N + 1
    BY <2>1
  <2>4. N = Len(log)
    BY DEF N
  <2>5. TypeOK'
    BY <1>2, <1>3, <1>7, <2>1 DEF TypeOK
  <2>6. \A x : PastHead(x) => PastHead(x)'
    <3>1. \A i \in 1..N : i \in 1..(N + 1)
      BY <2>1
    <3> QED BY <1>2, <2>1, <2>4, <3>1 DEF PastHead, EmptyHead
  <2>7. PastHead(h)'
    <3>1. N + 1 \in 1..(N + 1)
      BY <2>1
    <3> QED BY <1>1, <1>2, <2>1, <2>2, <3>1 DEF PastHead, Uploaded
  <2>8. HeadsArePast'
    BY <1>2, <1>7, <2>6, <2>7 DEF HeadsArePast
  <2>9. /\ \A x : Committed(x) => Committed(x)'
        /\ \A x : Committed(x)' => Committed(x) \/ x = h.path
    BY <2>1, <2>3, <2>4 DEF Committed
  <2>10. RequestsAreProposals'
    <3>1. \A x \in requests' : x \in requests /\ x.proposed.path # h.path
      BY <1>2 DEF RequestsAreProposals
    <3> QED BY <1>2, <1>4, <2>6, <2>9, <3>1 DEF RequestsAreProposals, EmptyHead
  <2>11. ChainIsLog'
    <3>1. ValidAt(h.path, N + 1)
      BY <1>1, <2>2 DEF Uploaded
    <3>2. records[h.path].parent = IF N + 1 = 1 THEN NoPath ELSE log[N]
      <4>1. head.path = IF N = 0 THEN NoPath ELSE log[N]
        BY <1>3, <2>4 DEF ChainIsLog
      <4>2. N + 1 = 1 <=> N = 0
        BY <2>1
      <4> QED BY <1>1, <1>7, <4>1, <4>2
    <3>3. \A i \in 1..(N + 1) :
            /\ ValidAt(log'[i], i)
            /\ records[log'[i]].parent = IF i = 1 THEN NoPath ELSE log'[i - 1]
      <4> SUFFICES ASSUME NEW i \in 1..(N + 1)
                   PROVE  /\ ValidAt(log'[i], i)
                          /\ records[log'[i]].parent =
                                IF i = 1 THEN NoPath ELSE log'[i - 1]
        OBVIOUS
      <4>1. i # 1 => i - 1 \in 1..N
        BY <2>1
      <4>2. CASE i \in 1..N
        BY <2>1, <2>4, <4>1, <4>2 DEF ChainIsLog
      <4>3. CASE i = N + 1
        <5>1. i # 1 => i - 1 = N /\ N \in 1..N
          BY <2>1, <4>3
        <5> QED BY <2>1, <3>1, <3>2, <4>3, <5>1
      <4> QED BY <2>3, <4>2, <4>3
    <3>4. log' # <<>>
      BY <2>1
    <3> QED BY <1>2, <1>7, <2>1, <2>2, <3>3, <3>4 DEF ChainIsLog, ValidAt
  <2>12. GenerationsFollow'
    <3> SUFFICES ASSUME NEW i \in 1..N
                 PROVE  /\ records[log'[i]].epoch <= records[log'[i + 1]].epoch
                        /\ records[log'[i + 1]].epoch <= records[log'[i]].epoch + 1
      BY <1>2, <2>1 DEF GenerationsFollow, EpochsMonotone
    <3>1. CASE i = N
      <4>1. head # EmptyHead /\ head.path = log[N]
        <5>1. log # <<>>
          BY <2>4, <3>1
        <5>2. log[N] \in RecordPaths
          BY <1>3, <2>4, <3>1
        <5> QED BY <2>4, <5>1, <5>2, PathAssumption DEF ChainIsLog, EmptyHead
      <4>2. head.epoch = records[log[N]].epoch /\ head.epoch \in Nat
        BY <4>1 DEF HeadsArePast, PastHead, TypeOK, JournalHead
      <4>3. records[h.path].epoch \in {head.epoch, head.epoch + 1}
        BY <1>1, <1>7, <4>1 DEF Uploaded
      <4>4. log'[i] = log[N] /\ log'[i + 1] = h.path
        BY <2>1, <3>1
      <4> QED BY <4>2, <4>3, <4>4
    <3>2. CASE i # N
      <4>1. i \in 1..(N - 1) /\ i \in 1..N /\ i + 1 \in 1..N
        BY <2>1, <3>2
      <4> QED BY <2>1, <2>4, <4>1 DEF GenerationsFollow, EpochsMonotone
    <3> QED BY <3>1, <3>2
  <2>13. WalksFollowLog'
    <3> SUFFICES ASSUME NEW r \in Runtimes, walk[r] # NoWalk
                 PROVE  WalkFollowsLog(walk[r])'
      BY <1>2 DEF WalksFollowLog
    <3> DEFINE w == walk[r]
    <3>1. /\ WalkFollowsLog(w) /\ w.expected \in Nat /\ w.head.position \in Nat
          /\ Len(w.tail) \in Nat
      BY SMTT(30) DEF WalksFollowLog, TypeOK, Walk, JournalHead
    <3>2. w.head.position <= N /\ w.expected + Len(w.tail) = w.head.position
      BY <2>1, <2>4, <3>1 DEF WalkFollowsLog, PastHead, EmptyHead
    <3>3. /\ w.expected # 0 => w.expected \in 1..N
          /\ \A i \in 1..Len(w.tail) : w.expected + i \in 1..N
      <4> HIDE DEF w
      <4> QED BY <2>1, <3>1, <3>2
    <3>4. PastHead(w.head)'
      BY <1>2, <2>6, <3>1 DEF WalkFollowsLog
    <3>5. w' = w
      BY <1>2
    <3> HIDE DEF w
    <3>6. WalkFollowsLog(w)'
      BY <2>1, <3>1, <3>3, <3>4, <3>5 DEF WalkFollowsLog
    <3> QED BY <3>6 DEF w
  <2>14. ReplicasArePrefixes'
    <3> SUFFICES ASSUME NEW r \in Runtimes
                 PROVE  /\ Len(applied[r]) <= N + 1
                        /\ \A i \in 1..Len(applied[r]) : applied[r][i] = log'[i]
      BY <1>2, <2>1 DEF ReplicasArePrefixes
    <3>1. Len(applied[r]) \in Nat /\ Len(applied[r]) <= N
      BY <2>4 DEF TypeOK, ReplicasArePrefixes
    <3>2. \A i \in 1..Len(applied[r]) : i \in 1..N
      BY <2>1, <3>1
    <3> QED BY <2>1, <3>1, <3>2 DEF ReplicasArePrefixes
  <2>15. AckedAreCommitted'
    BY <1>2, <2>9 DEF AckedAreCommitted
  <2> QED BY <1>1, <1>3, <1>5, <1>7, <2>5, <2>8, <2>10, <2>11, <2>12, <2>13,
             <2>14, <2>15
<1> QED BY <1>6, <1>7 DEF StoreDecides

-----------------------------------------------------------------------------
(* The invariant *)

\* An empty store, empty local states and no request satisfy the invariant.
LEMMA InitInv ==
  ASSUME Init
  PROVE  JournalInv
<1> USE DEF Init
<1>1. TypeOK
  BY CrashAssumption DEF TypeOK, JournalHead, EmptyHead, Phases
<1>2. ChainIsLog
  BY DEF ChainIsLog, EmptyHead
<1>3. HeadsArePast /\ RequestsAreProposals /\ AttemptsAreUploaded
  BY DEF HeadsArePast, PastHead, RequestsAreProposals, AttemptsAreUploaded
<1>4. TransactionsHaveRead /\ WalksFollowLog
  BY DEF TransactionsHaveRead, WalksFollowLog
<1>5. ReplicasArePrefixes /\ AckedAreCommitted
  BY DEF ReplicasArePrefixes, AckedAreCommitted
<1>6. GenerationsFollow
  BY DEF GenerationsFollow, EpochsMonotone
<1> QED BY <1>1, <1>2, <1>3, <1>4, <1>5, <1>6 DEF JournalInv

\* A step of a runtime keeps the invariant.
LEMMA RuntimeStepInv ==
  ASSUME JournalInv, NEW r \in Runtimes,
         \/ Synchronise(r)
         \/ \E kind \in Operations : ReadState(r, kind)
         \/ Abandon(r)
         \/ \E p \in RecordPaths : StageRecord(r, p)
         \/ Resolve(r)
         \/ Crash(r)
  PROVE  JournalInv'
<1>1. CASE BeginCommit(r) \/ BeginBackgroundSync(r) \/ Open(r)
  <2>1. \E purpose \in Purposes : BeginWalk(r, purpose)
    BY <1>1 DEF BeginCommit, BeginBackgroundSync, Open, Purposes
  <2> QED BY <1>1, <2>1, BeginWalkInv DEF BeginCommit, BeginBackgroundSync, Open
<1>2. CASE WalkStep(r)
  BY <1>2, WalkStepInv
<1>3. CASE FinishWalk(r)
  BY <1>3, FinishWalkInv
<1>4. CASE \/ WalkFails(r) \/ (\E kind \in Operations : ReadState(r, kind))
           \/ Abandon(r) \/ HeadErrored(r) \/ ReadbackFails(r)
  BY <1>4, QuietStepInv
<1>5. CASE \E p \in RecordPaths : StageRecord(r, p)
  BY <1>5, StageRecordInv
<1>6. CASE HeadAccepted(r) \/ ReadbackMatches(r)
  BY <1>6, FinishCommitInv DEF HeadAccepted, ReadbackMatches
<1>7. CASE Crash(r)
  BY <1>7, CrashInv
<1> QED BY <1>1, <1>2, <1>3, <1>4, <1>5, <1>6, <1>7 DEF Synchronise, Resolve

\* The invariant is inductive.
LEMMA StepInv ==
  ASSUME JournalInv, [Next]_vars
  PROVE  JournalInv'
<1>1. CASE \E r \in Runtimes :
             \/ Synchronise(r)
             \/ \E kind \in Operations : ReadState(r, kind)
             \/ Abandon(r)
             \/ \E p \in RecordPaths : StageRecord(r, p)
             \/ Resolve(r)
             \/ Crash(r)
  BY <1>1, RuntimeStepInv
<1>2. CASE \E q \in requests : StoreDecides(q)
  BY <1>2, StoreDecidesInv
<1>3. CASE UNCHANGED vars
  <2>1. UNCHANGED store /\ TypeOK'
    BY <1>3 DEF vars, store, JournalInv, TypeOK
  <2> QED BY <1>3, <2>1, Remembered, LocalStep DEF vars
<1> QED BY <1>1, <1>2, <1>3 DEF Next

\* Every state of a lane satisfies the invariant, for any number of runtimes and
\* records, any crashes, and whether or not local writes can fail.
THEOREM Invariant == Spec => []JournalInv
<1>1. Init => JournalInv
  BY InitInv
<1>2. JournalInv /\ [Next]_vars => JournalInv'
  BY StepInv
<1> QED BY <1>1, <1>2, PTL DEF Spec

\* Every variable keeps its type.
THEOREM TypeCorrect == Spec => []TypeOK
<1>1. JournalInv => TypeOK
  BY DEF JournalInv
<1> QED BY <1>1, Invariant, PTL

\* The parent chain recover() walks is the log: no uncertain, late or failed
\* append ever breaks it or drops a record the head has named.
THEOREM ChainCorrect == Spec => []ChainIsLog
<1>1. JournalInv => ChainIsLog
  BY DEF JournalInv
<1> QED BY <1>1, Invariant, PTL

\* An append that returned Ok is in the log, whichever way its outcome was known.
THEOREM AcknowledgedStay == Spec => []AckedAreCommitted
<1>1. JournalInv => AckedAreCommitted
  BY DEF JournalInv
<1> QED BY <1>1, Invariant, PTL

\* Local states are prefixes of the log, also after crashes and failed writes.
THEOREM ReplicasCorrect == Spec => []ReplicasArePrefixes
<1>1. JournalInv => ReplicasArePrefixes
  BY DEF JournalInv
<1> QED BY <1>1, Invariant, PTL

\* Owner generations along the log never go back and never skip one.
THEOREM GenerationsCorrect == Spec => []GenerationsFollow
<1>1. JournalInv => GenerationsFollow
  BY DEF JournalInv
<1> QED BY <1>1, Invariant, PTL

-----------------------------------------------------------------------------
(* The journal implements the shared log *)

\* A step of the journal is a step of the shared log or changes nothing of it:
\* a finished synchronisation learns, a finished append acknowledges, an accepted
\* head write commits, a crash forgets.
LEMMA StepImplements ==
  ASSUME JournalInv, [Next]_vars
  PROVE  [Shared!Next]_(Shared!vars)
<1> USE DEF Shared!vars
<1>1. ASSUME NEW r \in Runtimes, FinishWalk(r)
      PROVE  Shared!Learn(r)
  <2>1. UNCHANGED <<log, acked>>
    BY <1>1 DEF FinishWalk, store
  <2> QED BY <1>1, <2>1, FinishWalkInv DEF Shared!Learn, Shared!Prefix
<1>2. ASSUME NEW r \in Runtimes, HeadAccepted(r) \/ ReadbackMatches(r)
      PROVE  \/ UNCHANGED Shared!vars
             \/ \E p \in RecordPaths : Shared!Acknowledge(r, p)
  <2>1. /\ FinishCommit(r) /\ phase[r] \in {"waiting", "readback"}
        /\ Committed(attempt[r].path) \/ head = attempt[r]
    BY <1>2 DEF HeadAccepted, ReadbackMatches
  <2>2. log' = log
    BY <2>1 DEF FinishCommit, store
  <2>3. /\ attempt[r].path \in RecordPaths
        /\ Shared!Committed(attempt[r].path)
    BY <2>1, AttemptIsPast DEF Shared!Committed
  <2>4. \/ UNCHANGED <<applied, acked>>
        \/ \E n \in Len(applied[r])..Len(log) :
             /\ n > 0
             /\ applied' = [applied EXCEPT ![r] = SubSeq(log, 1, n)]
             /\ log[n] = attempt[r].path
             /\ acked' = acked \cup {attempt[r].path}
    BY <2>1, FinishCommitInv
  <2> QED BY <2>2, <2>3, <2>4 DEF Shared!Acknowledge, Shared!Prefix
<1>3. ASSUME NEW r \in Runtimes, Crash(r)
      PROVE  Shared!Forget(r)
  BY <1>3 DEF Crash, store, Shared!Forget, Shared!Prefix
<1>4. ASSUME NEW q \in requests, StoreDecides(q)
      PROVE  UNCHANGED Shared!vars \/ \E p \in RecordPaths : Shared!Commit(p)
  <2>1. UNCHANGED <<applied, acked>>
    BY <1>4 DEF StoreDecides
  <2> QED BY <1>4, <2>1, StoreDecidesInv
       DEF Shared!Commit, Shared!Committed, Committed
<1>5. ASSUME NEW r \in Runtimes,
             \/ BeginCommit(r) \/ BeginBackgroundSync(r) \/ Open(r)
             \/ WalkStep(r) \/ WalkFails(r)
             \/ \E kind \in Operations : ReadState(r, kind)
             \/ Abandon(r)
             \/ \E p \in RecordPaths : StageRecord(r, p)
             \/ HeadErrored(r) \/ ReadbackFails(r)
      PROVE  UNCHANGED Shared!vars
  BY <1>5 DEF BeginCommit, BeginBackgroundSync, Open, WalkStep, WalkFails, ReadState,
              Abandon, StageRecord, HeadErrored, ReadbackFails, store
<1>6. CASE UNCHANGED vars
  BY <1>6 DEF vars
<1>7. CASE Next
  BY <1>1, <1>2, <1>3, <1>4, <1>5, <1>7
     DEF Next, Synchronise, Resolve, Shared!Next
<1> QED BY <1>6, <1>7

\* The journal keeps the promise of SharedLog: its heads, records, requests and
\* walks are one growing log with prefix replicas and true acknowledgements.
THEOREM Implementation == Spec => ImplementsSharedLog
<1>1. Init => Shared!Init
  BY DEF Init, Shared!Init
<1>2. JournalInv /\ [Next]_vars => [Shared!Next]_(Shared!vars)
  BY StepImplements
<1> QED BY <1>1, <1>2, Invariant, PTL DEF Spec, ImplementsSharedLog, Shared!Spec

-----------------------------------------------------------------------------
(* A runtime's steps *)

\* A step of runtime r, as Next has it.
RuntimeStep(r) ==
  \/ Synchronise(r)
  \/ \E kind \in Operations : ReadState(r, kind)
  \/ Abandon(r)
  \/ \E p \in RecordPaths : StageRecord(r, p)
  \/ Resolve(r)
  \/ Crash(r)

\* What runtime s remembers.
Local(s) == <<cursor[s], applied[s], phase[s], walk[s], txn[s], attempt[s]>>

\* A runtime's step leaves what the others remember alone.
LEMMA OthersKeep ==
  ASSUME TypeOK, NEW r \in Runtimes, RuntimeStep(r),
         NEW s \in Runtimes, s # r
  PROVE  UNCHANGED Local(s)
<1> USE DEF Local, TypeOK
<1>1. CASE BeginCommit(r) \/ BeginBackgroundSync(r) \/ Open(r)
  BY <1>1 DEF BeginCommit, BeginBackgroundSync, Open, BeginWalk
<1>2. CASE WalkStep(r) \/ WalkFails(r)
  BY <1>2 DEF WalkStep, WalkFails
<1>3. CASE FinishWalk(r)
  BY <1>3 DEF FinishWalk
<1>4. CASE \E kind \in Operations : ReadState(r, kind)
  BY <1>4 DEF ReadState
<1>5. CASE Abandon(r)
  BY <1>5 DEF Abandon
<1>6. CASE \E p \in RecordPaths : StageRecord(r, p)
  BY <1>6 DEF StageRecord
<1>7. CASE FinishCommit(r)
  BY <1>7 DEF FinishCommit, EndAttempt
<1>8. CASE HeadErrored(r) \/ ReadbackFails(r)
  BY <1>8 DEF HeadErrored, ReadbackFails, EndAttempt
<1>9. CASE Crash(r)
  BY <1>9 DEF Crash, EndAttempt
<1> QED BY <1>1, <1>2, <1>3, <1>4, <1>5, <1>6, <1>7, <1>8, <1>9
        DEF RuntimeStep, Synchronise, Resolve, HeadAccepted, ReadbackMatches

\* What is said of a runtime's cursor is kept when it remembers the same.
LEMMA SameCursor ==
  ASSUME NEW s \in Runtimes, CursorAgrees(s), UNCHANGED Local(s)
  PROVE  CursorAgrees(s)'
BY DEF CursorAgrees, Local

-----------------------------------------------------------------------------
(* Sequences are positions *)

\* A synchronisation starts at or above the applied position.
LEMMA BeginWalkAgrees ==
  ASSUME JournalInv, NEW r \in Runtimes, CursorAgrees(r),
         BeginCommit(r) \/ BeginBackgroundSync(r) \/ Open(r)
  PROVE  CursorAgrees(r)'
<1>1. Len(applied[r]) <= head.position
  BY DEF JournalInv, ReplicasArePrefixes, ChainIsLog
<1>2. /\ walk'[r] # NoWalk => walk'[r].expected = head.position
      /\ UNCHANGED <<cursor, applied>>
  BY DEF BeginCommit, BeginBackgroundSync, Open, BeginWalk, NoWalk,
         JournalInv, TypeOK
<1>3. /\ phase'[r] \notin {"waiting", "readback"}
      /\ phase'[r] # "down" => phase[r] # "down"
      /\ walk'[r].purpose # "open" => phase'[r] # "down"
  <2>1. CASE BeginCommit(r)
    BY <2>1 DEF BeginCommit, JournalInv, TypeOK
  <2>2. CASE BeginBackgroundSync(r)
    BY <2>2 DEF BeginBackgroundSync
  <2>3. CASE Open(r)
    BY <2>3 DEF Open, BeginWalk, JournalInv, TypeOK
  <2> QED BY <2>1, <2>2, <2>3
<1> QED BY <1>1, <1>2, <1>3 DEF CursorAgrees

\* A step of the walk stays at or above the applied position.
LEMMA WalkStepAgrees ==
  ASSUME JournalInv, NEW r \in Runtimes, CursorAgrees(r), WalkStep(r)
  PROVE  CursorAgrees(r)'
<1>1. /\ walk[r] # NoWalk /\ walk[r].expected > Len(applied[r])
      /\ walk[r] \in Walk /\ Len(applied[r]) \in Nat
  BY DEF WalkStep, WalkDone, JournalInv, TypeOK, Walk
<1>2. PICK expected : expected = walk[r].expected - 1
  OBVIOUS
<1>3. Len(applied[r]) <= expected
  BY <1>1, <1>2 DEF Walk
<1>4. /\ walk'[r].expected = expected /\ walk'[r].purpose = walk[r].purpose
      /\ UNCHANGED <<cursor, applied, phase, attempt>>
  BY <1>2 DEF WalkStep, JournalInv, TypeOK
<1> QED BY <1>1, <1>3, <1>4 DEF CursorAgrees

\* A failed walk leaves cursor and local state as they agreed.
LEMMA WalkFailsAgrees ==
  ASSUME JournalInv, NEW r \in Runtimes, CursorAgrees(r), WalkFails(r)
  PROVE  CursorAgrees(r)'
<1>1. /\ walk[r] # NoWalk /\ walk'[r] = NoWalk
      /\ phase'[r] = AfterWalk(r, FALSE)
      /\ UNCHANGED <<cursor, applied, attempt>>
  BY DEF WalkFails, JournalInv, TypeOK
<1>2. \/ walk[r].purpose = "open" /\ phase'[r] = "down"
      \/ walk[r].purpose # "open" /\ phase'[r] \in {"idle", phase[r]}
  BY <1>1 DEF AfterWalk
<1> QED BY <1>1, <1>2 DEF CursorAgrees

\* A finished walk applies its whole tail: every record of it carries its
\* position, and no local write fails.
LEMMA FinishWalkAgrees ==
  ASSUME ~ApplyFails, JournalInv, SequencesAgree, NEW r \in Runtimes,
         FinishWalk(r)
  PROVE  CursorAgrees(r)'
<1> USE DEF JournalInv
<1> DEFINE tail == walk[r].tail
<1>1. /\ walk[r] # NoWalk /\ walk[r] \in Walk /\ WalkFollowsLog(walk[r])
      /\ tail \in Seq(RecordPaths) /\ Len(tail) \in Nat
      /\ walk[r].expected \in Nat /\ walk[r].head.position \in Nat
      /\ applied[r] \in Seq(RecordPaths) /\ Len(applied[r]) \in Nat
  <2>1. walk[r] # NoWalk /\ walk[r] \in Walk
    BY DEF FinishWalk, TypeOK
  <2>2. /\ walk[r].expected \in Nat /\ walk[r].tail \in Seq(RecordPaths)
        /\ walk[r].head \in JournalHead
    BY <2>1 DEF Walk
  <2>3. walk[r].head.position \in Nat
    BY <2>2 DEF JournalHead
  <2>4. applied[r] \in Seq(RecordPaths)
    BY DEF TypeOK
  <2> QED BY <2>1, <2>2, <2>3, <2>4 DEF WalksFollowLog
<1>2. walk[r].expected = Len(applied[r])
  BY <1>1 DEF FinishWalk, WalkDone, SequencesAgree, CursorAgrees
<1>3. \A i \in 1..Len(tail) : Applicable(r, tail, i)
  <2> SUFFICES ASSUME NEW i \in 1..Len(tail)
               PROVE  Applicable(r, tail, i)
    OBVIOUS
  <2>1. /\ tail[i] = log[walk[r].expected + i]
        /\ walk[r].expected + Len(tail) = walk[r].head.position
        /\ PastHead(walk[r].head)
    BY <1>1 DEF WalkFollowsLog
  <2>2. walk[r].expected + i \in 1..Len(log)
    <3>1. walk[r].head.position <= Len(log) /\ Len(log) \in Nat
      BY <2>1, <1>1 DEF PastHead, EmptyHead, TypeOK
    <3> HIDE DEF tail
    <3> QED BY <1>1, <2>1, <3>1
  <2>3. ValidAt(tail[i], walk[r].expected + i)
    BY <2>1, <2>2 DEF ChainIsLog
  <2>4. tail[i] \in RecordPaths
    BY <1>1, ElementOfSeq
  <2> QED BY <1>2, <2>3, <2>4 DEF Applicable, SequencesAgree, ValidAt
<1>4. PICK n \in 0..Len(tail) :
        /\ n < Len(tail) => ApplyFails \/ ~Applicable(r, tail, n + 1)
        /\ applied' = [applied EXCEPT ![r] = @ \o SubSeq(tail, 1, n)]
        /\ phase' = [phase EXCEPT ![r] = AfterWalk(r, n = Len(tail))]
  BY DEF FinishWalk
<1>5. n = Len(tail)
  <2> HIDE DEF tail
  <2>1. n < Len(tail) => n + 1 \in 1..Len(tail)
    BY <1>1, <1>4
  <2> QED BY <1>1, <1>3, <1>4, <2>1
<1>6. Len(applied'[r]) = walk[r].head.position
  <2>1. applied'[r] = applied[r] \o SubSeq(tail, 1, n)
    BY <1>4 DEF TypeOK
  <2>2. SubSeq(tail, 1, n) = tail
    BY <1>1, <1>5
  <2>3. Len(applied[r] \o tail) = Len(applied[r]) + Len(tail)
    BY <1>1, ConcatProperties
  <2> QED BY <1>1, <1>2, <2>1, <2>2, <2>3 DEF WalkFollowsLog
<1>7. /\ cursor'[r] = walk[r].head /\ walk'[r] = NoWalk
      /\ phase'[r] = AfterWalk(r, TRUE)
  BY <1>4, <1>5 DEF FinishWalk, TypeOK
<1>8. phase'[r] \notin {"waiting", "readback"}
  BY <1>1, <1>7 DEF AfterWalk, SequencesAgree, CursorAgrees
<1> QED BY <1>6, <1>7, <1>8 DEF CursorAgrees

\* The steps of a transaction keep the agreement.
LEMMA TransactionAgrees ==
  ASSUME ~ApplyFails, JournalInv, NEW r \in Runtimes, CursorAgrees(r),
         \/ \E kind \in Operations : ReadState(r, kind)
         \/ Abandon(r)
         \/ \E p \in RecordPaths : StageRecord(r, p)
         \/ Resolve(r)
         \/ Crash(r)
  PROVE  CursorAgrees(r)'
<1> USE DEF JournalInv, TypeOK
<1>1. CASE (\E kind \in Operations : ReadState(r, kind)) \/ Abandon(r)
  <2>1. /\ walk[r] = NoWalk /\ phase[r] # "down"
        /\ phase'[r] \in {"open", "idle"}
        /\ UNCHANGED <<cursor, applied, walk>>
    BY <1>1 DEF ReadState, Abandon
  <2> QED BY <2>1 DEF CursorAgrees
<1>2. ASSUME NEW p \in RecordPaths, StageRecord(r, p)
      PROVE  CursorAgrees(r)'
  <2>1. /\ walk[r] = NoWalk /\ phase[r] = "open" /\ phase'[r] = "waiting"
        /\ attempt'[r].position = cursor[r].position + 1
        /\ UNCHANGED <<cursor, applied, walk>>
    BY <1>2 DEF StageRecord
  <2> QED BY <2>1 DEF CursorAgrees
<1>3. CASE HeadAccepted(r) \/ ReadbackMatches(r)
  <2>1. phase[r] \in {"waiting", "readback"} /\ FinishCommit(r)
    BY <1>3 DEF HeadAccepted, ReadbackMatches
  <2>2. attempt[r].position = Len(applied[r]) + 1 /\ walk[r] = NoWalk
    BY <2>1 DEF CursorAgrees
  <2>3. /\ applied'[r] = Append(applied[r], attempt[r].path)
        /\ cursor'[r] = attempt[r]
        /\ phase'[r] = "idle"
        /\ walk'[r] = NoWalk
    BY <2>1, <2>2 DEF FinishCommit
  <2>4. Len(applied'[r]) = Len(applied[r]) + 1
    BY <2>3
  <2> QED BY <2>2, <2>3, <2>4 DEF CursorAgrees
<1>4. CASE HeadErrored(r) \/ ReadbackFails(r)
  <2>1. /\ phase[r] \in {"waiting", "readback"}
        /\ \/ phase'[r] = "idle"
           \/ phase'[r] = "readback" /\ attempt'[r] = attempt[r]
        /\ UNCHANGED <<cursor, applied, walk>>
    BY <1>4 DEF HeadErrored, ReadbackFails
  <2> QED BY <2>1 DEF CursorAgrees
<1>5. CASE Crash(r)
  <2>1. phase'[r] = "down" /\ walk'[r] = NoWalk
    BY <1>5 DEF Crash
  <2> QED BY <2>1 DEF CursorAgrees
<1> QED BY <1>1, <1>2, <1>3, <1>4, <1>5 DEF Resolve

\* Only an append uploads, and its record carries the position it proposes.
LEMMA RecordsAgree ==
  ASSUME JournalInv, SequencesAgree, [Next]_vars
  PROVE  \A p \in RecordPaths :
           records'[p] # NoRecord => records'[p].sequence = records'[p].position
<1> USE DEF JournalInv, TypeOK
<1>1. CASE records' = records
  BY <1>1 DEF SequencesAgree
<1>2. ASSUME NEW r \in Runtimes, NEW p \in RecordPaths, StageRecord(r, p)
      PROVE  \A o \in RecordPaths :
               records'[o] # NoRecord => records'[o].sequence = records'[o].position
  <2>1. /\ records'[p].sequence = Len(applied[r]) + 1
        /\ records'[p].position = cursor[r].position + 1
        /\ \A o \in RecordPaths : o # p => records'[o] = records[o]
    BY <1>2 DEF StageRecord
  <2>2. cursor[r].position = Len(applied[r])
    BY <1>2 DEF StageRecord, SequencesAgree, CursorAgrees
  <2> QED BY <2>1, <2>2 DEF SequencesAgree
<1>3. ASSUME NEW r \in Runtimes, RuntimeStep(r),
             ~ \E p \in RecordPaths : StageRecord(r, p)
      PROVE  records' = records
  BY <1>3 DEF RuntimeStep, Synchronise, BeginCommit, BeginBackgroundSync, Open,
              WalkStep, WalkFails, FinishWalk, ReadState, Abandon, Resolve,
              HeadAccepted, ReadbackMatches, FinishCommit, HeadErrored,
              ReadbackFails, Crash, store
<1>4. ASSUME NEW q \in requests, StoreDecides(q)
      PROVE  records' = records
  BY <1>4 DEF StoreDecides
<1>5. CASE UNCHANGED vars
  BY <1>1, <1>5 DEF vars
<1> QED BY <1>1, <1>2, <1>3, <1>4, <1>5 DEF Next, RuntimeStep

\* Every step keeps cursors, local states and sequences in agreement.
LEMMA SequencesStep ==
  ASSUME ~ApplyFails, JournalInv, SequencesAgree, [Next]_vars
  PROVE  SequencesAgree'
<1>1. \A s \in Runtimes : CursorAgrees(s)
  BY DEF SequencesAgree
<1>2. ASSUME NEW r \in Runtimes, RuntimeStep(r)
      PROVE  \A s \in Runtimes : CursorAgrees(s)'
  <2>1. \A s \in Runtimes : s # r => CursorAgrees(s)'
    BY <1>1, <1>2, OthersKeep, SameCursor DEF JournalInv
  <2>2. CursorAgrees(r)'
    BY <1>1, <1>2, BeginWalkAgrees, WalkStepAgrees, WalkFailsAgrees,
       FinishWalkAgrees, TransactionAgrees DEF RuntimeStep, Synchronise
  <2> QED BY <2>1, <2>2
<1>3. ASSUME \A s \in Runtimes : UNCHANGED Local(s)
      PROVE  \A s \in Runtimes : CursorAgrees(s)'
  BY <1>1, <1>3, SameCursor
<1>4. ASSUME \E q \in requests : StoreDecides(q)
      PROVE  \A s \in Runtimes : CursorAgrees(s)'
  <2>1. UNCHANGED <<cursor, applied, phase, walk, txn, attempt>>
    BY <1>4 DEF StoreDecides
  <2> QED BY <1>3, <2>1 DEF Local
<1>5. ASSUME UNCHANGED vars
      PROVE  \A s \in Runtimes : CursorAgrees(s)'
  <2>1. UNCHANGED <<cursor, applied, phase, walk, txn, attempt>>
    BY <1>5 DEF vars
  <2> QED BY <1>3, <2>1 DEF Local
<1>6. ASSUME \E r \in Runtimes : RuntimeStep(r)
      PROVE  \A s \in Runtimes : CursorAgrees(s)'
  BY <1>2, <1>6
<1>7. \A s \in Runtimes : CursorAgrees(s)'
  BY <1>4, <1>5, <1>6 DEF Next, RuntimeStep
<1>8. \A p \in RecordPaths :
        records'[p] # NoRecord => records'[p].sequence = records'[p].position
  BY RecordsAgree
<1> QED BY <1>7, <1>8 DEF SequencesAgree

\* If local writes do not fail, cursors, local states and records agree.
THEOREM Agreement ==
  ASSUME ~ApplyFails
  PROVE  Spec => []SequencesAgree
<1>1. Init => SequencesAgree
  BY DEF Init, SequencesAgree, CursorAgrees, EmptyHead, NoRecord
<1>2. JournalInv /\ SequencesAgree /\ [Next]_vars => SequencesAgree'
  BY SequencesStep
<1> QED BY <1>1, <1>2, Invariant, PTL DEF Spec

\* If local writes do not fail, the sequence of every record of the lane is its
\* position: no start and no synchronisation refuses it.
THEOREM SequencesCorrect ==
  ASSUME ~ApplyFails
  PROVE  Spec => []SequenceIsPosition
<1>1. ASSUME JournalInv, SequencesAgree
      PROVE  SequenceIsPosition
  <2> SUFFICES ASSUME NEW i \in 1..Len(log)
               PROVE  records[log[i]].sequence = i
    BY DEF SequenceIsPosition
  <2>1. log[i] \in RecordPaths
    BY <1>1, ElementOfSeq DEF JournalInv, TypeOK
  <2>2. records[log[i]] # NoRecord /\ records[log[i]].position = i
    BY <1>1 DEF JournalInv, ChainIsLog, ValidAt
  <2> QED BY <1>1, <2>1, <2>2 DEF SequencesAgree
<1> QED BY <1>1, Invariant, Agreement, PTL

-----------------------------------------------------------------------------
(* Fencing *)

\* The last of two equal sets of positions.
LEMMA LastOfEqual ==
  ASSUME NEW S, NEW T, S = T
  PROVE  (CHOOSE i \in S : \A j \in S : j <= i) = (CHOOSE i \in T : \A j \in T : j <= i)
OBVIOUS

\* A step only adds to the log, and leaves the records it names alone.
LEMMA LogGrows ==
  ASSUME JournalInv, [Next]_vars
  PROVE  /\ JournalInv'
         /\ Len(log) \in Nat /\ Len(log') \in Nat /\ Len(log) <= Len(log')
         /\ \A i \in 1..Len(log) :
              log'[i] = log[i] /\ records'[log[i]] = records[log[i]]
<1>1. JournalInv'
  BY StepInv
<1>2. Len(log) \in Nat /\ Len(log') \in Nat
  BY <1>1 DEF JournalInv, TypeOK
<1>3. ASSUME NEW r \in Runtimes, NEW p \in RecordPaths, StageRecord(r, p)
      PROVE  /\ log' = log
             /\ \A i \in 1..Len(log) : records'[log[i]] = records[log[i]]
  <2>1. log' = log /\ records[p] = NoRecord
        /\ \A o \in RecordPaths : o # p => records'[o] = records[o]
    BY <1>3 DEF StageRecord, Unused, JournalInv, TypeOK
  <2>2. \A i \in 1..Len(log) : log[i] \in RecordPaths
    BY ElementOfSeq DEF JournalInv, TypeOK
  <2>3. \A i \in 1..Len(log) : records[log[i]] # NoRecord
    BY DEF JournalInv, ChainIsLog, ValidAt
  <2> QED BY <2>1, <2>2, <2>3
<1>4. ASSUME NEW r \in Runtimes, RuntimeStep(r),
             ~ \E p \in RecordPaths : StageRecord(r, p)
      PROVE  records' = records /\ log' = log
  BY <1>4 DEF RuntimeStep, Synchronise, BeginCommit, BeginBackgroundSync, Open,
              WalkStep, WalkFails, FinishWalk, ReadState, Abandon, Resolve,
              HeadAccepted, ReadbackMatches, FinishCommit, HeadErrored,
              ReadbackFails, Crash, store
<1>5. ASSUME NEW q \in requests, StoreDecides(q)
      PROVE  /\ records' = records /\ Len(log) <= Len(log')
             /\ \A i \in 1..Len(log) : log'[i] = log[i]
  <2>1. records' = records
    BY <1>5 DEF StoreDecides
  <2>2. \/ log' = log
        \/ /\ log' = Append(log, q.proposed.path)
           /\ q.proposed.path \in RecordPaths
    BY <1>5, StoreDecidesInv
  <2>3. log \in Seq(RecordPaths)
    BY DEF JournalInv, TypeOK
  <2> QED BY <1>2, <2>1, <2>2, <2>3
<1>6. CASE UNCHANGED vars
  BY <1>1, <1>2, <1>6 DEF vars
<1> QED BY <1>1, <1>2, <1>3, <1>4, <1>5, <1>6 DEF Next, RuntimeStep

\* Who owned the lane after its first n records, and under which generation,
\* does not change any more.
LEMMA OwnerKept ==
  ASSUME JournalInv, [Next]_vars, NEW n \in 0..Len(log)
  PROVE  /\ OwnerEpoch(SubSeq(log, 1, n))' = OwnerEpoch(SubSeq(log, 1, n))
         /\ \A r, kind : MayCommit(r, kind, SubSeq(log, 1, n))'
                          = MayCommit(r, kind, SubSeq(log, 1, n))
<1> DEFINE s == SubSeq(log, 1, n)
<1>1. /\ JournalInv' /\ Len(log) \in Nat /\ Len(log') \in Nat
      /\ n \in 0..Len(log) /\ n \in 0..Len(log') /\ n \in Nat
      /\ log \in Seq(RecordPaths) /\ log' \in Seq(RecordPaths)
  BY LogGrows DEF JournalInv, TypeOK
<1>2. Len(s) = n /\ Len(s') = n
  BY <1>1
<1>3. \A i \in 1..n : s[i] = log[i] /\ s'[i] = log'[i]
  BY <1>1
<1>4. \A i \in 1..n :
        s'[i] = s[i] /\ records'[s'[i]] = records[s[i]]
  BY <1>1, <1>3, LogGrows
<1> HIDE DEF s
<1>5. OwnerPuts(s)' = OwnerPuts(s)
  BY <1>2, <1>4 DEF OwnerPuts
<1>6. LastOwnerPut(s)' = LastOwnerPut(s)
  BY <1>5, LastOfEqual DEF LastOwnerPut
<1>7. OwnerPuts(s) # {} => LastOwnerPut(s) \in 1..n
  <2> SUFFICES ASSUME OwnerPuts(s) # {}
               PROVE  LastOwnerPut(s) \in 1..n
    OBVIOUS
  <2>1. OwnerPuts(s) \subseteq 1..n
    BY <1>2 DEF OwnerPuts
  <2>2. \E i \in OwnerPuts(s) : \A j \in OwnerPuts(s) : j <= i
    BY <1>1, <2>1, MaxExists
  <2> QED BY <2>1, <2>2 DEF LastOwnerPut
<1>8. OwnerEpoch(s)' = OwnerEpoch(s)
  BY <1>4, <1>5, <1>6, <1>7 DEF OwnerEpoch
<1>9. \A r, kind : MayCommit(r, kind, s)' = MayCommit(r, kind, s)
  <2>1. ASSUME NEW r, NEW kinds
        PROVE  PutLast(r, s, kinds)' = PutLast(r, s, kinds)
    BY <1>4, <1>5, <1>6, <1>7 DEF PutLast
  <2>2. \A r : Serves(r, s)' = Serves(r, s)
    BY <2>1 DEF Serves
  <2>3. \A r : Drains(r, s)' = Drains(r, s)
    BY <2>1 DEF Drains
  <2> QED BY <2>2, <2>3 DEF MayCommit
<1> QED BY <1>8, <1>9 DEF s

\* The local state of a runtime is the lane's first records.
LEMMA AppliedIsPrefix ==
  ASSUME JournalInv, NEW r \in Runtimes
  PROVE  /\ applied[r] = SubSeq(log, 1, Len(applied[r]))
         /\ Len(applied[r]) \in 0..Len(log)
<1>1. /\ applied[r] \in Seq(RecordPaths) /\ log \in Seq(RecordPaths)
      /\ Len(applied[r]) \in Nat /\ Len(log) \in Nat
      /\ Len(applied[r]) <= Len(log)
      /\ \A i \in 1..Len(applied[r]) : applied[r][i] = log[i]
  BY Remembered DEF JournalInv, TypeOK
<1>2. /\ SubSeq(log, 1, Len(applied[r])) \in Seq(RecordPaths)
      /\ Len(SubSeq(log, 1, Len(applied[r]))) = Len(applied[r])
      /\ \A i \in 1..Len(applied[r]) :
           SubSeq(log, 1, Len(applied[r]))[i] = applied[r][i]
  BY <1>1, SubSeqProperties
<1> QED BY <1>1, <1>2, SeqEqual

\* While a transaction is open its runtime's local state only grows.
LEMMA OpenTransactionKeeps ==
  ASSUME JournalInv, [Next]_vars, NEW r \in Runtimes, phase'[r] = "open"
  PROVE  \/ \E kind \in Operations : ReadState(r, kind)
         \/ /\ phase[r] = "open" /\ txn'[r] = txn[r]
            /\ Len(applied[r]) <= Len(applied'[r])
<1> USE DEF JournalInv, TypeOK
<1>1. Len(applied[r]) \in Nat
  BY DEF TypeOK
<1>2. ASSUME UNCHANGED Local(r)
      PROVE  /\ phase[r] = "open" /\ txn'[r] = txn[r]
             /\ Len(applied[r]) <= Len(applied'[r])
  BY <1>1, <1>2 DEF Local
<1>3. ASSUME NEW s \in Runtimes, RuntimeStep(s), s # r
      PROVE  UNCHANGED Local(r)
  BY <1>3, OthersKeep
<1>4. CASE RuntimeStep(r)
  <2>1. CASE BeginBackgroundSync(r) \/ WalkStep(r)
    BY <1>1, <2>1 DEF BeginBackgroundSync, WalkStep
  <2>2. CASE BeginCommit(r) \/ Abandon(r) \/ Crash(r) \/ HeadErrored(r)
             \/ ReadbackFails(r) \/ (\E p \in RecordPaths : StageRecord(r, p))
    BY <2>2 DEF BeginCommit, Abandon, Crash, HeadErrored, ReadbackFails,
                StageRecord
  <2>3. CASE Open(r)
    BY <2>3 DEF Open
  <2>4. CASE HeadAccepted(r) \/ ReadbackMatches(r)
    BY <2>4 DEF HeadAccepted, ReadbackMatches, FinishCommit
  <2>5. CASE WalkFails(r)
    <3>1. phase'[r] = AfterWalk(r, FALSE) /\ UNCHANGED <<applied, txn>>
      BY <2>5 DEF WalkFails
    <3>2. phase[r] = "open"
      BY <3>1 DEF AfterWalk
    <3> QED BY <1>1, <3>1, <3>2
  <2>6. CASE FinishWalk(r)
    <3>1. PICK n \in Len(applied[r])..Len(log) :
            applied' = [applied EXCEPT ![r] = SubSeq(log, 1, n)]
      BY <2>6, FinishWalkInv
    <3>2. Len(applied'[r]) = n
      BY <1>1, <3>1
    <3>3. PICK ok \in BOOLEAN : phase'[r] = AfterWalk(r, ok)
      BY <2>6 DEF FinishWalk
    <3>4. phase[r] = "open" /\ UNCHANGED txn
      BY <2>6, <3>3 DEF AfterWalk, FinishWalk
    <3> QED BY <1>1, <3>1, <3>2, <3>4
  <2> QED BY <1>4, <2>1, <2>2, <2>3, <2>4, <2>5, <2>6
          DEF RuntimeStep, Synchronise, Resolve
<1>5. CASE UNCHANGED <<cursor, applied, phase, walk, txn, attempt>>
  BY <1>2, <1>5 DEF Local
<1> QED BY <1>2, <1>3, <1>4, <1>5 DEF Next, RuntimeStep, StoreDecides, vars

\* What an open transaction has read stays what a prefix of the lane shows.
LEMMA ReadsStep ==
  ASSUME JournalInv, ReadsAreOfPrefixes, [Next]_vars
  PROVE  ReadsAreOfPrefixes'
<1> SUFFICES ASSUME NEW r \in Runtimes, phase'[r] = "open"
             PROVE  /\ txn'[r].base <= Len(applied'[r])
                    /\ txn'[r].epoch = OwnerEpoch(SubSeq(log, 1, txn[r].base))'
                    /\ MayCommit(r, txn[r].kind, SubSeq(log, 1, txn[r].base))'
  BY DEF ReadsAreOfPrefixes
<1>1. Len(applied[r]) \in 0..Len(log) /\ Len(log) \in Nat
  BY AppliedIsPrefix, LogGrows
<1>2. ASSUME NEW kind \in Operations, ReadState(r, kind)
      PROVE  /\ txn'[r].base = Len(applied[r]) /\ applied' = applied
             /\ log' = log /\ records' = records
             /\ txn'[r].epoch = OwnerEpoch(applied[r])
             /\ MayCommit(r, txn'[r].kind, applied[r])
  BY <1>2 DEF ReadState, store, JournalInv, TypeOK
<1>3. CASE \E kind \in Operations : ReadState(r, kind)
  <2> PICK n \in 0..Len(log) : n = Len(applied[r])
    BY <1>1
  <2>1. SubSeq(log, 1, n) = applied[r]
    BY AppliedIsPrefix
  <2>2. /\ OwnerEpoch(SubSeq(log, 1, n))' = OwnerEpoch(SubSeq(log, 1, n))
        /\ \A kind : MayCommit(r, kind, SubSeq(log, 1, n))'
                      = MayCommit(r, kind, SubSeq(log, 1, n))
    BY OwnerKept
  <2>3. /\ txn'[r].base = n /\ n <= Len(applied'[r])
        /\ txn'[r].epoch = OwnerEpoch(SubSeq(log, 1, n))
        /\ MayCommit(r, txn'[r].kind, SubSeq(log, 1, n))
    <3>1. /\ txn'[r].base = Len(applied[r]) /\ applied' = applied
          /\ txn'[r].epoch = OwnerEpoch(applied[r])
          /\ MayCommit(r, txn'[r].kind, applied[r])
      BY <1>2, <1>3
    <3>2. n <= Len(applied'[r])
      BY <1>1, <3>1
    <3>3. /\ OwnerEpoch(SubSeq(log, 1, n)) = OwnerEpoch(applied[r])
          /\ MayCommit(r, txn'[r].kind, SubSeq(log, 1, n))
      BY <2>1, <3>1, Zenon
    <3> QED BY <3>1, <3>2, <3>3
  <2>4. PICK kind : kind = txn'[r].kind
    OBVIOUS
  <2>5. MayCommit(r, kind, SubSeq(log, 1, n))'
    BY <2>2, <2>3, <2>4
  <2> QED BY <2>2, <2>3, <2>4, <2>5
<1>4. CASE /\ phase[r] = "open" /\ txn'[r] = txn[r]
           /\ Len(applied[r]) <= Len(applied'[r])
  <2>1. /\ txn[r] \in Txn /\ txn[r].base \in Nat
        /\ Len(applied'[r]) \in Nat
    BY <1>4, LogGrows DEF JournalInv, TypeOK, TransactionsHaveRead, Txn
  <2>2. /\ txn[r].base <= Len(applied[r])
        /\ txn[r].epoch = OwnerEpoch(SubSeq(log, 1, txn[r].base))
        /\ MayCommit(r, txn[r].kind, SubSeq(log, 1, txn[r].base))
    BY <1>4 DEF ReadsAreOfPrefixes
  <2>3. PICK n \in 0..Len(log) : n = txn[r].base
    BY <1>1, <2>1, <2>2
  <2>4. /\ OwnerEpoch(SubSeq(log, 1, n))' = OwnerEpoch(SubSeq(log, 1, n))
        /\ \A kind : MayCommit(r, kind, SubSeq(log, 1, n))'
                      = MayCommit(r, kind, SubSeq(log, 1, n))
    BY OwnerKept
  <2> QED BY <1>1, <1>4, <2>1, <2>2, <2>3, <2>4
<1> QED BY <1>3, <1>4, OpenTransactionKeeps

\* A record staged without anything applied since its transaction's read is
\* what its operation makes of the local state.
LEMMA StagedIsAllowed ==
  ASSUME JournalInv, ReadsAreOfPrefixes, NEW r \in Runtimes,
         NEW p \in RecordPaths, StageRecord(r, p),
         records'[p].base + 1 = records'[p].sequence
  PROVE  /\ records'[p].base = Len(applied[r])
         /\ AllowedAfter(records'[p], applied[r])
<1>1. /\ phase[r] = "open" /\ txn[r] \in Txn /\ txn[r].base \in Nat
      /\ Len(applied[r]) \in Nat
  BY DEF StageRecord, JournalInv, TypeOK, TransactionsHaveRead, Txn
<1>2. /\ records'[p].kind = txn[r].kind /\ records'[p].base = txn[r].base
      /\ records'[p].sequence = Len(applied[r]) + 1
      /\ records'[p].writer = r
      /\ records'[p].epoch = OwnerEpochFor(r)
  BY DEF StageRecord, JournalInv, TypeOK
<1>3. txn[r].base = Len(applied[r])
  BY <1>1, <1>2
<1>4. /\ txn[r].epoch = OwnerEpoch(applied[r])
      /\ MayCommit(r, txn[r].kind, applied[r])
  BY <1>1, <1>3, AppliedIsPrefix DEF ReadsAreOfPrefixes
<1>5. OwnerEpoch(applied[r]) \in Nat
  BY OwnerEpochIsNat DEF JournalInv
<1>6. OwnerEpochFor(r)
        = OwnerEpoch(applied[r]) + (IF Advances(txn[r].kind) THEN 1 ELSE 0)
  BY <1>4, <1>5 DEF OwnerEpochFor, Advances
<1> QED BY <1>2, <1>3, <1>4, <1>6 DEF AllowedAfter

\* What a prefix of the lane allows does not change any more.
LEMMA AllowedKept ==
  ASSUME JournalInv, [Next]_vars, NEW n \in 0..Len(log), NEW record,
         AllowedAfter(record, SubSeq(log, 1, n))
  PROVE  AllowedAfter(record, SubSeq(log, 1, n))'
<1>1. /\ OwnerEpoch(SubSeq(log, 1, n))' = OwnerEpoch(SubSeq(log, 1, n))
      /\ MayCommit(record.writer, record.kind, SubSeq(log, 1, n))'
           = MayCommit(record.writer, record.kind, SubSeq(log, 1, n))
  BY OwnerKept
<1> QED BY <1>1 DEF AllowedAfter

\* Quiet records stay what their operations make of their bases.
LEMMA QuietStep ==
  ASSUME JournalInv, ReadsAreOfPrefixes, QuietRecordsAreAllowed, [Next]_vars
  PROVE  QuietRecordsAreAllowed'
<1> SUFFICES ASSUME NEW p \in RecordPaths, records'[p] # NoRecord,
                    records'[p].base + 1 = records'[p].sequence
             PROVE  /\ records'[p].base <= Len(log')
                    /\ AllowedAfter(records[p], SubSeq(log, 1, records[p].base))'
  BY DEF QuietRecordsAreAllowed
<1>1. Len(log) \in Nat /\ Len(log') \in Nat /\ Len(log) <= Len(log')
  BY LogGrows
<1>2. CASE records'[p] = records[p]
  <2>1. /\ records[p].base <= Len(log)
        /\ AllowedAfter(records[p], SubSeq(log, 1, records[p].base))
    BY <1>2 DEF QuietRecordsAreAllowed
  <2>2. records[p].base \in Nat
    BY <1>2 DEF JournalInv, TypeOK, Record
  <2>3. PICK n \in 0..Len(log) : n = records[p].base
    BY <1>1, <2>1, <2>2
  <2>4. PICK record : record = records[p]
    OBVIOUS
  <2>5. AllowedAfter(record, SubSeq(log, 1, n))'
    BY <2>1, <2>3, <2>4, AllowedKept
  <2> QED BY <1>1, <1>2, <2>1, <2>3, <2>4, <2>5
<1>3. ASSUME NEW r \in Runtimes, StageRecord(r, p)
      PROVE  /\ records'[p].base <= Len(log')
             /\ AllowedAfter(records[p], SubSeq(log, 1, records[p].base))'
  <2>1. /\ records'[p].base = Len(applied[r])
        /\ AllowedAfter(records'[p], applied[r])
    BY <1>3, StagedIsAllowed
  <2>2. PICK n \in 0..Len(log) : n = Len(applied[r]) /\ applied[r] = SubSeq(log, 1, n)
    BY AppliedIsPrefix
  <2>3. PICK record : record = records'[p]
    OBVIOUS
  <2>4. AllowedAfter(record, SubSeq(log, 1, n))'
    BY <2>1, <2>2, <2>3, AllowedKept
  <2> QED BY <1>1, <2>1, <2>2, <2>3, <2>4
<1>4. ASSUME NEW r \in Runtimes, NEW o \in RecordPaths, StageRecord(r, o), o # p
      PROVE  records'[p] = records[p]
  BY <1>4 DEF StageRecord, JournalInv, TypeOK
<1>5. ASSUME NEW r \in Runtimes, RuntimeStep(r),
             ~ \E o \in RecordPaths : StageRecord(r, o)
      PROVE  records' = records
  BY <1>5 DEF RuntimeStep, Synchronise, BeginCommit, BeginBackgroundSync, Open,
              WalkStep, WalkFails, FinishWalk, ReadState, Abandon, Resolve,
              HeadAccepted, ReadbackMatches, FinishCommit, HeadErrored,
              ReadbackFails, Crash, store
<1>6. ASSUME NEW q \in requests, StoreDecides(q)
      PROVE  records' = records
  BY <1>6 DEF StoreDecides
<1>7. CASE UNCHANGED vars
  BY <1>2, <1>7 DEF vars
<1> QED BY <1>2, <1>3, <1>4, <1>5, <1>6, <1>7 DEF Next, RuntimeStep

\* Open transactions and quiet records are what their operations make of the
\* owner the lane shows, whether or not local writes fail.
THEOREM OwnersShown == Spec => [](ReadsAreOfPrefixes /\ QuietRecordsAreAllowed)
<1>1. Init => ReadsAreOfPrefixes /\ QuietRecordsAreAllowed
  BY DEF Init, ReadsAreOfPrefixes, QuietRecordsAreAllowed
<1>2. JournalInv /\ ReadsAreOfPrefixes /\ QuietRecordsAreAllowed /\ [Next]_vars
      => (ReadsAreOfPrefixes /\ QuietRecordsAreAllowed)'
  BY ReadsStep, QuietStep
<1> QED BY <1>1, <1>2, Invariant, PTL DEF Spec

\* If local writes do not fail, the conditional head write keeps every quiet
\* transaction out of the lane that its operation would not make of the lane it
\* enters: those of former owners, and those of a former generation.
THEOREM FencingCorrect ==
  ASSUME ~ApplyFails
  PROVE  Spec => []QuietCommitsAreFenced
<1>1. ASSUME JournalInv, SequenceIsPosition, QuietRecordsAreAllowed
      PROVE  QuietCommitsAreFenced
  <2> SUFFICES ASSUME NEW i \in 1..Len(log),
                      records[log[i]].base + 1 = records[log[i]].sequence
               PROVE  AllowedAfter(records[log[i]], SubSeq(log, 1, i - 1))
    BY DEF QuietCommitsAreFenced
  <2>1. log[i] \in RecordPaths /\ i \in Nat
    BY <1>1, ElementOfSeq DEF JournalInv, TypeOK
  <2>2. records[log[i]] # NoRecord /\ records[log[i]].sequence = i
    BY <1>1 DEF JournalInv, ChainIsLog, ValidAt, SequenceIsPosition
  <2>3. records[log[i]].base \in Nat
    BY <1>1, <2>1, <2>2 DEF JournalInv, TypeOK, Record
  <2>4. records[log[i]].base = i - 1
    BY <2>1, <2>2, <2>3
  <2> QED BY <1>1, <2>1, <2>2, <2>4 DEF QuietRecordsAreAllowed
<1> QED BY <1>1, Invariant, SequencesCorrect, OwnersShown, PTL

=============================================================================
