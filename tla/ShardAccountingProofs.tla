------------------------ MODULE ShardAccountingProofs ------------------------
(***************************************************************************)
(* Proofs that ProcessShard keeps account of the executions it holds, for  *)
(* any runtimes, nodes, events, keys, limits and bounds: where an admitted *)
(* event is, the counters and the active keys the code decides by, the     *)
(* limits, and the transitions the executions leave behind.                *)
(***************************************************************************)
EXTENDS ProcessShardProofs, Induction

-----------------------------------------------------------------------------
(* The inductive invariants *)

\* Admission numbers events apart and within next_sequence, so that First, which
\* orders by sequence, takes no more than it is asked for.
SequencesAreDistinct ==
  /\ \A e \in Events :
       outcome[e] # "none" => execution[e].sequence <= shard.next_sequence
  /\ \A e, d \in Events :
       /\ outcome[e] # "none"
       /\ outcome[d] # "none"
       /\ execution[e].sequence = execution[d].sequence
       => e = d

\* Only an execution that was started has attempts behind it, so what dispatch
\* starts is counted in running and never in retry_running.
UntriedUntilStarted ==
  \A e \in Events :
    outcome[e] = "none" \/ e \in mailbox => execution[e].attempt = 0

AccountingInv ==
  /\ EveryPendingEventIsHeldOnce
  /\ ActiveKeysAreInFlight
  /\ CountersMatch
  /\ SequencesAreDistinct
  /\ UntriedUntilStarted

-----------------------------------------------------------------------------
(* Sizes of sets of events *)

LEMMA EventsAreFinite ==
  ASSUME NEW E, E \subseteq Events
  PROVE  IsFiniteSet(E)
BY FS_Subset, EventsAssumption

LEMMA SizeOfUnion ==
  ASSUME NEW E, E \subseteq Events, NEW D, D \subseteq Events, E \cap D = {}
  PROVE  /\ Cardinality(E \cup D) = Cardinality(E) + Cardinality(D)
         /\ Cardinality(E) \in Nat
         /\ Cardinality(D) \in Nat
<1>1. IsFiniteSet(E) /\ IsFiniteSet(D)
  BY EventsAreFinite
<1>2. Cardinality(E \cap D) = 0
  BY FS_EmptySet
<1>3. Cardinality(E \cup D)
        = Cardinality(E) + Cardinality(D) - Cardinality(E \cap D)
  BY <1>1, FS_Union
<1>4. Cardinality(E) \in Nat /\ Cardinality(D) \in Nat
  BY SizeIsNat
<1> QED BY <1>2, <1>3, <1>4

LEMMA SizeOfDifference ==
  ASSUME NEW E, E \subseteq Events, NEW D, D \subseteq E
  PROVE  /\ Cardinality(E \ D) = Cardinality(E) - Cardinality(D)
         /\ Cardinality(D) <= Cardinality(E)
         /\ Cardinality(E) \in Nat
         /\ Cardinality(D) \in Nat
<1>1. /\ Cardinality(E) \in Nat /\ Cardinality(D) \in Nat
      /\ Cardinality(E \ D) \in Nat
  BY SizeIsNat
<1>2. Cardinality((E \ D) \cup D) = Cardinality(E \ D) + Cardinality(D)
  <2>1. (E \ D) \cap D = {} /\ E \ D \subseteq Events /\ D \subseteq Events
    OBVIOUS
  <2> QED BY <2>1, SizeOfUnion
<1>3. (E \ D) \cup D = E
  OBVIOUS
<1> QED BY <1>1, <1>2, <1>3

\* A subset is no larger.
LEMMA SizeOfSubset ==
  ASSUME NEW E, E \subseteq Events, NEW D, D \subseteq E
  PROVE  /\ Cardinality(D) <= Cardinality(E)
         /\ D # E => Cardinality(D) < Cardinality(E)
<1>1. IsFiniteSet(E) /\ D \in SUBSET E
  BY EventsAreFinite
<1>2. Cardinality(D) <= Cardinality(E)
  BY <1>1, FS_Subset
<1>3. Cardinality(E) = Cardinality(D) => E = D
  BY <1>1, FS_Subset
<1>4. Cardinality(D) \in Nat /\ Cardinality(E) \in Nat
  BY SizeIsNat
<1> QED BY <1>2, <1>3, <1>4

-----------------------------------------------------------------------------
(* Dispatch by sequence *)

\* The place of an event in a set, which First compares.
Before(e, E, exec) == {d \in E : exec[d].sequence < exec[e].sequence}

LEMMA LaterHasMoreBefore ==
  ASSUME NEW E, E \subseteq Events,
         NEW exec \in [Events -> Execution],
         NEW e \in E, NEW d \in E,
         exec[d].sequence < exec[e].sequence
  PROVE  Cardinality(Before(d, E, exec)) < Cardinality(Before(e, E, exec))
<1>1. /\ exec[d].sequence \in Nat /\ exec[e].sequence \in Nat
      /\ \A x \in E : exec[x].sequence \in Nat
  BY DEF Execution
<1>2. Before(d, E, exec) \subseteq Before(e, E, exec)
  BY <1>1 DEF Before
<1>3. d \in Before(e, E, exec) /\ d \notin Before(d, E, exec)
  BY <1>1 DEF Before
<1>4. Before(e, E, exec) \subseteq Events
  BY DEF Before
<1> QED BY <1>2, <1>3, <1>4, SizeOfSubset

\* First takes at most as many events as it is asked for, when their sequences
\* tell them apart.
LEMMA FirstBound ==
  ASSUME NEW n \in Nat,
         NEW E, E \subseteq Events,
         NEW exec \in [Events -> Execution],
         \A e, d \in E : exec[e].sequence = exec[d].sequence => e = d
  PROVE  /\ First(n, E, exec) \subseteq E
         /\ Cardinality(First(n, E, exec)) <= n
<1>1. PICK F : F = First(n, E, exec)
  OBVIOUS
<1>2. F = {e \in E : Cardinality(Before(e, E, exec)) < n}
  BY <1>1 DEF First, Before
<1>3. \A e \in E : Cardinality(Before(e, E, exec)) \in Nat
  <2> SUFFICES ASSUME NEW e \in E
               PROVE  Cardinality(Before(e, E, exec)) \in Nat
    OBVIOUS
  <2>1. Before(e, E, exec) \subseteq Events
    BY DEF Before
  <2> QED BY <2>1, SizeIsNat
<1>4. PICK f : f = [e \in F |-> Cardinality(Before(e, E, exec)) + 1]
  OBVIOUS
<1>5. \A e \in F : f[e] \in 1..n
  BY <1>2, <1>3, <1>4
<1>6. f \in [F -> 1..n]
  BY <1>4, <1>5
<1>7. ASSUME NEW e \in F, NEW d \in F, f[e] = f[d]
      PROVE  e = d
  <2>1. e \in E /\ d \in E
    BY <1>2
  <2>2. Cardinality(Before(e, E, exec)) = Cardinality(Before(d, E, exec))
    BY <1>3, <1>4, <1>7, <2>1
  <2>3. exec[d].sequence \in Nat /\ exec[e].sequence \in Nat
    BY <2>1 DEF Execution
  <2>4. ~(exec[d].sequence < exec[e].sequence)
    BY <2>1, <2>2, <1>3, LaterHasMoreBefore
  <2>5. ~(exec[e].sequence < exec[d].sequence)
    BY <2>1, <2>2, <1>3, LaterHasMoreBefore
  <2>6. exec[e].sequence = exec[d].sequence
    BY <2>3, <2>4, <2>5
  <2> QED BY <2>1, <2>6
<1>8. f \in Injection(F, 1..n)
  BY <1>6, <1>7 DEF Injection, IsInjective
<1>9. IsFiniteSet(1..n) /\ Cardinality(1..n) = n
  BY FS_Interval
<1>10. Cardinality(F) <= n
  BY <1>8, <1>9, FS_Injection
<1> QED BY <1>1, <1>2, <1>10

-----------------------------------------------------------------------------
(* What the counters and keys of a shard say of the events it holds *)

Untried(E, exec) == {e \in E : exec[e].attempt = 0}

\* s accounts for the events in box, which wait, and in flight, which run.
Accounts(s, box, flight, exec) ==
  /\ box \subseteq Events
  /\ flight \subseteq Events
  /\ box \cap flight = {}
  /\ s.active_keys = KeysOf(flight)
  /\ \A e, d \in flight : KeyOf[e] = KeyOf[d] => e = d
  /\ s.pending = Cardinality(box)
  /\ s.running = Cardinality(Untried(flight, exec))
  /\ \A e \in box : exec[e].attempt = 0
  /\ \A e, d \in box \cup flight : exec[e].sequence = exec[d].sequence => e = d

\* Accounts reads attempts, sequences, and three fields of the shard.
LEMMA AccountsReads ==
  ASSUME NEW s, NEW t, NEW box, NEW flight, NEW exec, NEW other,
         Accounts(s, box, flight, exec),
         t.pending = s.pending,
         t.running = s.running,
         t.active_keys = s.active_keys,
         \A e \in box \cup flight :
           /\ other[e].attempt = exec[e].attempt
           /\ other[e].sequence = exec[e].sequence
  PROVE  Accounts(t, box, flight, other)
<1>1. Untried(flight, other) = Untried(flight, exec)
  BY DEF Untried
<1>2. \A e \in box : other[e].attempt = 0
  BY DEF Accounts
<1>3. \A e, d \in box \cup flight : other[e].sequence = other[d].sequence => e = d
  BY DEF Accounts
<1> QED BY <1>1, <1>2, <1>3 DEF Accounts

\* Startable reads two fields of the shard.
LEMMA StartableReads ==
  ASSUME NEW s, NEW t, NEW E, NEW exec,
         t.running = s.running, t.active_keys = s.active_keys
  PROVE  Startable(t, E, exec) = Startable(s, E, exec)
BY DEF Startable

LEMMA StartableSubset ==
  ASSUME NEW s, NEW E, NEW exec
  PROVE  Startable(s, E, exec) \subseteq E
BY DEF Startable, First

\* The fields of a shard that starts executions.
LEMMA WithStartedFields ==
  ASSUME NEW s \in ShardState, NEW E
  PROVE  LET t == WithStarted(s, E) IN
         /\ t.pending = Minus(s.pending, Cardinality(E))
         /\ t.running = s.running + Cardinality(E)
         /\ t.active_keys = s.active_keys \cup KeysOf(E)
         /\ t.next_sequence = s.next_sequence
         /\ t.retry_pending = s.retry_pending
         /\ t.retry_running = s.retry_running
         /\ t.completed = s.completed
         /\ t.failed = s.failed
BY DEF WithStarted, ShardState

\* Starting what may be started keeps the account: no key runs twice, no slot is
\* taken twice, and no decrement saturates.
LEMMA Starting ==
  ASSUME NEW s \in ShardState,
         NEW box, NEW flight,
         NEW exec \in [Events -> Execution],
         Accounts(s, box, flight, exec),
         NEW E, E \subseteq box,
         NEW started, started = Startable(s, E, exec)
  PROVE  /\ started \subseteq E
         /\ Accounts(WithStarted(s, started), box \ started, flight \cup started, exec)
<1>1. PICK heads : heads = {e \in E : /\ KeyOf[e] \notin s.active_keys
                                     /\ \A d \in E :
                                          KeyOf[d] = KeyOf[e]
                                            => exec[d].sequence >= exec[e].sequence}
  OBVIOUS
<1>2. PICK slots : slots = Concurrency - s.running
  OBVIOUS
<1>3. /\ started = First(slots, heads, exec)
      /\ heads \subseteq E
  BY <1>1, <1>2 DEF Startable
<1>4. /\ box \subseteq Events /\ flight \subseteq Events /\ box \cap flight = {}
      /\ \A e, d \in box \cup flight :
           exec[e].sequence = exec[d].sequence => e = d
  BY DEF Accounts
<1>5. s.running \in Nat
  BY DEF ShardState
<1>6. started \subseteq heads
  BY <1>3 DEF First
<1>7. started \subseteq E /\ started \subseteq box /\ started \subseteq Events
  BY <1>3, <1>4, <1>6
<1>8. \A e, d \in started : KeyOf[e] = KeyOf[d] => e = d
  <2> SUFFICES ASSUME NEW e \in started, NEW d \in started, KeyOf[e] = KeyOf[d]
               PROVE  e = d
    OBVIOUS
  <2>1. e \in heads /\ d \in heads /\ e \in E /\ d \in E
    BY <1>3, <1>6
  <2>2. /\ exec[d].sequence >= exec[e].sequence
        /\ exec[e].sequence >= exec[d].sequence
    BY <1>1, <2>1
  <2>3. exec[e].sequence \in Nat /\ exec[d].sequence \in Nat
    BY <1>7 DEF Execution
  <2>4. exec[e].sequence = exec[d].sequence
    BY <2>2, <2>3
  <2> QED BY <2>4, <1>4, <1>7
<1>9. \A e \in started, d \in flight : KeyOf[e] # KeyOf[d]
  BY <1>1, <1>6 DEF Accounts, KeysOf
<1>10. \A e, d \in flight \cup started : KeyOf[e] = KeyOf[d] => e = d
  BY <1>8, <1>9 DEF Accounts
<1>11. Untried(flight \cup started, exec) = Untried(flight, exec) \cup started
  BY <1>7 DEF Untried, Accounts
<1>12. Cardinality(Untried(flight \cup started, exec)) = s.running + Cardinality(started)
  <2>1. Untried(flight, exec) \subseteq Events /\ Untried(flight, exec) \cap started = {}
    BY <1>4, <1>7 DEF Untried
  <2> QED BY <2>1, <1>7, <1>11, SizeOfUnion DEF Accounts
<1>13. Cardinality(started) \in Nat
  BY <1>7, SizeIsNat
<1>14. Minus(s.pending, Cardinality(started)) = Cardinality(box \ started)
  <2>1. /\ Cardinality(box \ started) = Cardinality(box) - Cardinality(started)
        /\ Cardinality(started) <= Cardinality(box)
    BY <1>4, <1>7, SizeOfDifference
  <2> QED BY <2>1 DEF Minus, Accounts
<1>15. KeysOf(flight \cup started) = KeysOf(flight) \cup KeysOf(started)
  BY DEF KeysOf
<1>16. PICK t : t = WithStarted(s, started)
  OBVIOUS
<1>17. /\ t.pending = Cardinality(box \ started)
       /\ t.running = Cardinality(Untried(flight \cup started, exec))
       /\ t.active_keys = KeysOf(flight \cup started)
       /\ t.running = s.running + Cardinality(started)
  BY <1>12, <1>14, <1>15, <1>16, WithStartedFields, ZenonT(60) DEF Accounts
<1>18. /\ \A e \in box \ started : exec[e].attempt = 0
       /\ (box \ started) \cap (flight \cup started) = {}
       /\ box \ started \subseteq Events
       /\ flight \cup started \subseteq Events
       /\ \A e, d \in (box \ started) \cup (flight \cup started) :
            exec[e].sequence = exec[d].sequence => e = d
  BY <1>4, <1>7 DEF Accounts
<1>19. Accounts(t, box \ started, flight \cup started, exec)
  BY <1>10, <1>17, <1>18 DEF Accounts
<1> QED BY <1>7, <1>16, <1>19

\* The limits are numbers, whichever were registered.
LEMMA LimitsAreNumbers ==
  ASSUME TypeOK
  PROVE  /\ Concurrency \in Nat \ {0}
         /\ RetryConcurrency \in Nat \ {0}
         /\ Capacity \in Nat \ {0}
<1>1. limits \in Limits
  BY RegistrationsAssumption DEF TypeOK
<1> QED BY <1>1 DEF Limits, Concurrency, RetryConcurrency, Capacity

\* What starts finds its slots free.
LEMMA StartsInFreeSlots ==
  ASSUME TypeOK, NEW s \in ShardState,
         NEW E, E \subseteq Events,
         NEW exec \in [Events -> Execution],
         \A e, d \in E : exec[e].sequence = exec[d].sequence => e = d,
         NEW started, started = Startable(s, E, exec)
  PROVE  started = {} \/ s.running + Cardinality(started) <= Concurrency
<1>1. PICK heads : heads = {e \in E : /\ KeyOf[e] \notin s.active_keys
                                     /\ \A d \in E :
                                          KeyOf[d] = KeyOf[e]
                                            => exec[d].sequence >= exec[e].sequence}
  OBVIOUS
<1>2. PICK slots : slots = Concurrency - s.running
  OBVIOUS
<1>3. started = First(slots, heads, exec)
  BY <1>1, <1>2 DEF Startable
<1>4. heads \subseteq E /\ heads \subseteq Events
  BY <1>1
<1>5. s.running \in Nat /\ Concurrency \in Nat
  BY LimitsAreNumbers DEF ShardState
<1>6. CASE slots \in Nat
  <2>1. Cardinality(started) <= slots /\ started \subseteq Events
    BY <1>3, <1>4, <1>6, FirstBound
  <2>2. Cardinality(started) \in Nat
    BY <2>1, SizeIsNat
  <2> QED BY <1>2, <1>5, <2>1, <2>2
<1>7. CASE slots \notin Nat
  <2> SUFFICES ASSUME NEW e \in started PROVE FALSE
    OBVIOUS
  <2>1. PICK before : before = Before(e, heads, exec)
    OBVIOUS
  <2>2. Cardinality(before) < slots
    BY <1>3, <2>1 DEF First, Before
  <2>3. before \subseteq Events
    BY <1>4, <2>1 DEF Before
  <2>4. Cardinality(before) \in Nat
    BY <2>3, SizeIsNat
  <2> QED BY <1>2, <1>5, <1>7, <2>2, <2>4
<1> QED BY <1>6, <1>7

\* Dispatch starts some of the first items of the mailbox.
LEMMA Dispatching ==
  ASSUME NEW s \in ShardState,
         NEW box, NEW flight,
         NEW exec \in [Events -> Execution],
         Accounts(s, box, flight, exec),
         NEW started, started = Dispatchable(s, box, exec)
  PROVE  /\ started \subseteq box
         /\ Accounts(WithStarted(s, started), box \ started, flight \cup started, exec)
<1>1. First(Concurrency, box, exec) \subseteq box
  BY DEF First
<1>2. started = Startable(s, First(Concurrency, box, exec), exec)
  BY DEF Dispatchable
<1> QED BY <1>1, <1>2, Starting

-----------------------------------------------------------------------------
(* What a step does to the grants that are open *)

\* The grants that are open hold events of their own.
GrantsAreApart == \A g, h \in Open : g # h => grants[g].events \cap grants[h].events = {}

\* An expiry or a renewal opens and closes nothing.
LEMMA GrantsExpiry ==
  ASSUME grants \in Seq(Grant), NEW g \in 1..Len(grants), NEW expired \in BOOLEAN,
         grants' = [grants EXCEPT ![g].expired = expired]
  PROVE  /\ Open' = Open
         /\ Leased' = Leased
         /\ GrantsAreApart => GrantsAreApart'
<1>1. Len(grants') = Len(grants)
  BY GrantUpdate
<1>2. grants[g] \in Grant
  BY ElementOfSeq
<1>3. \A h \in 1..Len(grants) : /\ grants'[h].status = grants[h].status
                                /\ grants'[h].events = grants[h].events
  BY <1>2 DEF Grant
<1>4. Open' = Open
  BY <1>1, <1>3 DEF Open
<1>5. \A h \in Open : grants'[h].events = grants[h].events
  BY <1>3 DEF Open
<1>6. Leased' = Leased
  BY <1>4, <1>5 DEF Leased
<1> QED BY <1>4, <1>5, <1>6 DEF GrantsAreApart

\* Closing a grant releases its events and no others.
LEMMA GrantClosed ==
  ASSUME grants \in Seq(Grant), GrantsAreApart,
         NEW g \in Open, NEW status \in {"completed", "revoked"},
         grants' = [grants EXCEPT ![g].status = status, ![g].expired = FALSE]
  PROVE  /\ Leased' = Leased \ grants[g].events
         /\ grants[g].events \subseteq Leased
         /\ GrantsAreApart'
<1>0. g \in 1..Len(grants)
  BY DEF Open
<1>1. Len(grants') = Len(grants)
  BY <1>0, GrantUpdate
<1>2. grants[g] \in Grant
  BY <1>0, ElementOfSeq
<1>3. \A h \in 1..Len(grants) :
        /\ grants'[h].status = IF h = g THEN status ELSE grants[h].status
        /\ grants'[h].events = grants[h].events
  BY <1>0, <1>2 DEF Grant
<1>4. Open' = Open \ {g}
  BY <1>1, <1>3 DEF Open
<1>5. \A h \in Open : grants'[h].events = grants[h].events
  BY <1>3 DEF Open
<1>6. Leased' = Leased \ grants[g].events
  <2>1. \A e : e \in Leased' <=> \E h \in Open : h # g /\ e \in grants[h].events
    BY <1>4, <1>5 DEF Leased
  <2>2. \A e : e \in Leased <=> \E h \in Open : e \in grants[h].events
    BY DEF Leased
  <2>3. \A h \in Open : h # g => grants[h].events \cap grants[g].events = {}
    BY DEF GrantsAreApart
  <2>4. \A e : e \in Leased' <=> e \in Leased /\ e \notin grants[g].events
    BY <2>1, <2>2, <2>3
  <2> QED BY <2>4
<1>7. grants[g].events \subseteq Leased
  BY DEF Leased
<1> QED BY <1>4, <1>5, <1>6, <1>7 DEF GrantsAreApart

\* A new grant leases its events, which nobody leased.
LEMMA GrantAdded ==
  ASSUME grants \in Seq(Grant), GrantsAreApart,
         NEW grant \in Grant, grant.status = "open",
         grant.events \cap Leased = {},
         grants' = Append(grants, grant)
  PROVE  /\ Leased' = Leased \cup grant.events
         /\ GrantsAreApart'
<1>1. PICK n : n = Len(grants) + 1
  OBVIOUS
<1>2. /\ Len(grants') = n
      /\ \A h \in 1..Len(grants) : grants'[h] = grants[h]
      /\ grants'[n] = grant
  BY <1>1, AppendProperties
<1>3. Len(grants) \in Nat
  BY LenProperties
<1>4. 1..n = 1..Len(grants) \cup {n}
  BY <1>1, <1>3
<1>5. Open' = Open \cup {n}
  BY <1>2, <1>4 DEF Open
<1>6. \A h \in Open : grants'[h].events = grants[h].events
  BY <1>2 DEF Open
<1>7. Leased' = Leased \cup grant.events
  <2>1. \A e : e \in Leased' <=> \E h \in Open \cup {n} : e \in grants'[h].events
    BY <1>5 DEF Leased
  <2>2. \A e : e \in Leased <=> \E h \in Open : e \in grants[h].events
    BY DEF Leased
  <2>3. \A e : e \in Leased' <=> e \in Leased \/ e \in grant.events
    BY <1>2, <1>6, <2>1, <2>2
  <2> QED BY <2>3
<1>8. \A h \in Open : grants[h].events \cap grant.events = {}
  BY DEF Leased
<1>9. ASSUME NEW g \in Open', NEW h \in Open', g # h
      PROVE  grants'[g].events \cap grants'[h].events = {}
  <2>1. CASE g \in Open /\ h \in Open
    BY <1>6, <1>9, <2>1 DEF GrantsAreApart
  <2>2. CASE g = n /\ h \in Open
    BY <1>2, <1>6, <1>8, <2>2
  <2>3. CASE g \in Open /\ h = n
    BY <1>2, <1>6, <1>8, <2>3
  <2> QED BY <1>5, <1>9, <2>1, <2>2, <2>3
<1>10. GrantsAreApart'
  BY <1>9 DEF GrantsAreApart
<1> QED BY <1>7, <1>10

LEMMA LengthOfFunction ==
  ASSUME NEW S, NEW n \in Nat, NEW f \in [1..n -> S]
  PROVE  f \in Seq(S) /\ Len(f) = n
BY SeqDef, LenProperties

\* A transfer that returns the grants leaves none open.
LEMMA GrantsReturned ==
  ASSUME grants \in Seq(Grant),
         grants' = [g \in 1..Len(grants) |->
                      IF g \in Open THEN [grants[g] EXCEPT !.status = "revoked",
                                                           !.expired = FALSE]
                      ELSE grants[g]]
  PROVE  /\ Leased' = {}
         /\ GrantsAreApart'
<1>1. Len(grants') = Len(grants)
  <2>1. \A g \in 1..Len(grants) : grants[g] \in Grant
    BY ElementOfSeq
  <2>2. \A g \in 1..Len(grants) : grants'[g] \in Grant
    BY <2>1 DEF Grant
  <2>3. grants' \in [1..Len(grants) -> Grant]
    BY <2>2
  <2>4. Len(grants) \in Nat
    BY LenProperties
  <2> QED BY <2>3, <2>4, LengthOfFunction, ZenonT(30)
<1>2. \A g \in 1..Len(grants) : grants'[g].status # "open"
  <2> SUFFICES ASSUME NEW g \in 1..Len(grants) PROVE grants'[g].status # "open"
    OBVIOUS
  <2>1. grants[g] \in Grant
    BY ElementOfSeq
  <2>2. CASE g \in Open
    BY <2>1, <2>2 DEF Grant
  <2>3. CASE g \notin Open
    BY <2>1, <2>3 DEF Open
  <2> QED BY <2>2, <2>3
<1>3. Open' = {}
  BY <1>1, <1>2 DEF Open
<1>4. Leased' = {}
  <2>1. \A e : e \notin Leased'
    BY <1>3 DEF Leased
  <2> QED BY <2>1
<1>5. GrantsAreApart'
  BY <1>3 DEF GrantsAreApart
<1> QED BY <1>4, <1>5

-----------------------------------------------------------------------------
(* The account of a state, in parts *)

RetriesOf(E, exec) == {e \in E : exec[e].attempt > 0}

\* The parts of AccountingInv that Accounts does not say, for the values of a
\* state: what is ready and leased, the outcomes, the counters of retries and
\* results.
Tallies(s, rdy, leased, exec, out, box) ==
  /\ {e \in Events : out[e] = "PENDING"} = box \cup rdy \cup leased
  /\ rdy \cap leased = {}
  /\ s.retry_pending = Cardinality(RetriesOf(rdy, exec))
  /\ s.retry_running = Cardinality(RetriesOf(leased, exec))
  /\ s.completed = Cardinality({e \in Events : out[e] = "COMMITTED"})
  /\ s.failed = Cardinality({e \in Events : out[e] = "FAILED"})

\* What KeepsToLimits says, of the counters.
CountersKeepToLimits ==
  /\ Cardinality(mailbox' \cup ready' \cup Leased')
       > Cardinality(mailbox \cup ready \cup Leased)
       => Cardinality(mailbox' \cup ready' \cup Leased') <= Capacity
  /\ shard'.running > shard.running => shard'.running <= Concurrency
  /\ shard'.retry_running > shard.retry_running
       => shard'.retry_running <= RetryConcurrency

\* Admission's part, for the values of a state.
Numbering(next, exec, out) ==
  /\ \A e \in Events : out[e] = "none" => exec[e].attempt = 0
  /\ \A e \in Events : out[e] # "none" => exec[e].sequence <= next
  /\ \A e, d \in Events :
       /\ out[e] # "none"
       /\ out[d] # "none"
       /\ exec[e].sequence = exec[d].sequence
       => e = d

\* What has attempts is what is not untried.
LEMMA RetriesAndUntried ==
  ASSUME NEW exec \in [Events -> Execution], NEW E, E \subseteq Events
  PROVE  /\ E \ RetriesOf(E, exec) = Untried(E, exec)
         /\ RetriesOf(E, exec) = E \ Untried(E, exec)
         /\ RetriesOf(E, exec) \subseteq E
         /\ Untried(E, exec) \subseteq E
<1>1. \A e \in E : exec[e].attempt \in Nat
  BY DEF Execution
<1> QED BY <1>1 DEF RetriesOf, Untried

\* The events that are held are events.
LEMMA LeasedEvents ==
  ASSUME TypeOK
  PROVE  Leased \subseteq Events /\ InFlight \subseteq Events
<1>1. \A g \in 1..Len(grants) : grants[g] \in Grant
  BY ElementOfSeq DEF TypeOK
<1> QED BY <1>1 DEF Leased, InFlight, Open, Grant, TypeOK

LEMMA LeasedEventsNext ==
  ASSUME TypeOK'
  PROVE  Leased' \subseteq Events /\ InFlight' \subseteq Events
<1>1. \A g \in 1..Len(grants') : grants'[g] \in Grant
  BY ElementOfSeq DEF TypeOK
<1> QED BY <1>1 DEF Leased, InFlight, Open, Grant, TypeOK

\* The invariant says all the parts of the state it is assumed in,
LEMMA AccountingParts ==
  ASSUME TypeOK, AccountingInv
  PROVE  /\ Accounts(shard, mailbox, InFlight, execution)
         /\ Tallies(shard, ready, Leased, execution, outcome, mailbox)
         /\ Numbering(shard.next_sequence, execution, outcome)
         /\ GrantsAreApart
<1>1. /\ InFlight = ready \cup Leased
      /\ mailbox \cup InFlight = mailbox \cup ready \cup Leased
  BY DEF InFlight
<1>2. /\ EveryPendingEventIsHeldOnce /\ ActiveKeysAreInFlight /\ CountersMatch
      /\ SequencesAreDistinct /\ UntriedUntilStarted
  BY DEF AccountingInv
<1>3. InFlight \ Retries(InFlight) = Untried(InFlight, execution)
  <2>1. InFlight \subseteq Events /\ execution \in [Events -> Execution]
    BY LeasedEvents DEF TypeOK
  <2>2. Retries(InFlight) = RetriesOf(InFlight, execution)
    BY DEF Retries, RetriesOf
  <2> QED BY <2>1, <2>2, RetriesAndUntried
<1>4. Accounts(shard, mailbox, InFlight, execution)
  <2>1. mailbox \subseteq Events /\ InFlight \subseteq Events
    BY LeasedEvents DEF TypeOK
  <2>2. mailbox \cap InFlight = {}
    BY <1>2 DEF EveryPendingEventIsHeldOnce
  <2>3. \A e \in mailbox \cup InFlight : outcome[e] # "none"
    BY <1>2, <2>1 DEF EveryPendingEventIsHeldOnce
  <2>4. \A e, d \in mailbox \cup InFlight :
          execution[e].sequence = execution[d].sequence => e = d
    BY <1>2, <2>1, <2>3 DEF SequencesAreDistinct
  <2>5. \A e \in mailbox : execution[e].attempt = 0
    BY <1>2, <2>1 DEF UntriedUntilStarted
  <2>6. /\ shard.pending = Cardinality(mailbox)
        /\ shard.running = Cardinality(Untried(InFlight, execution))
    BY <1>2, <1>3 DEF CountersMatch
  <2>7. /\ shard.active_keys = KeysOf(InFlight)
        /\ \A e, d \in InFlight : KeyOf[e] = KeyOf[d] => e = d
    BY <1>2 DEF ActiveKeysAreInFlight
  <2> QED BY <2>1, <2>2, <2>4, <2>5, <2>6, <2>7 DEF Accounts
<1>5. Tallies(shard, ready, Leased, execution, outcome, mailbox)
  <2>1. /\ {e \in Events : outcome[e] = "PENDING"} = mailbox \cup ready \cup Leased
        /\ ready \cap Leased = {}
    BY <1>1, <1>2 DEF EveryPendingEventIsHeldOnce
  <2>2. /\ shard.retry_pending = Cardinality(RetriesOf(ready, execution))
        /\ shard.retry_running = Cardinality(RetriesOf(Leased, execution))
        /\ shard.completed = Cardinality({e \in Events : outcome[e] = "COMMITTED"})
        /\ shard.failed = Cardinality({e \in Events : outcome[e] = "FAILED"})
    BY <1>2 DEF CountersMatch, Retries, RetriesOf
  <2> QED BY <2>1, <2>2 DEF Tallies
<1>6. Numbering(shard.next_sequence, execution, outcome)
  BY <1>2 DEF SequencesAreDistinct, UntriedUntilStarted, Numbering
<1>7. GrantsAreApart
  BY <1>2 DEF EveryPendingEventIsHeldOnce, GrantsAreApart
<1> QED BY <1>4, <1>5, <1>6, <1>7

\* and the parts of the next state make up the invariant there.
LEMMA AccountingFromParts ==
  ASSUME TypeOK',
         Accounts(shard', mailbox', ready' \cup Leased', execution'),
         Tallies(shard', ready', Leased', execution', outcome', mailbox'),
         Numbering(shard'.next_sequence, execution', outcome'),
         GrantsAreApart'
  PROVE  AccountingInv'
<1>1. /\ InFlight' = ready' \cup Leased'
      /\ mailbox' \cup InFlight' = mailbox' \cup ready' \cup Leased'
  BY DEF InFlight
<1>2. (InFlight \ Retries(InFlight))' = Untried(InFlight', execution')
  <2>1. InFlight' \subseteq Events /\ execution' \in [Events -> Execution]
    BY LeasedEventsNext DEF TypeOK
  <2>2. Retries(InFlight)' = RetriesOf(InFlight', execution')
    BY DEF Retries, RetriesOf
  <2> QED BY <2>1, <2>2, RetriesAndUntried
<1>3. EveryPendingEventIsHeldOnce'
  <2>1. mailbox' \cap InFlight' = {}
    BY <1>1 DEF Accounts
  <2>2. /\ {e \in Events : outcome'[e] = "PENDING"} = mailbox' \cup InFlight'
        /\ ready' \cap Leased' = {}
    BY <1>1 DEF Tallies
  <2> QED BY <2>1, <2>2 DEF EveryPendingEventIsHeldOnce, GrantsAreApart
<1>4. ActiveKeysAreInFlight'
  BY <1>1 DEF ActiveKeysAreInFlight, Accounts
<1>5. CountersMatch'
  <2>1. /\ shard'.pending = Cardinality(mailbox')
        /\ shard'.running = Cardinality((InFlight \ Retries(InFlight))')
    BY <1>1, <1>2 DEF Accounts
  <2>2. /\ shard'.retry_pending = Cardinality(Retries(ready)')
        /\ shard'.retry_running = Cardinality(Retries(Leased)')
    BY DEF Tallies, Retries, RetriesOf
  <2>3. /\ shard'.completed = Cardinality({e \in Events : outcome'[e] = "COMMITTED"})
        /\ shard'.failed = Cardinality({e \in Events : outcome'[e] = "FAILED"})
    BY DEF Tallies
  <2> QED BY <2>1, <2>2, <2>3 DEF CountersMatch
<1>6. SequencesAreDistinct'
  BY DEF SequencesAreDistinct, Numbering
<1>7. UntriedUntilStarted'
  BY DEF UntriedUntilStarted, Numbering, Accounts
<1> QED BY <1>3, <1>4, <1>5, <1>6, <1>7 DEF AccountingInv

\* The counters say of a step what KeepsToLimits does.
LEMMA LimitsFromCounters ==
  ASSUME CountersMatch, CountersMatch', CountersKeepToLimits
  PROVE  KeepsToLimits
<1>1. /\ mailbox \cup InFlight = mailbox \cup ready \cup Leased
      /\ (mailbox \cup InFlight)' = mailbox' \cup ready' \cup Leased'
  BY DEF InFlight
<1>2. /\ shard.running = Cardinality(InFlight \ Retries(InFlight))
      /\ shard'.running = Cardinality(InFlight \ Retries(InFlight))'
      /\ shard.retry_running = Cardinality(Retries(Leased))
      /\ shard'.retry_running = Cardinality(Retries(Leased))'
  BY DEF CountersMatch
<1> QED BY <1>1, <1>2 DEF KeepsToLimits, CountersKeepToLimits

-----------------------------------------------------------------------------
(* One lemma per kind of step *)

\* A step that moves no event changes no account.
LEMMA KeptAccounting ==
  ASSUME TypeOK, TypeOK', AccountingInv,
         UNCHANGED <<shard, mailbox, ready, execution, outcome>>,
         Leased' = Leased, GrantsAreApart'
  PROVE  AccountingInv' /\ CountersKeepToLimits
<1>1. /\ Accounts(shard, mailbox, ready \cup Leased, execution)
      /\ Tallies(shard, ready, Leased, execution, outcome, mailbox)
      /\ Numbering(shard.next_sequence, execution, outcome)
  BY AccountingParts DEF InFlight
<1>2. /\ Accounts(shard', mailbox', ready' \cup Leased', execution')
      /\ Tallies(shard', ready', Leased', execution', outcome', mailbox')
      /\ Numbering(shard'.next_sequence, execution', outcome')
  BY <1>1
<1>3. CountersKeepToLimits
  <2>1. /\ shard.running \in Nat /\ shard.retry_running \in Nat
        /\ Cardinality(mailbox \cup ready \cup Leased) \in Nat
    <3>1. mailbox \cup ready \cup Leased \subseteq Events
      BY LeasedEvents DEF TypeOK
    <3> QED BY <3>1, SizeIsNat DEF TypeOK, ShardState
  <2> QED BY <2>1 DEF CountersKeepToLimits
<1> QED BY <1>2, <1>3, AccountingFromParts

\* The retries of two sets that share nothing.
LEMMA RetriesOfUnion ==
  ASSUME NEW exec, NEW E, E \subseteq Events, NEW D, D \subseteq Events, E \cap D = {}
  PROVE  /\ RetriesOf(E \cup D, exec) = RetriesOf(E, exec) \cup RetriesOf(D, exec)
         /\ Cardinality(RetriesOf(E \cup D, exec))
              = Cardinality(RetriesOf(E, exec)) + Cardinality(RetriesOf(D, exec))
         /\ Cardinality(RetriesOf(E, exec)) \in Nat
         /\ Cardinality(RetriesOf(D, exec)) \in Nat
<1>1. /\ RetriesOf(E \cup D, exec) = RetriesOf(E, exec) \cup RetriesOf(D, exec)
      /\ RetriesOf(E, exec) \subseteq Events
      /\ RetriesOf(D, exec) \subseteq Events
      /\ RetriesOf(E, exec) \cap RetriesOf(D, exec) = {}
  BY DEF RetriesOf
<1> QED BY <1>1, SizeOfUnion

\* A poll moves events from ready to a grant, retries within the free retry slots.
LEMMA PollAccounting ==
  ASSUME TypeOK, TypeOK', AccountingInv, NEW r \in Runtimes, Poll(r)
  PROVE  AccountingInv' /\ CountersKeepToLimits
<1>1. PICK candidates \in SUBSET ready :
        LET retries == Retries(candidates)
            slots == Minus(RetryConcurrency, shard.retry_running)
            admitted == (candidates \ retries) \cup First(slots, retries, execution)
            selected == First(BatchMaxSize, admitted, execution)
            selectedRetries == Cardinality(Retries(selected))
        IN
        /\ Owns(r)
        /\ ready' = ready \ selected
        /\ shard' = [shard EXCEPT
                       !.retry_pending = Minus(@, selectedRetries),
                       !.retry_running = @ + selectedRetries]
        /\ grants' = Append(grants, [epoch |-> owner.epoch, events |-> selected,
                                     expired |-> FALSE, status |-> "open"])
        /\ UNCHANGED <<ownershipVars, limits, mailbox, execution, outcome,
                       transitions, finalized>>
  BY DEF Poll
<1>2. PICK slots : slots = Minus(RetryConcurrency, shard.retry_running)
  OBVIOUS
<1>3. PICK first : first = First(slots, RetriesOf(candidates, execution), execution)
  OBVIOUS
<1>4. PICK selected :
        selected = First(BatchMaxSize,
                         (candidates \ RetriesOf(candidates, execution)) \cup first,
                         execution)
  OBVIOUS
<1>5. PICK n : n = Cardinality(RetriesOf(selected, execution))
  OBVIOUS
<1>6. PICK grant : grant = [epoch |-> owner.epoch, events |-> selected,
                            expired |-> FALSE, status |-> "open"]
  OBVIOUS
<1>7. /\ Owns(r)
      /\ ready' = ready \ selected
      /\ shard' = [shard EXCEPT !.retry_pending = Minus(@, n), !.retry_running = @ + n]
      /\ grants' = Append(grants, grant)
      /\ UNCHANGED <<mailbox, execution, outcome>>
  BY <1>1, <1>2, <1>3, <1>4, <1>5, <1>6 DEF Retries, RetriesOf
<1>8. /\ Accounts(shard, mailbox, InFlight, execution)
      /\ Tallies(shard, ready, Leased, execution, outcome, mailbox)
      /\ Numbering(shard.next_sequence, execution, outcome)
      /\ GrantsAreApart
  BY AccountingParts
<1>9. /\ selected \subseteq ready
      /\ RetriesOf(selected, execution) \subseteq first
      /\ first \subseteq ready
  BY <1>3, <1>4 DEF First, RetriesOf
<1>10. /\ ready \subseteq Events /\ Leased \subseteq Events /\ selected \subseteq Events
       /\ ready \cap Leased = {} /\ selected \cap Leased = {}
       /\ execution \in [Events -> Execution]
       /\ shard \in ShardState
       /\ grants \in Seq(Grant)
  BY <1>8, <1>9, LeasedEvents DEF Tallies, TypeOK
<1>11. Leased' = Leased \cup selected /\ GrantsAreApart'
  <2>1. owner.epoch \in Nat
    BY <1>7, MaxEpochAssumption
       DEF Owns, ActiveAt, Assigned, TypeOK, OwnershipTypeOK, Owner
  <2>2. grant \in Grant /\ grant.status = "open" /\ grant.events = selected
    BY <1>6, <1>10, <2>1 DEF Grant
  <2> QED BY <1>7, <1>8, <1>10, <2>2, GrantAdded
<1>12. /\ slots \in Nat
       /\ slots = 0 \/ shard.retry_running + slots <= RetryConcurrency
       /\ shard.retry_running \in Nat /\ RetryConcurrency \in Nat
  <2>1. shard.retry_running \in Nat /\ RetryConcurrency \in Nat
    BY <1>10, LimitsAreNumbers DEF ShardState
  <2> QED BY <1>2, <2>1 DEF Minus
<1>13. n \in Nat /\ n <= slots
  <2>1. \A e, d \in ready : execution[e].sequence = execution[d].sequence => e = d
    BY <1>8 DEF Accounts, InFlight
  <2>2. RetriesOf(candidates, execution) \subseteq ready
    BY DEF RetriesOf
  <2>3. Cardinality(first) <= slots
    BY <1>3, <1>10, <1>12, <2>1, <2>2, FirstBound
  <2>4. n <= Cardinality(first)
    BY <1>5, <1>9, <1>10, SizeOfSubset
  <2>5. n \in Nat /\ Cardinality(first) \in Nat
    BY <1>5, <1>9, <1>10, SizeIsNat
  <2> QED BY <1>12, <2>3, <2>4, <2>5
<1>14. /\ Cardinality(RetriesOf(ready \ selected, execution)) = shard.retry_pending - n
       /\ Cardinality(RetriesOf(Leased \cup selected, execution))
            = shard.retry_running + n
       /\ n <= shard.retry_pending
  <2>1. (ready \ selected) \cup selected = ready
    BY <1>9
  <2>2. Cardinality(RetriesOf(ready, execution))
          = Cardinality(RetriesOf(ready \ selected, execution)) + n
    <3>1. ready \ selected \subseteq Events /\ (ready \ selected) \cap selected = {}
      BY <1>10
    <3> QED BY <1>5, <1>10, <2>1, <3>1, RetriesOfUnion
  <2>3. Cardinality(RetriesOf(ready \ selected, execution)) \in Nat
    <3>1. RetriesOf(ready \ selected, execution) \subseteq Events
      BY <1>10 DEF RetriesOf
    <3> QED BY <3>1, SizeIsNat
  <2>4. Cardinality(RetriesOf(Leased \cup selected, execution))
          = Cardinality(RetriesOf(Leased, execution)) + n
    BY <1>5, <1>10, RetriesOfUnion
  <2>5. /\ shard.retry_pending = Cardinality(RetriesOf(ready, execution))
        /\ shard.retry_running = Cardinality(RetriesOf(Leased, execution))
    BY <1>8 DEF Tallies
  <2> QED BY <1>13, <2>2, <2>3, <2>4, <2>5
<1>15. /\ shard'.retry_pending = shard.retry_pending - n
       /\ shard'.retry_running = shard.retry_running + n
       /\ shard'.pending = shard.pending
       /\ shard'.running = shard.running
       /\ shard'.active_keys = shard.active_keys
       /\ shard'.completed = shard.completed
       /\ shard'.failed = shard.failed
       /\ shard'.next_sequence = shard.next_sequence
  <2>1. shard.retry_pending \in Nat
    BY <1>10 DEF ShardState
  <2>2. Minus(shard.retry_pending, n) = shard.retry_pending - n
    BY <1>13, <1>14, <2>1 DEF Minus
  <2> QED BY <1>7, <1>10, <2>2 DEF ShardState
<1>16. ready' \cup Leased' = InFlight
  BY <1>7, <1>9, <1>11 DEF InFlight
<1>17. Accounts(shard', mailbox', ready' \cup Leased', execution')
  BY <1>7, <1>8, <1>15, <1>16, AccountsReads
<1>18. Tallies(shard', ready', Leased', execution', outcome', mailbox')
  <2>1. mailbox' \cup ready' \cup Leased' = mailbox \cup ready \cup Leased
    BY <1>7, <1>16 DEF InFlight
  <2>2. ready' \cap Leased' = {}
    BY <1>7, <1>10, <1>11
  <2>3. /\ shard'.retry_pending = Cardinality(RetriesOf(ready', execution'))
        /\ shard'.retry_running = Cardinality(RetriesOf(Leased', execution'))
    BY <1>7, <1>11, <1>14, <1>15
  <2> QED BY <1>7, <1>8, <1>15, <2>1, <2>2, <2>3 DEF Tallies
<1>19. Numbering(shard'.next_sequence, execution', outcome')
  BY <1>7, <1>8, <1>15
<1>20. CountersKeepToLimits
  <2>1. ~(Cardinality(mailbox' \cup ready' \cup Leased')
            > Cardinality(mailbox \cup ready \cup Leased))
    <3>1. PICK held : held = mailbox \cup ready \cup Leased
      OBVIOUS
    <3>2. mailbox' \cup ready' \cup Leased' = held
      BY <3>1, <1>7, <1>16 DEF InFlight
    <3>3. held \subseteq Events
      BY <3>1, <1>10 DEF TypeOK
    <3>4. Cardinality(held) \in Nat
      BY <3>3, SizeIsNat
    <3>5. ~(Cardinality(held) > Cardinality(held))
      BY <3>4
    <3> QED BY <3>1, <3>2, <3>5, Zenon
  <2>2. shard.running \in Nat /\ shard.retry_running \in Nat
    BY <1>10 DEF ShardState
  <2>3. shard'.retry_running > shard.retry_running
          => shard'.retry_running <= RetryConcurrency
    BY <1>12, <1>13, <1>15
  <2> QED BY <1>15, <2>1, <2>2, <2>3 DEF CountersKeepToLimits
<1> QED BY <1>11, <1>17, <1>18, <1>19, <1>20, AccountingFromParts

\* A transfer moves what was leased back to ready, and its retries with it.
LEMMA ReturnAccounting ==
  ASSUME TypeOK, TypeOK', AccountingInv, NEW r \in Runtimes, ReturnGrants(r)
  PROVE  AccountingInv' /\ CountersKeepToLimits
<1>1. PICK n : n = Cardinality(RetriesOf(Leased, execution))
  OBVIOUS
<1>2. /\ ready' = ready \cup Leased
      /\ shard' = [shard EXCEPT !.retry_running = Minus(@, n), !.retry_pending = @ + n]
      /\ grants' = [g \in 1..Len(grants) |->
                      IF g \in Open THEN [grants[g] EXCEPT !.status = "revoked",
                                                           !.expired = FALSE]
                      ELSE grants[g]]
      /\ UNCHANGED <<mailbox, execution, outcome>>
  BY <1>1 DEF ReturnGrants, Retries, RetriesOf, InFlight
<1>3. /\ Accounts(shard, mailbox, ready \cup Leased, execution)
      /\ Tallies(shard, ready, Leased, execution, outcome, mailbox)
      /\ Numbering(shard.next_sequence, execution, outcome)
  BY AccountingParts DEF InFlight
<1>4. Leased' = {} /\ GrantsAreApart'
  BY <1>2, GrantsReturned DEF TypeOK
<1>5. /\ ready \subseteq Events /\ Leased \subseteq Events /\ ready \cap Leased = {}
      /\ shard \in ShardState
  BY <1>3, LeasedEvents DEF Tallies, TypeOK
<1>6. /\ n = shard.retry_running
      /\ n \in Nat
      /\ Cardinality(RetriesOf(ready \cup Leased, execution)) = shard.retry_pending + n
  <2>1. /\ shard.retry_pending = Cardinality(RetriesOf(ready, execution))
        /\ shard.retry_running = n
    BY <1>1, <1>3 DEF Tallies
  <2>2. /\ Cardinality(RetriesOf(ready \cup Leased, execution))
             = Cardinality(RetriesOf(ready, execution)) + n
        /\ n \in Nat
    BY <1>1, <1>5, RetriesOfUnion
  <2> QED BY <2>1, <2>2
<1>7. /\ shard'.retry_pending = shard.retry_pending + n
      /\ shard'.retry_running = 0
      /\ shard'.pending = shard.pending
      /\ shard'.running = shard.running
      /\ shard'.active_keys = shard.active_keys
      /\ shard'.completed = shard.completed
      /\ shard'.failed = shard.failed
      /\ shard'.next_sequence = shard.next_sequence
  <2>1. Minus(shard.retry_running, n) = 0
    BY <1>6 DEF Minus
  <2> QED BY <1>2, <1>5, <2>1 DEF ShardState
<1>8. Accounts(shard', mailbox', ready' \cup Leased', execution')
  <2>1. ready' \cup Leased' = ready \cup Leased
    BY <1>2, <1>4
  <2> QED BY <1>2, <1>3, <1>7, <2>1, AccountsReads
<1>9. Tallies(shard', ready', Leased', execution', outcome', mailbox')
  <2>1. /\ mailbox' \cup ready' \cup Leased' = mailbox \cup ready \cup Leased
        /\ ready' \cap Leased' = {}
    BY <1>2, <1>4
  <2>2. Cardinality(RetriesOf(Leased', execution')) = 0
    <3>1. RetriesOf(Leased', execution') = {}
      BY <1>4 DEF RetriesOf
    <3> QED BY <3>1, FS_EmptySet
  <2>3. shard'.retry_pending = Cardinality(RetriesOf(ready', execution'))
    BY <1>2, <1>6, <1>7
  <2> QED BY <1>2, <1>3, <1>7, <2>1, <2>2, <2>3 DEF Tallies
<1>10. Numbering(shard'.next_sequence, execution', outcome')
  BY <1>2, <1>3, <1>7
<1>11. CountersKeepToLimits
  <2>1. ~(Cardinality(mailbox' \cup ready' \cup Leased')
            > Cardinality(mailbox \cup ready \cup Leased))
    <3>1. PICK held : held = mailbox \cup ready \cup Leased
      OBVIOUS
    <3>2. mailbox' \cup ready' \cup Leased' = held
      BY <3>1, <1>2, <1>4
    <3>3. held \subseteq Events
      BY <3>1, <1>5 DEF TypeOK
    <3>4. Cardinality(held) \in Nat
      BY <3>3, SizeIsNat
    <3>5. ~(Cardinality(held) > Cardinality(held))
      BY <3>4
    <3> QED BY <3>1, <3>2, <3>5, Zenon
  <2>2. shard.running \in Nat /\ shard.retry_running \in Nat
    BY <1>5 DEF ShardState
  <2> QED BY <1>7, <2>1, <2>2 DEF CountersKeepToLimits
<1> QED BY <1>4, <1>8, <1>9, <1>10, <1>11, AccountingFromParts

\* The result of a grant, its lease closed: successes and quarantined events
\* leave, the other failures become retries, and dispatch fills the free slots.
LEMMA SettleAccounting ==
  ASSUME TypeOK, TypeOK', AccountingInv,
         NEW g \in Open, NEW succeeded \in SUBSET grants[g].events,
         Settle(g, succeeded),
         Leased' = Leased \ grants[g].events,
         grants[g].events \subseteq Leased,
         GrantsAreApart'
  PROVE  AccountingInv' /\ CountersKeepToLimits
<1>1. PICK held : held = grants[g].events
  OBVIOUS
<1>2. PICK failures : failures = held \ succeeded
  OBVIOUS
<1>3. PICK quarantined :
        quarantined = {e \in failures : execution[e].attempt + 1 >= MaxAttempts}
  OBVIOUS
<1>4. PICK retried : retried = failures \ quarantined
  OBVIOUS
<1>5. PICK gone : gone = succeeded \cup quarantined
  OBVIOUS
<1>6. PICK isolated : isolated = Cardinality(RetriesOf(held, execution))
  OBVIOUS
<1>7. PICK running : running = Minus(shard.running, Cardinality(held) - isolated)
  OBVIOUS
<1>8. PICK retryRunning : retryRunning = Minus(shard.retry_running, isolated)
  OBVIOUS
<1>9. PICK retryPending : retryPending = shard.retry_pending + Cardinality(retried)
  OBVIOUS
<1>10. PICK completed : completed = shard.completed + Cardinality(succeeded)
  OBVIOUS
<1>11. PICK failed : failed = shard.failed + Cardinality(quarantined)
  OBVIOUS
<1>12. PICK active : active = shard.active_keys \ KeysOf(gone)
  OBVIOUS
<1>13. PICK settled :
         settled = [shard EXCEPT
                      !.running = running, !.retry_running = retryRunning,
                      !.retry_pending = retryPending, !.completed = completed,
                      !.failed = failed, !.active_keys = active]
  OBVIOUS
<1>14. PICK exec :
         exec = [e \in Events |->
                   IF e \in failures
                   THEN [execution[e] EXCEPT !.attempt = @ + 1] ELSE execution[e]]
  OBVIOUS
<1>15. PICK started : started = Dispatchable(settled, mailbox, exec)
  OBVIOUS
<1>16. /\ outcome' = [e \in Events |->
                        CASE e \in succeeded   -> "COMMITTED"
                          [] e \in quarantined -> "FAILED"
                          [] OTHER             -> outcome[e]]
       /\ shard' = WithStarted(settled, started)
       /\ mailbox' = mailbox \ started
       /\ ready' = ready \cup retried \cup started
       /\ \E trans : execution' = WithPrior(exec, started, trans)
  BY <1>1, <1>2, <1>3, <1>4, <1>5, <1>6, <1>7, <1>8, <1>9, <1>10, <1>11, <1>12,
     <1>13, <1>14, <1>15 DEF Settle, DispatchAfter, Retries, RetriesOf
<1>17. /\ Accounts(shard, mailbox, ready \cup Leased, execution)
       /\ Tallies(shard, ready, Leased, execution, outcome, mailbox)
       /\ Numbering(shard.next_sequence, execution, outcome)
  BY AccountingParts DEF InFlight
<1>18. /\ shard \in ShardState /\ execution \in [Events -> Execution]
       /\ mailbox \subseteq Events /\ ready \subseteq Events /\ Leased \subseteq Events
       /\ mailbox \cap (ready \cup Leased) = {} /\ ready \cap Leased = {}
  BY <1>17, LeasedEvents DEF TypeOK, Accounts, Tallies
<1>19. /\ held \subseteq Leased
       /\ succeeded \subseteq held /\ failures \subseteq held
       /\ quarantined \subseteq failures /\ retried \subseteq failures
       /\ gone \subseteq held
       /\ succeeded \cap quarantined = {}
       /\ held \ gone = retried
  BY <1>1, <1>2, <1>3, <1>4, <1>5
<1>20. \A e \in Events :
         /\ exec[e].sequence = execution[e].sequence
         /\ exec[e].attempt = IF e \in failures THEN execution[e].attempt + 1
                              ELSE execution[e].attempt
         /\ exec[e] \in Execution
         /\ execution[e].attempt \in Nat
  <2> SUFFICES ASSUME NEW e \in Events
               PROVE  /\ exec[e].sequence = execution[e].sequence
                      /\ exec[e].attempt = IF e \in failures
                                           THEN execution[e].attempt + 1
                                           ELSE execution[e].attempt
                      /\ exec[e] \in Execution
                      /\ execution[e].attempt \in Nat
    OBVIOUS
  <2>1. execution[e] \in Execution /\ execution[e].attempt \in Nat
    BY <1>18 DEF Execution
  <2>2. PICK attempt : attempt = execution[e].attempt + 1
    OBVIOUS
  <2>3. attempt \in Nat
    BY <2>1, <2>2
  <2>4. exec[e] = IF e \in failures THEN [execution[e] EXCEPT !.attempt = attempt]
                  ELSE execution[e]
    BY <1>14, <2>2
  <2> QED BY <2>1, <2>2, <2>3, <2>4 DEF Execution
<1>21. exec \in [Events -> Execution]
  BY <1>14, <1>20
<1>22. /\ isolated \in Nat
       /\ Cardinality(held) - isolated = Cardinality(Untried(held, execution))
       /\ Cardinality(held) - isolated \in Nat
  <2>1. held \subseteq Events
    BY <1>18, <1>19
  <2>2. /\ Untried(held, execution) = held \ RetriesOf(held, execution)
        /\ RetriesOf(held, execution) \subseteq held
    BY <1>18, <2>1, RetriesAndUntried
  <2>3. /\ Cardinality(Untried(held, execution)) = Cardinality(held) - isolated
        /\ isolated \in Nat
    BY <1>6, <2>1, <2>2, SizeOfDifference
  <2>4. Cardinality(Untried(held, execution)) \in Nat
    <3>1. Untried(held, execution) \subseteq Events
      BY <2>1 DEF Untried
    <3> QED BY <3>1, SizeIsNat
  <2> QED BY <2>3, <2>4
<1>23. /\ running = Cardinality(Untried((ready \cup Leased) \ gone, exec))
       /\ running \in Nat
       /\ running <= shard.running
       /\ shard.running \in Nat
  <2>1. Untried((ready \cup Leased) \ gone, exec)
          = Untried(ready \cup Leased, execution) \ Untried(held, execution)
    <3> SUFFICES ASSUME NEW e \in ready \cup Leased
                 PROVE  e \notin gone /\ exec[e].attempt = 0
                          <=> execution[e].attempt = 0 /\ ~(e \in held /\ execution[e].attempt = 0)
      BY <1>19 DEF Untried
    <3>1. e \in Events
      BY <1>18
    <3>2. CASE e \in failures
      BY <1>19, <1>20, <3>1, <3>2
    <3>3. CASE e \in succeeded
      BY <1>5, <1>19, <3>3
    <3>4. CASE e \notin held
      BY <1>19, <1>20, <3>1, <3>4
    <3> QED BY <1>2, <3>2, <3>3, <3>4
  <2>2. /\ Untried(held, execution) \subseteq Untried(ready \cup Leased, execution)
        /\ Untried(ready \cup Leased, execution) \subseteq Events
    BY <1>18, <1>19 DEF Untried
  <2>3. /\ Cardinality(Untried((ready \cup Leased) \ gone, exec))
             = shard.running - Cardinality(Untried(held, execution))
        /\ Cardinality(Untried(held, execution)) <= shard.running
        /\ Cardinality(Untried(held, execution)) \in Nat
        /\ shard.running \in Nat
    <3>1. PICK untried : untried = Untried(ready \cup Leased, execution)
      OBVIOUS
    <3>2. PICK returned : returned = Untried(held, execution)
      OBVIOUS
    <3>3. /\ Cardinality(untried \ returned)
               = Cardinality(untried) - Cardinality(returned)
          /\ Cardinality(returned) <= Cardinality(untried)
          /\ Cardinality(returned) \in Nat
          /\ Cardinality(untried) \in Nat
      BY <2>2, <3>1, <3>2, SizeOfDifference
    <3>4. shard.running = Cardinality(untried)
      BY <1>17, <3>1 DEF Accounts
    <3> QED BY <2>1, <3>1, <3>2, <3>3, <3>4
  <2> QED BY <1>7, <1>22, <2>3 DEF Minus
<1>24. /\ active = KeysOf((ready \cup Leased) \ gone)
       /\ active \subseteq ProcessKeys
       /\ \A e, d \in (ready \cup Leased) \ gone : KeyOf[e] = KeyOf[d] => e = d
  <2>1. /\ shard.active_keys = KeysOf(ready \cup Leased)
        /\ \A e, d \in ready \cup Leased : KeyOf[e] = KeyOf[d] => e = d
    BY <1>17 DEF Accounts
  <2>2. gone \subseteq ready \cup Leased
    BY <1>19
  <2>3. KeysOf(ready \cup Leased) \ KeysOf(gone) = KeysOf((ready \cup Leased) \ gone)
    BY <2>1, <2>2 DEF KeysOf
  <2> QED BY <1>12, <1>18, <2>1, <2>3 DEF KeysOf, ProcessKeys
<1>25. /\ retryRunning = Cardinality(RetriesOf(Leased \ held, execution))
       /\ retryRunning \in Nat
       /\ retryRunning <= shard.retry_running
       /\ shard.retry_running \in Nat
  <2>1. /\ (Leased \ held) \cup held = Leased
        /\ (Leased \ held) \cap held = {}
        /\ Leased \ held \subseteq Events /\ held \subseteq Events
    BY <1>18, <1>19
  <2>2. /\ Cardinality(RetriesOf((Leased \ held) \cup held, execution))
             = Cardinality(RetriesOf(Leased \ held, execution)) + isolated
        /\ Cardinality(RetriesOf(Leased \ held, execution)) \in Nat
    <3>1. PICK kept : kept = Leased \ held
      OBVIOUS
    <3>2. kept \subseteq Events /\ held \subseteq Events /\ kept \cap held = {}
      BY <2>1, <3>1
    <3>3. /\ Cardinality(RetriesOf(kept \cup held, execution))
               = Cardinality(RetriesOf(kept, execution)) + isolated
          /\ Cardinality(RetriesOf(kept, execution)) \in Nat
      BY <1>6, <3>2, RetriesOfUnion
    <3> QED BY <3>1, <3>3
  <2>3. /\ shard.retry_running
             = Cardinality(RetriesOf((Leased \ held) \cup held, execution))
    BY <1>17, <2>1 DEF Tallies
  <2> QED BY <1>8, <1>22, <2>2, <2>3 DEF Minus
<1>26. /\ retryPending = Cardinality(RetriesOf(ready, execution) \cup retried)
       /\ retryPending \in Nat
  <2>1. /\ RetriesOf(ready, execution) \subseteq Events
        /\ retried \subseteq Events
        /\ RetriesOf(ready, execution) \cap retried = {}
    BY <1>18, <1>19 DEF RetriesOf
  <2>2. /\ Cardinality(RetriesOf(ready, execution) \cup retried)
             = Cardinality(RetriesOf(ready, execution)) + Cardinality(retried)
        /\ Cardinality(RetriesOf(ready, execution)) \in Nat
        /\ Cardinality(retried) \in Nat
    BY <2>1, SizeOfUnion
  <2>3. shard.retry_pending = Cardinality(RetriesOf(ready, execution))
    BY <1>17 DEF Tallies
  <2> QED BY <1>9, <2>2, <2>3
<1>27. \A e \in held : outcome[e] = "PENDING"
  <2>1. {e \in Events : outcome[e] = "PENDING"} = mailbox \cup ready \cup Leased
    BY <1>17 DEF Tallies
  <2>2. held \subseteq {e \in Events : outcome[e] = "PENDING"}
    BY <1>19, <2>1
  <2> QED BY <2>2
<1>28. /\ completed = Cardinality({e \in Events : outcome'[e] = "COMMITTED"})
       /\ completed \in Nat
  <2>1. PICK done : done = {e \in Events : outcome[e] = "COMMITTED"}
    OBVIOUS
  <2>2. {e \in Events : outcome'[e] = "COMMITTED"} = done \cup succeeded
    <3> SUFFICES ASSUME NEW e \in Events
                 PROVE  outcome'[e] = "COMMITTED"
                          <=> outcome[e] = "COMMITTED" \/ e \in succeeded
      BY <2>1, <1>18, <1>19
    <3>1. CASE e \in succeeded
      BY <1>16, <1>19, <3>1
    <3>2. CASE e \in quarantined
      BY <1>16, <1>19, <1>27, <3>2
    <3>3. CASE e \notin succeeded /\ e \notin quarantined
      BY <1>16, <3>3
    <3> QED BY <3>1, <3>2, <3>3
  <2>3. /\ done \subseteq Events /\ succeeded \subseteq Events
        /\ done \cap succeeded = {}
    BY <1>18, <1>19, <1>27, <2>1
  <2>4. shard.completed = Cardinality(done)
    BY <1>17, <2>1 DEF Tallies
  <2>5. /\ Cardinality(done \cup succeeded) = shard.completed + Cardinality(succeeded)
        /\ shard.completed \in Nat
        /\ Cardinality(succeeded) \in Nat
    BY <2>3, <2>4, SizeOfUnion
  <2>6. completed = Cardinality(done \cup succeeded) /\ completed \in Nat
    BY <1>10, <2>5
  <2> QED BY <2>2, <2>6
<1>29. /\ failed = Cardinality({e \in Events : outcome'[e] = "FAILED"})
       /\ failed \in Nat
  <2>1. PICK done : done = {e \in Events : outcome[e] = "FAILED"}
    OBVIOUS
  <2>2. {e \in Events : outcome'[e] = "FAILED"} = done \cup quarantined
    <3> SUFFICES ASSUME NEW e \in Events
                 PROVE  outcome'[e] = "FAILED"
                          <=> outcome[e] = "FAILED" \/ e \in quarantined
      BY <2>1, <1>18, <1>19
    <3>1. CASE e \in succeeded
      BY <1>16, <1>19, <1>27, <3>1
    <3>2. CASE e \in quarantined
      BY <1>16, <1>19, <3>2
    <3>3. CASE e \notin succeeded /\ e \notin quarantined
      BY <1>16, <3>3
    <3> QED BY <3>1, <3>2, <3>3
  <2>3. /\ done \subseteq Events /\ quarantined \subseteq Events
        /\ done \cap quarantined = {}
    BY <1>18, <1>19, <1>27, <2>1
  <2>4. shard.failed = Cardinality(done)
    BY <1>17, <2>1 DEF Tallies
  <2>5. /\ Cardinality(done \cup quarantined) = shard.failed + Cardinality(quarantined)
        /\ shard.failed \in Nat
        /\ Cardinality(quarantined) \in Nat
    BY <2>3, <2>4, SizeOfUnion
  <2>6. failed = Cardinality(done \cup quarantined) /\ failed \in Nat
    BY <1>11, <2>5
  <2> QED BY <2>2, <2>6
<1>30. /\ settled \in ShardState
       /\ settled.pending = shard.pending
       /\ settled.running = running
       /\ settled.active_keys = active
       /\ settled.retry_running = retryRunning
       /\ settled.retry_pending = retryPending
       /\ settled.completed = completed
       /\ settled.failed = failed
       /\ settled.next_sequence = shard.next_sequence
  <2>1. /\ running \in Nat /\ retryRunning \in Nat /\ retryPending \in Nat
        /\ completed \in Nat /\ failed \in Nat /\ active \in SUBSET ProcessKeys
    BY <1>23, <1>24, <1>25, <1>26, <1>28, <1>29
  <2> QED BY <1>13, <1>18, <2>1 DEF ShardState
<1>31. Accounts(settled, mailbox, (ready \cup Leased) \ gone, exec)
  <2>1. \A e \in mailbox : exec[e].attempt = 0
    <3>1. \A e \in mailbox : e \in Events /\ e \notin failures
      BY <1>18, <1>19
    <3> QED BY <1>17, <1>20, <3>1 DEF Accounts
  <2>2. \A e, d \in mailbox \cup ((ready \cup Leased) \ gone) :
          exec[e].sequence = exec[d].sequence => e = d
    <3>1. \A e, d \in mailbox \cup (ready \cup Leased) :
            execution[e].sequence = execution[d].sequence => e = d
      BY <1>17 DEF Accounts
    <3> QED BY <1>18, <1>20, <3>1
  <2>3. settled.pending = Cardinality(mailbox)
    BY <1>17, <1>30 DEF Accounts
  <2>4. /\ mailbox \subseteq Events
        /\ (ready \cup Leased) \ gone \subseteq Events
        /\ mailbox \cap ((ready \cup Leased) \ gone) = {}
    BY <1>18
  <2> QED BY <1>23, <1>24, <1>30, <2>1, <2>2, <2>3, <2>4 DEF Accounts
<1>32. /\ started \subseteq mailbox
       /\ Accounts(WithStarted(settled, started), mailbox \ started,
                   ((ready \cup Leased) \ gone) \cup started, exec)
  BY <1>15, <1>21, <1>30, <1>31, Dispatching
<1>33. \A e \in Events : /\ execution'[e].attempt = exec[e].attempt
                         /\ execution'[e].sequence = exec[e].sequence
  BY <1>16, <1>20 DEF WithPrior, Execution
<1>34. ready' \cup Leased' = ((ready \cup Leased) \ gone) \cup started
  BY <1>1, <1>16, <1>18, <1>19
<1>35. Accounts(shard', mailbox', ready' \cup Leased', execution')
  <2>1. Accounts(shard', mailbox', ready' \cup Leased', exec)
    BY <1>16, <1>32, <1>34
  <2>2. mailbox' \cup (ready' \cup Leased') \subseteq Events
    BY <2>1 DEF Accounts
  <2>3. \A e \in mailbox' \cup (ready' \cup Leased') :
          /\ execution'[e].attempt = exec[e].attempt
          /\ execution'[e].sequence = exec[e].sequence
    BY <1>33, <2>2
  <2> QED BY <2>1, <2>3, AccountsReads
<1>36. /\ shard'.retry_pending = retryPending
       /\ shard'.retry_running = retryRunning
       /\ shard'.completed = completed
       /\ shard'.failed = failed
       /\ shard'.next_sequence = shard.next_sequence
  BY <1>16, <1>30, WithStartedFields
<1>37. Tallies(shard', ready', Leased', execution', outcome', mailbox')
  <2>1. {e \in Events : outcome'[e] = "PENDING"} = mailbox' \cup ready' \cup Leased'
    <3>1. {e \in Events : outcome[e] = "PENDING"} = mailbox \cup ready \cup Leased
      BY <1>17 DEF Tallies
    <3>2. {e \in Events : outcome'[e] = "PENDING"}
            = {e \in Events : outcome[e] = "PENDING"} \ gone
      <4> SUFFICES ASSUME NEW e \in Events
                   PROVE  outcome'[e] = "PENDING"
                            <=> outcome[e] = "PENDING" /\ e \notin gone
        OBVIOUS
      <4> QED BY <1>5, <1>16
    <3>3. mailbox \cap gone = {}
      BY <1>18, <1>19
    <3> QED BY <1>16, <1>32, <1>34, <3>1, <3>2, <3>3
  <2>2. ready' \cap Leased' = {}
    BY <1>1, <1>16, <1>18, <1>19, <1>32
  <2>3. RetriesOf(ready', execution') = RetriesOf(ready, execution) \cup retried
    <3> SUFFICES ASSUME NEW e \in Events
                 PROVE  e \in ready' /\ execution'[e].attempt > 0
                          <=> (e \in ready /\ execution[e].attempt > 0) \/ e \in retried
      BY <1>16, <1>18, <1>19, <1>32 DEF RetriesOf
    <3>1. CASE e \in retried
      BY <1>16, <1>19, <1>20, <1>33, <3>1
    <3>2. CASE e \in ready
      <4>1. e \in ready' /\ e \notin failures /\ e \notin retried
        BY <1>16, <1>18, <1>19, <3>2
      <4>2. execution'[e].attempt = execution[e].attempt
        BY <1>20, <1>33, <4>1
      <4> QED BY <3>2, <4>1, <4>2
    <3>3. CASE e \in started
      <4>1. execution'[e].attempt = 0 /\ e \notin ready /\ e \notin retried
        BY <1>18, <1>19, <1>31, <1>32, <1>33, <3>3 DEF Accounts
      <4> QED BY <4>1
    <3> QED BY <1>16, <3>1, <3>2, <3>3
  <2>4. RetriesOf(Leased', execution') = RetriesOf(Leased \ held, execution)
    <3>1. \A e \in Leased \ held : execution'[e].attempt = execution[e].attempt
      BY <1>18, <1>19, <1>20, <1>33
    <3> QED BY <1>1, <3>1 DEF RetriesOf
  <2>5. /\ shard'.retry_pending = Cardinality(RetriesOf(ready', execution'))
        /\ shard'.retry_running = Cardinality(RetriesOf(Leased', execution'))
    BY <1>25, <1>26, <1>36, <2>3, <2>4
  <2>6. /\ shard'.completed = Cardinality({e \in Events : outcome'[e] = "COMMITTED"})
        /\ shard'.failed = Cardinality({e \in Events : outcome'[e] = "FAILED"})
    BY <1>28, <1>29, <1>36
  <2> QED BY <2>1, <2>2, <2>5, <2>6 DEF Tallies
<1>38. Numbering(shard'.next_sequence, execution', outcome')
  <2>1. \A e \in Events : execution'[e].sequence = execution[e].sequence
    BY <1>20, <1>33
  <2>2. \A e \in Events : outcome'[e] = "none" <=> outcome[e] = "none"
    <3> SUFFICES ASSUME NEW e \in Events
                 PROVE  outcome'[e] = "none" <=> outcome[e] = "none"
      OBVIOUS
    <3>1. CASE e \in succeeded \/ e \in quarantined
      BY <1>16, <1>19, <1>27, <3>1
    <3>2. CASE e \notin succeeded /\ e \notin quarantined
      BY <1>16, <3>2
    <3> QED BY <3>1, <3>2
  <2>3. \A e \in Events : outcome[e] = "none" => execution'[e].attempt = 0
    <3> SUFFICES ASSUME NEW e \in Events, outcome[e] = "none"
                 PROVE  execution'[e].attempt = 0
      OBVIOUS
    <3>1. e \notin failures
      BY <1>19, <1>27
    <3> QED BY <1>17, <1>20, <1>33, <3>1 DEF Numbering
  <2> QED BY <1>17, <1>36, <2>1, <2>2, <2>3 DEF Numbering
<1>39. CountersKeepToLimits
  <2>1. /\ Cardinality(mailbox' \cup ready' \cup Leased')
             <= Cardinality(mailbox \cup ready \cup Leased)
        /\ Cardinality(mailbox' \cup ready' \cup Leased') \in Nat
        /\ Cardinality(mailbox \cup ready \cup Leased) \in Nat
    <3>1. mailbox' \cup ready' \cup Leased' \subseteq mailbox \cup ready \cup Leased
      BY <1>16, <1>32, <1>34
    <3>2. mailbox \cup ready \cup Leased \subseteq Events
      BY <1>18
    <3> QED BY <3>1, <3>2, SizeOfSubset, SizeIsNat
  <2>2. shard'.running = running + Cardinality(started)
    BY <1>16, <1>30, WithStartedFields
  <2>3. started = {} \/ running + Cardinality(started) <= Concurrency
    <3>1. PICK window : window = First(Concurrency, mailbox, exec)
      OBVIOUS
    <3>2. window \subseteq mailbox /\ window \subseteq Events
      BY <1>18, <3>1 DEF First
    <3>3. started = Startable(settled, window, exec)
      BY <1>15, <3>1 DEF Dispatchable
    <3>4. \A e, d \in window : exec[e].sequence = exec[d].sequence => e = d
      BY <1>31, <3>2 DEF Accounts
    <3> QED BY <1>21, <1>30, <3>2, <3>3, <3>4, StartsInFreeSlots
  <2>4. started = {} => Cardinality(started) = 0
    BY FS_EmptySet
  <2>5. shard'.running > shard.running => shard'.running <= Concurrency
    BY <1>23, <2>2, <2>3, <2>4
  <2>6. shard'.retry_running <= shard.retry_running
    BY <1>25, <1>36
  <2> QED BY <1>25, <1>36, <2>1, <2>5, <2>6 DEF CountersKeepToLimits
<1> QED BY <1>35, <1>37, <1>38, <1>39, AccountingFromParts

\* Admission gives new events sequences of their own, past those of the others.
LEMMA NumberedSequences ==
  ASSUME TypeOK, NEW batch \in IngressBatches
  PROVE  LET events == NewEvents(batch)
             exec == Numbered(batch)
         IN
         /\ \A e \in events :
              /\ exec[e].sequence > shard.next_sequence
              /\ exec[e].sequence <= shard.next_sequence + Cardinality(events)
         /\ \A e, d \in events : exec[e].sequence = exec[d].sequence => e = d
         /\ \A e \in Events : /\ exec[e].attempt = execution[e].attempt
                              /\ exec[e].prior = execution[e].prior
         /\ \A e \in Events \ events : exec[e] = execution[e]
<1>1. PICK events : events = NewEvents(batch)
  OBVIOUS
<1>2. PICK place : place = [e \in Events |-> CHOOSE i \in 1..Len(batch) : batch[i] = e]
  OBVIOUS
<1>3. PICK rank : rank = [e \in Events |->
                            Cardinality({d \in events : place[d] <= place[e]})]
  OBVIOUS
<1>4. PICK next : next = shard.next_sequence
  OBVIOUS
<1>5. PICK exec : exec = Numbered(batch)
  OBVIOUS
<1>6. events \subseteq Events
  BY <1>1 DEF NewEvents
<1>7. exec = [e \in Events |->
                IF e \in events
                THEN [execution[e] EXCEPT !.sequence = next + rank[e]]
                ELSE execution[e]]
  <2> DEFINE spot(e) == CHOOSE i \in 1..Len(batch) : batch[i] = e
             level(e) == Cardinality({d \in events : spot(d) <= spot(e)})
  <2>1. exec = [e \in Events |->
                  IF e \in events
                  THEN [execution[e] EXCEPT !.sequence = next + level(e)]
                  ELSE execution[e]]
    BY <1>1, <1>4, <1>5 DEF Numbered
  <2>2. \A e \in Events : place[e] = spot(e)
    BY <1>2
  <2> HIDE DEF spot
  <2>3. \A e \in Events : rank[e] = level(e)
    <3> SUFFICES ASSUME NEW e \in Events PROVE rank[e] = level(e)
      OBVIOUS
    <3>1. {d \in events : place[d] <= place[e]} = {d \in events : spot(d) <= spot(e)}
      BY <2>2, <1>6
    <3> QED BY <3>1, <1>3
  <2> HIDE DEF level
  <2> QED BY <2>1, <2>3
<1>8. \A e \in events : place[e] \in Nat /\ batch[place[e]] = e
  <2>1. Len(batch) \in Nat
    <3>1. PICK n \in 1..MaxIngress : batch \in [1..n -> Events]
      BY DEF IngressBatches
    <3>2. n \in Nat
      BY BoundsAssumption
    <3> QED BY <3>1, <3>2, LengthOfFunction
  <2> SUFFICES ASSUME NEW e \in events
               PROVE  place[e] \in Nat /\ batch[place[e]] = e
    OBVIOUS
  <2>2. \E i \in 1..Len(batch) : batch[i] = e
    BY <1>1 DEF NewEvents
  <2>3. place[e] \in 1..Len(batch) /\ batch[place[e]] = e
    BY <1>2, <1>6, <2>2
  <2> QED BY <2>1, <2>3
<1>9. \A e \in events : rank[e] \in Nat /\ rank[e] > 0 /\ rank[e] <= Cardinality(events)
  <2> SUFFICES ASSUME NEW e \in events
               PROVE  rank[e] \in Nat /\ rank[e] > 0 /\ rank[e] <= Cardinality(events)
    OBVIOUS
  <2>1. PICK upto : upto = {d \in events : place[d] <= place[e]}
    OBVIOUS
  <2>2. rank[e] = Cardinality(upto)
    BY <1>3, <1>6, <2>1
  <2>3. upto \subseteq events /\ e \in upto
    BY <1>8, <2>1
  <2>4. IsFiniteSet(upto) /\ Cardinality(upto) \in Nat
    BY <1>6, <2>3, EventsAreFinite, SizeIsNat
  <2>5. Cardinality(upto) # 0
    BY <2>3, <2>4, FS_EmptySet
  <2>6. Cardinality(upto) <= Cardinality(events)
    BY <1>6, <2>3, SizeOfSubset
  <2> QED BY <2>2, <2>4, <2>5, <2>6
<1>10. \A e, d \in events : place[e] < place[d] => rank[e] < rank[d]
  <2> SUFFICES ASSUME NEW e \in events, NEW d \in events, place[e] < place[d]
               PROVE  rank[e] < rank[d]
    OBVIOUS
  <2>1. PICK low : low = {x \in events : place[x] <= place[e]}
    OBVIOUS
  <2>2. PICK high : high = {x \in events : place[x] <= place[d]}
    OBVIOUS
  <2>3. low \subseteq high
    BY <1>8, <2>1, <2>2
  <2>4. d \in high /\ d \notin low /\ high \subseteq Events
    BY <1>6, <1>8, <2>1, <2>2
  <2>5. Cardinality(low) < Cardinality(high)
    BY <2>3, <2>4, SizeOfSubset
  <2> QED BY <1>3, <1>6, <2>1, <2>2, <2>5
<1>11. \A e, d \in events : rank[e] = rank[d] => e = d
  <2> SUFFICES ASSUME NEW e \in events, NEW d \in events, rank[e] = rank[d]
               PROVE  e = d
    OBVIOUS
  <2>1. rank[e] \in Nat
    BY <1>9
  <2>2. ~(place[e] < place[d]) /\ ~(place[d] < place[e])
    BY <1>10, <2>1
  <2>3. place[e] = place[d]
    BY <1>8, <2>2
  <2> QED BY <1>8, <2>3
<1>12. next \in Nat /\ \A e \in Events : execution[e] \in Execution
  BY <1>4 DEF TypeOK, ShardState
<1>13. \A e \in Events :
         /\ exec[e].attempt = execution[e].attempt
         /\ exec[e].prior = execution[e].prior
         /\ e \in events => exec[e].sequence = next + rank[e]
         /\ e \notin events => exec[e] = execution[e]
  <2> SUFFICES ASSUME NEW e \in Events
               PROVE  /\ exec[e].attempt = execution[e].attempt
                      /\ exec[e].prior = execution[e].prior
                      /\ e \in events => exec[e].sequence = next + rank[e]
                      /\ e \notin events => exec[e] = execution[e]
    OBVIOUS
  <2>1. PICK sequence : sequence = next + rank[e]
    OBVIOUS
  <2>2. exec[e] = IF e \in events THEN [execution[e] EXCEPT !.sequence = sequence]
                  ELSE execution[e]
    BY <1>7, <2>1
  <2> QED BY <1>12, <2>1, <2>2 DEF Execution
<1>14. \A e \in events : exec[e].sequence > next
                         /\ exec[e].sequence <= next + Cardinality(events)
  <2> SUFFICES ASSUME NEW e \in events
               PROVE  exec[e].sequence > next
                      /\ exec[e].sequence <= next + Cardinality(events)
    OBVIOUS
  <2>1. exec[e].sequence = next + rank[e]
    BY <1>6, <1>13
  <2>2. rank[e] \in Nat /\ rank[e] > 0 /\ rank[e] <= Cardinality(events)
    BY <1>9
  <2>3. Cardinality(events) \in Nat
    BY <1>6, SizeIsNat
  <2> QED BY <1>12, <2>1, <2>2, <2>3
<1>15. \A e, d \in events : exec[e].sequence = exec[d].sequence => e = d
  <2> SUFFICES ASSUME NEW e \in events, NEW d \in events,
                      exec[e].sequence = exec[d].sequence
               PROVE  e = d
    OBVIOUS
  <2>1. next + rank[e] = next + rank[d] /\ rank[e] \in Nat /\ rank[d] \in Nat
    BY <1>6, <1>9, <1>13
  <2>2. rank[e] = rank[d]
    BY <1>12, <2>1
  <2> QED BY <1>11, <2>2
<1>16. /\ \A e \in Events : /\ exec[e].attempt = execution[e].attempt
                            /\ exec[e].prior = execution[e].prior
       /\ \A e \in Events \ events : exec[e] = execution[e]
  BY <1>13
<1> QED BY <1>1, <1>4, <1>5, <1>14, <1>15, <1>16

\* A batch of ingress: its new events enter the mailbox, the free heads among
\* them start, and dispatch starts what else may.
LEMMA IngressAccounting ==
  ASSUME TypeOK, TypeOK', AccountingInv,
         NEW r \in Runtimes, NEW batch \in IngressBatches, Ingress(r, batch)
  PROVE  AccountingInv' /\ CountersKeepToLimits
<1>1. PICK events : events = NewEvents(batch)
  OBVIOUS
<1>2. PICK exec : exec = Numbered(batch)
  OBVIOUS
<1>3. PICK direct : direct = Startable(shard, events, exec)
  OBVIOUS
<1>4. PICK queued : queued = events \ direct
  OBVIOUS
<1>5. PICK pending : pending = shard.pending + Cardinality(queued)
  OBVIOUS
<1>6. PICK running : running = shard.running + Cardinality(direct)
  OBVIOUS
<1>7. PICK active : active = shard.active_keys \cup KeysOf(direct)
  OBVIOUS
<1>8. PICK next : next = shard.next_sequence + Cardinality(events)
  OBVIOUS
<1>9. PICK admitted :
        admitted = [shard EXCEPT !.pending = pending, !.running = running,
                                 !.active_keys = active, !.next_sequence = next]
  OBVIOUS
<1>10. PICK box : box = mailbox \cup queued
  OBVIOUS
<1>11. PICK started :
         started = IF admitted.pending > 0 THEN Dispatchable(admitted, box, exec)
                   ELSE {}
  OBVIOUS
<1>12. /\ shard' = WithStarted(admitted, started)
       /\ mailbox' = box \ started
       /\ ready' = ready \cup direct \cup started
       /\ execution' = WithPrior(exec, direct \cup started, transitions)
       /\ outcome' = [e \in Events |-> IF e \in events THEN "PENDING" ELSE outcome[e]]
       /\ Load(shard) + Cardinality(events) <= Capacity
       /\ grants' = grants
  BY <1>1, <1>2, <1>3, <1>4, <1>5, <1>6, <1>7, <1>8, <1>9, <1>10, <1>11 DEF Ingress
<1>13. /\ Accounts(shard, mailbox, ready \cup Leased, execution)
       /\ Tallies(shard, ready, Leased, execution, outcome, mailbox)
       /\ Numbering(shard.next_sequence, execution, outcome)
       /\ GrantsAreApart
  BY AccountingParts DEF InFlight
<1>14. /\ shard \in ShardState /\ execution \in [Events -> Execution]
       /\ mailbox \subseteq Events /\ ready \subseteq Events /\ Leased \subseteq Events
       /\ mailbox \cap (ready \cup Leased) = {} /\ ready \cap Leased = {}
  BY <1>13, LeasedEvents DEF TypeOK, Accounts, Tallies
<1>15. /\ events \subseteq Events
       /\ \A e \in events : outcome[e] = "none"
       /\ direct \subseteq events /\ queued \subseteq events
  BY <1>1, <1>3, <1>4, StartableSubset DEF NewEvents
<1>16. events \cap (mailbox \cup ready \cup Leased) = {}
  <2>1. {e \in Events : outcome[e] = "PENDING"} = mailbox \cup ready \cup Leased
    BY <1>13 DEF Tallies
  <2> QED BY <1>15, <2>1
<1>17. exec \in [Events -> Execution]
  BY <1>2, NumberedType
<1>18. /\ \A e \in events : /\ exec[e].sequence > shard.next_sequence
                            /\ exec[e].sequence
                                 <= shard.next_sequence + Cardinality(events)
       /\ \A e, d \in events : exec[e].sequence = exec[d].sequence => e = d
       /\ \A e \in Events : exec[e].attempt = execution[e].attempt
       /\ \A e \in Events \ events : exec[e] = execution[e]
  BY <1>1, <1>2, NumberedSequences
<1>19. Cardinality(events) \in Nat /\ Cardinality(queued) \in Nat
       /\ Cardinality(direct) \in Nat
  BY <1>15, SizeIsNat
<1>20. Numbering(next, exec, outcome')
  <2>1. \A e \in Events : outcome'[e] = "none" => exec[e].attempt = 0
    BY <1>12, <1>13, <1>18 DEF Numbering
  <2>2. \A e \in Events \ events : outcome[e] # "none"
                                     => exec[e].sequence <= shard.next_sequence
    BY <1>13, <1>18 DEF Numbering
  <2>3. shard.next_sequence \in Nat /\ \A e \in Events : exec[e].sequence \in Nat
    BY <1>14, <1>17 DEF ShardState, Execution
  <2>4. \A e \in Events : outcome'[e] # "none" => e \in events \/ outcome[e] # "none"
    BY <1>12
  <2>5. \A e \in Events : outcome'[e] # "none" => exec[e].sequence <= next
    BY <1>8, <1>18, <1>19, <2>2, <2>3, <2>4
  <2>6. ASSUME NEW e \in Events, NEW d \in Events,
               outcome'[e] # "none", outcome'[d] # "none",
               exec[e].sequence = exec[d].sequence
        PROVE  e = d
    <3>1. CASE e \in events /\ d \in events
      BY <1>18, <2>6, <3>1
    <3>2. CASE e \notin events /\ d \notin events
      <4>1. execution[e].sequence = execution[d].sequence
        BY <1>18, <2>6, <3>2
      <4> QED BY <1>13, <2>4, <2>6, <3>2, <4>1 DEF Numbering
    <3>3. CASE e \in events /\ d \notin events
      <4>1. /\ exec[e].sequence > shard.next_sequence
            /\ exec[d].sequence <= shard.next_sequence
        BY <1>18, <2>2, <2>4, <2>6, <3>3
      <4> QED BY <2>3, <2>6, <4>1
    <3>4. CASE e \notin events /\ d \in events
      <4>1. /\ exec[d].sequence > shard.next_sequence
            /\ exec[e].sequence <= shard.next_sequence
        BY <1>18, <2>2, <2>4, <2>6, <3>4
      <4> QED BY <2>3, <2>6, <4>1
    <3> QED BY <3>1, <3>2, <3>3, <3>4
  <2> QED BY <2>1, <2>5, <2>6 DEF Numbering
<1>21. PICK waiting : waiting = shard.pending + Cardinality(events)
  OBVIOUS
<1>22. PICK arrived : arrived = [shard EXCEPT !.pending = waiting]
  OBVIOUS
<1>23. /\ arrived \in ShardState
       /\ arrived.pending = waiting
       /\ arrived.running = shard.running
       /\ arrived.active_keys = shard.active_keys
  <2>1. waiting \in Nat
    BY <1>14, <1>19, <1>21 DEF ShardState
  <2> QED BY <1>14, <1>22, <2>1 DEF ShardState
<1>24. Accounts(arrived, mailbox \cup events, ready \cup Leased, exec)
  <2>1. /\ mailbox \cup events \subseteq Events
        /\ ready \cup Leased \subseteq Events
        /\ (mailbox \cup events) \cap (ready \cup Leased) = {}
    BY <1>14, <1>15, <1>16
  <2>2. waiting = Cardinality(mailbox \cup events)
    <3>1. Cardinality(mailbox \cup events) = Cardinality(mailbox) + Cardinality(events)
      BY <1>14, <1>15, <1>16, SizeOfUnion
    <3> QED BY <1>13, <1>21, <3>1 DEF Accounts
  <2>3. Untried(ready \cup Leased, exec) = Untried(ready \cup Leased, execution)
    BY <1>18, <2>1 DEF Untried
  <2>4. \A e \in mailbox \cup events : exec[e].attempt = 0
    <3>1. \A e \in mailbox : execution[e].attempt = 0
      BY <1>13 DEF Accounts
    <3>2. \A e \in events : execution[e].attempt = 0
      BY <1>13, <1>15 DEF Numbering
    <3> QED BY <1>18, <2>1, <3>1, <3>2
  <2>5. \A e \in (mailbox \cup events) \cup (ready \cup Leased) :
          e \in Events /\ outcome'[e] # "none"
    <3>1. {e \in Events : outcome[e] = "PENDING"} = mailbox \cup ready \cup Leased
      BY <1>13 DEF Tallies
    <3> QED BY <1>12, <1>15, <3>1
  <2>6. \A e, d \in (mailbox \cup events) \cup (ready \cup Leased) :
          exec[e].sequence = exec[d].sequence => e = d
    BY <1>20, <2>5 DEF Numbering
  <2> QED BY <1>13, <1>23, <2>1, <2>2, <2>3, <2>4, <2>6 DEF Accounts
<1>25. Accounts(WithStarted(arrived, direct), (mailbox \cup events) \ direct,
                (ready \cup Leased) \cup direct, exec)
  <2>1. direct = Startable(arrived, events, exec)
    BY <1>3, <1>23, StartableReads
  <2>2. events \subseteq mailbox \cup events
    OBVIOUS
  <2> QED BY <1>17, <1>23, <1>24, <2>1, <2>2, Starting
<1>26. (mailbox \cup events) \ direct = box
  BY <1>4, <1>10, <1>15, <1>16
<1>27. /\ admitted \in ShardState
       /\ admitted.pending = pending
       /\ admitted.running = running
       /\ admitted.active_keys = active
       /\ admitted.next_sequence = next
       /\ admitted.retry_pending = shard.retry_pending
       /\ admitted.retry_running = shard.retry_running
       /\ admitted.completed = shard.completed
       /\ admitted.failed = shard.failed
  <2>1. pending \in Nat /\ running \in Nat /\ next \in Nat
    BY <1>5, <1>6, <1>8, <1>14, <1>19 DEF ShardState
  <2>2. active \subseteq ProcessKeys
    BY <1>7, <1>14, <1>15 DEF ShardState, KeysOf, ProcessKeys
  <2> QED BY <1>9, <1>14, <2>1, <2>2 DEF ShardState
<1>28. Accounts(admitted, box, (ready \cup Leased) \cup direct, exec)
  <2>1. PICK t : t = WithStarted(arrived, direct)
    OBVIOUS
  <2>2. /\ t.pending = Minus(waiting, Cardinality(direct))
        /\ t.running = running
        /\ t.active_keys = active
    BY <1>6, <1>7, <1>23, <2>1, WithStartedFields
  <2>3. Minus(waiting, Cardinality(direct)) = pending
    <3>1. Cardinality(queued) = Cardinality(events) - Cardinality(direct)
      BY <1>4, <1>15, SizeOfDifference
    <3>2. shard.pending \in Nat
      BY <1>14 DEF ShardState
    <3> QED BY <1>5, <1>19, <1>21, <3>1, <3>2 DEF Minus
  <2>4. Accounts(t, box, (ready \cup Leased) \cup direct, exec)
    BY <1>25, <1>26, <2>1
  <2> QED BY <1>27, <2>2, <2>3, <2>4, AccountsReads
<1>29. started = Dispatchable(admitted, box, exec)
  <2>1. CASE admitted.pending > 0
    BY <1>11, <2>1
  <2>2. CASE ~(admitted.pending > 0)
    <3>1. admitted.pending = Cardinality(box) /\ box \subseteq Events
      BY <1>28 DEF Accounts
    <3>2. IsFiniteSet(box) /\ Cardinality(box) \in Nat
      BY <3>1, EventsAreFinite, SizeIsNat
    <3>3. box = {}
      BY <2>2, <3>1, <3>2, FS_EmptySet
    <3>4. Dispatchable(admitted, box, exec) = {}
      BY <3>3, DispatchableSubset
    <3> QED BY <1>11, <2>2, <3>4
  <2> QED BY <2>1, <2>2
<1>30. /\ started \subseteq box
       /\ Accounts(WithStarted(admitted, started), box \ started,
                   ((ready \cup Leased) \cup direct) \cup started, exec)
  BY <1>17, <1>27, <1>28, <1>29, Dispatching
<1>31. \A e \in Events : /\ execution'[e].attempt = exec[e].attempt
                         /\ execution'[e].sequence = exec[e].sequence
  <2> SUFFICES ASSUME NEW e \in Events
               PROVE  /\ execution'[e].attempt = exec[e].attempt
                      /\ execution'[e].sequence = exec[e].sequence
    OBVIOUS
  <2>1. exec[e] \in Execution
    BY <1>17
  <2> QED BY <1>12, <2>1 DEF WithPrior, Execution
<1>32. Leased' = Leased /\ GrantsAreApart'
  BY <1>12, <1>13 DEF Leased, Open, GrantsAreApart
<1>33. ready' \cup Leased' = ((ready \cup Leased) \cup direct) \cup started
  BY <1>12, <1>32
<1>34. Accounts(shard', mailbox', ready' \cup Leased', execution')
  <2>1. Accounts(shard', mailbox', ready' \cup Leased', exec)
    BY <1>12, <1>30, <1>33
  <2>2. mailbox' \cup (ready' \cup Leased') \subseteq Events
    BY <2>1 DEF Accounts
  <2>3. \A e \in mailbox' \cup (ready' \cup Leased') :
          /\ execution'[e].attempt = exec[e].attempt
          /\ execution'[e].sequence = exec[e].sequence
    BY <1>31, <2>2
  <2> QED BY <2>1, <2>3, AccountsReads
<1>35. /\ shard'.retry_pending = shard.retry_pending
       /\ shard'.retry_running = shard.retry_running
       /\ shard'.completed = shard.completed
       /\ shard'.failed = shard.failed
       /\ shard'.next_sequence = next
  BY <1>12, <1>27, WithStartedFields
<1>36. mailbox' \cup ready' \cup Leased' = mailbox \cup ready \cup Leased \cup events
  BY <1>4, <1>10, <1>12, <1>15, <1>30, <1>33
<1>37. Cardinality(mailbox \cup ready \cup Leased) = Load(shard)
  <2>1. PICK flight : flight = ready \cup Leased
    OBVIOUS
  <2>2. flight \subseteq Events /\ mailbox \cap flight = {}
    BY <1>14, <2>1
  <2>3. Cardinality(mailbox \cup flight) = Cardinality(mailbox) + Cardinality(flight)
    BY <1>14, <2>2, SizeOfUnion
  <2>4. Cardinality(flight) = shard.running + Cardinality(RetriesOf(flight, execution))
    <3>1. PICK retries : retries = RetriesOf(flight, execution)
      OBVIOUS
    <3>2. retries \subseteq flight /\ Untried(flight, execution) = flight \ retries
      BY <1>14, <2>2, <3>1, RetriesAndUntried
    <3>3. shard.running = Cardinality(flight \ retries)
      BY <1>13, <2>1, <3>2 DEF Accounts
    <3>4. /\ Cardinality(flight \ retries)
               = Cardinality(flight) - Cardinality(retries)
          /\ Cardinality(flight) \in Nat /\ Cardinality(retries) \in Nat
      BY <2>2, <3>2, SizeOfDifference
    <3> QED BY <3>1, <3>3, <3>4
  <2>5. Cardinality(RetriesOf(flight, execution))
          = Cardinality(RetriesOf(ready, execution))
              + Cardinality(RetriesOf(Leased, execution))
    BY <1>14, <2>1, RetriesOfUnion
  <2>6. /\ shard.pending = Cardinality(mailbox)
        /\ shard.retry_pending = Cardinality(RetriesOf(ready, execution))
        /\ shard.retry_running = Cardinality(RetriesOf(Leased, execution))
    BY <1>13 DEF Accounts, Tallies
  <2>7. /\ shard.pending \in Nat /\ shard.running \in Nat
        /\ shard.retry_pending \in Nat /\ shard.retry_running \in Nat
    BY <1>14 DEF ShardState
  <2>8. mailbox \cup ready \cup Leased = mailbox \cup flight
    BY <2>1
  <2>9. Cardinality(mailbox \cup flight)
          = shard.pending + (shard.running + (shard.retry_pending + shard.retry_running))
    BY <2>3, <2>4, <2>5, <2>6
  <2>10. Load(shard)
           = shard.pending + (shard.running + (shard.retry_pending + shard.retry_running))
    BY <2>7 DEF Load
  <2> QED BY <2>8, <2>9, <2>10
<1>38. Tallies(shard', ready', Leased', execution', outcome', mailbox')
  <2>1. {e \in Events : outcome'[e] = "PENDING"} = mailbox' \cup ready' \cup Leased'
    <3>1. {e \in Events : outcome[e] = "PENDING"} = mailbox \cup ready \cup Leased
      BY <1>13 DEF Tallies
    <3> QED BY <1>12, <1>15, <1>36, <3>1
  <2>2. ready' \cap Leased' = {}
    <3>1. direct \cap Leased = {} /\ started \cap Leased = {}
      BY <1>10, <1>14, <1>15, <1>16, <1>30
    <3> QED BY <1>12, <1>14, <1>32, <3>1
  <2>3. RetriesOf(ready', execution') = RetriesOf(ready, execution)
    <3>1. \A e \in ready : execution'[e].attempt = execution[e].attempt
      BY <1>14, <1>18, <1>31
    <3>2. \A e \in direct \cup started : execution'[e].attempt = 0
      <4>1. \A e \in mailbox \cup events : e \in Events /\ exec[e].attempt = 0
        BY <1>24 DEF Accounts
      <4>2. direct \cup started \subseteq mailbox \cup events
        BY <1>10, <1>15, <1>30
      <4> QED BY <1>31, <4>1, <4>2
    <3>3. \A e \in direct \cup started : ~(execution'[e].attempt > 0)
      BY <3>2
    <3>4. \A e : e \in ready' <=> e \in ready \/ e \in direct \cup started
      BY <1>12
    <3>5. \A e \in direct \cup started : e \notin ready
      BY <1>10, <1>14, <1>15, <1>16, <1>30
    <3>6. \A e : e \in RetriesOf(ready', execution') <=> e \in RetriesOf(ready, execution)
      BY <3>1, <3>3, <3>4, <3>5 DEF RetriesOf
    <3> QED BY <3>6
  <2>4. RetriesOf(Leased', execution') = RetriesOf(Leased, execution)
    <3>1. \A e \in Leased : execution'[e].attempt = execution[e].attempt
      BY <1>14, <1>18, <1>31
    <3> QED BY <1>32, <3>1 DEF RetriesOf
  <2>5. /\ {e \in Events : outcome'[e] = "COMMITTED"}
             = {e \in Events : outcome[e] = "COMMITTED"}
        /\ {e \in Events : outcome'[e] = "FAILED"}
             = {e \in Events : outcome[e] = "FAILED"}
    BY <1>12, <1>15
  <2>6. /\ shard'.retry_pending = Cardinality(RetriesOf(ready', execution'))
        /\ shard'.retry_running = Cardinality(RetriesOf(Leased', execution'))
    BY <1>13, <1>35, <2>3, <2>4 DEF Tallies
  <2>7. /\ shard'.completed = Cardinality({e \in Events : outcome'[e] = "COMMITTED"})
        /\ shard'.failed = Cardinality({e \in Events : outcome'[e] = "FAILED"})
    BY <1>13, <1>35, <2>5 DEF Tallies
  <2> QED BY <2>1, <2>2, <2>6, <2>7 DEF Tallies
<1>39. Numbering(shard'.next_sequence, execution', outcome')
  BY <1>20, <1>31, <1>35 DEF Numbering
<1>40. CountersKeepToLimits
  <2>1. Cardinality(mailbox' \cup ready' \cup Leased') <= Capacity
    <3>1. PICK before : before = mailbox \cup ready \cup Leased
      OBVIOUS
    <3>2. before \subseteq Events /\ before \cap events = {}
      BY <1>14, <1>16, <3>1
    <3>3. Cardinality(before \cup events) = Cardinality(before) + Cardinality(events)
      BY <1>15, <3>2, SizeOfUnion
    <3> QED BY <1>12, <1>36, <1>37, <3>1, <3>3
  <2>2. direct = {} \/ running <= Concurrency
    BY <1>3, <1>6, <1>14, <1>15, <1>17, <1>18, StartsInFreeSlots
  <2>3. started = {} \/ running + Cardinality(started) <= Concurrency
    <3>1. PICK window : window = First(Concurrency, box, exec)
      OBVIOUS
    <3>2. window \subseteq box /\ window \subseteq Events
      BY <1>28, <3>1 DEF First, Accounts
    <3>3. started = Startable(admitted, window, exec)
      BY <1>29, <3>1 DEF Dispatchable
    <3>4. \A e, d \in window : exec[e].sequence = exec[d].sequence => e = d
      BY <1>28, <3>2 DEF Accounts
    <3> QED BY <1>17, <1>27, <3>2, <3>3, <3>4, StartsInFreeSlots
  <2>4. /\ direct = {} => Cardinality(direct) = 0
        /\ started = {} => Cardinality(started) = 0
    BY FS_EmptySet
  <2>5. shard'.running = running + Cardinality(started)
    BY <1>12, <1>27, WithStartedFields
  <2>6. shard.running \in Nat /\ shard.retry_running \in Nat
    BY <1>14 DEF ShardState
  <2>7. shard'.running > shard.running => shard'.running <= Concurrency
    BY <1>6, <2>2, <2>3, <2>4, <2>5, <2>6
  <2> QED BY <1>35, <2>1, <2>6, <2>7 DEF CountersKeepToLimits
<1> QED BY <1>32, <1>34, <1>38, <1>39, <1>40, AccountingFromParts

\* Every step keeps the account, and keeps to the limits.
LEMMA AccountingStep ==
  ASSUME TypeOK, TypeOK', AccountingInv, [Next]_vars
  PROVE  AccountingInv' /\ CountersKeepToLimits
<1>1. grants \in Seq(Grant) /\ GrantsAreApart
  BY AccountingParts DEF TypeOK
<1>2. ASSUME UNCHANGED <<shard, mailbox, ready, execution, outcome, grants>>
      PROVE  AccountingInv' /\ CountersKeepToLimits
  <2>1. Leased' = Leased /\ GrantsAreApart'
    BY <1>1, <1>2 DEF Leased, Open, GrantsAreApart
  <2> QED BY <1>2, <2>1, KeptAccounting
<1>3. ASSUME NEW g \in 1..Len(grants), NEW expired \in BOOLEAN,
             grants' = [grants EXCEPT ![g].expired = expired],
             UNCHANGED <<shard, mailbox, ready, execution, outcome>>
      PROVE  AccountingInv' /\ CountersKeepToLimits
  <2>1. Leased' = Leased /\ GrantsAreApart'
    BY <1>1, <1>3, GrantsExpiry
  <2> QED BY <1>3, <2>1, KeptAccounting
<1>4. ASSUME NEW g \in Open, NEW succeeded \in SUBSET grants[g].events,
             NEW status \in {"completed", "revoked"},
             Settle(g, succeeded), CloseGrant(g, status)
      PROVE  AccountingInv' /\ CountersKeepToLimits
  <2>1. grants' = [grants EXCEPT ![g].status = status, ![g].expired = FALSE]
    BY <1>4 DEF CloseGrant
  <2>2. /\ Leased' = Leased \ grants[g].events
        /\ grants[g].events \subseteq Leased
        /\ GrantsAreApart'
    BY <1>1, <2>1, GrantClosed
  <2> QED BY <1>4, <2>2, SettleAccounting
<1>5. ASSUME NEW r \in Runtimes, Serve(r)
      PROVE  AccountingInv' /\ CountersKeepToLimits
  <2>1. ASSUME NEW batch \in IngressBatches, Ingress(r, batch)
        PROVE  AccountingInv' /\ CountersKeepToLimits
    BY <2>1, IngressAccounting
  <2>2. ASSUME NEW key \in ProcessKeys, Finalize(r, key)
        PROVE  AccountingInv' /\ CountersKeepToLimits
    BY <1>2, <2>2 DEF Finalize
  <2>3. CASE Poll(r)
    BY <2>3, PollAccounting
  <2>4. ASSUME NEW g \in 1..Len(grants), RenewGrant(r, g)
        PROVE  AccountingInv' /\ CountersKeepToLimits
    BY <1>3, <2>4 DEF RenewGrant
  <2>5. ASSUME NEW g \in 1..Len(grants), Complete(r, g)
        PROVE  AccountingInv' /\ CountersKeepToLimits
    BY <1>4, <2>5 DEF Complete
  <2>6. ASSUME NEW g \in 1..Len(grants), RecoverGrant(r, g)
        PROVE  AccountingInv' /\ CountersKeepToLimits
    <3>1. /\ g \in Open /\ Settle(g, {}) /\ CloseGrant(g, "revoked")
          /\ {} \in SUBSET grants[g].events
      BY <2>6 DEF RecoverGrant
    <3> QED BY <1>4, <3>1
  <2>7. CASE RecoverAtStart(r)
    BY <1>2, <2>7 DEF RecoverAtStart, processVars
  <2>8. CASE ReturnGrants(r)
    BY <2>8, ReturnAccounting
  <2> QED BY <1>5, <2>1, <2>2, <2>3, <2>4, <2>5, <2>6, <2>7, <2>8 DEF Serve
<1>6. CASE UNCHANGED processVars
  BY <1>2, <1>6 DEF processVars
<1>7. ASSUME NEW g \in 1..Len(grants), ExpireGrant(g)
      PROVE  AccountingInv' /\ CountersKeepToLimits
  BY <1>3, <1>7 DEF ExpireGrant
<1>8. ASSUME NEW l \in Registrations, Reregister(l)
      PROVE  AccountingInv' /\ CountersKeepToLimits
  BY <1>2, <1>8 DEF Reregister
<1>9. CASE UNCHANGED vars
  BY <1>6, <1>9 DEF vars
<1> QED BY <1>5, <1>6, <1>7, <1>8, <1>9 DEF Next

\* An empty shard is in order.
LEMMA AccountingInit ==
  ASSUME Init
  PROVE  AccountingInv
<1>1. /\ shard = [pending |-> 0, running |-> 0, retry_pending |-> 0,
                  retry_running |-> 0, completed |-> 0, failed |-> 0,
                  next_sequence |-> 0, active_keys |-> {}]
      /\ mailbox = {} /\ ready = {} /\ grants = <<>>
      /\ execution = [e \in Events |-> [sequence |-> 0, attempt |-> 0, prior |-> 0]]
      /\ outcome = [e \in Events |-> "none"]
  BY DEF Init, InitProcess
<1>2. Open = {}
  BY <1>1 DEF Open
<1>3. Leased = {}
  <2>1. \A e : e \notin Leased
    BY <1>2 DEF Leased
  <2> QED BY <2>1
<1>4. InFlight = {} /\ mailbox \cup InFlight = {} /\ mailbox = {}
  BY <1>1, <1>3 DEF InFlight
<1>5. EveryPendingEventIsHeldOnce
  BY <1>1, <1>2, <1>3, <1>4 DEF EveryPendingEventIsHeldOnce
<1>6. ActiveKeysAreInFlight
  BY <1>1, <1>4 DEF ActiveKeysAreInFlight, KeysOf
<1>7. /\ InFlight \ Retries(InFlight) = {} /\ Retries(ready) = {} /\ Retries(Leased) = {}
      /\ {e \in Events : outcome[e] = "COMMITTED"} = {}
      /\ {e \in Events : outcome[e] = "FAILED"} = {}
  BY <1>1, <1>3, <1>4 DEF Retries
<1>8. Cardinality({}) = 0
  BY FS_EmptySet
<1>9. CountersMatch
  BY <1>1, <1>7, <1>8 DEF CountersMatch
<1>10. SequencesAreDistinct /\ UntriedUntilStarted
  BY <1>1 DEF SequencesAreDistinct, UntriedUntilStarted
<1> QED BY <1>5, <1>6, <1>9, <1>10 DEF AccountingInv

\* The account is kept by every step of every runtime: through lost grants,
\* retries, restarts and transfers.
THEOREM AccountingInvariant == Spec => []AccountingInv
<1>1. Init => AccountingInv
  BY AccountingInit
<1>2. TypeOK /\ TypeOK' /\ AccountingInv /\ [Next]_vars => AccountingInv'
  BY AccountingStep
<1> QED BY <1>1, <1>2, ShardTypeCorrect, PTL DEF Spec

\* Nothing admitted is lost or doubled.
THEOREM NothingLostOrDoubled == Spec => []EveryPendingEventIsHeldOnce
<1>1. AccountingInv => EveryPendingEventIsHeldOnce
  BY DEF AccountingInv
<1> QED BY <1>1, AccountingInvariant, PTL

\* One execution of a key at a time, and active_keys names exactly those keys.
THEOREM OneExecutionPerKey == Spec => []ActiveKeysAreInFlight
<1>1. AccountingInv => ActiveKeysAreInFlight
  BY DEF AccountingInv
<1> QED BY <1>1, AccountingInvariant, PTL

\* The counters the code decides by are what they count; no decrement saturates.
THEOREM CountersAreExact == Spec => []CountersMatch
<1>1. AccountingInv => CountersMatch
  BY DEF AccountingInv
<1> QED BY <1>1, AccountingInvariant, PTL

\* No step adds to what the process holds or runs past the limits in force,
\* whatever limits are registered over it and when.
THEOREM LimitsAreKept == Spec => LimitsAreRespected
<1>1. TypeOK /\ TypeOK' /\ AccountingInv /\ [Next]_vars => KeepsToLimits
  <2> SUFFICES ASSUME TypeOK, TypeOK', AccountingInv, [Next]_vars
               PROVE  KeepsToLimits
    OBVIOUS
  <2>1. AccountingInv' /\ CountersKeepToLimits
    BY AccountingStep
  <2>2. CountersMatch /\ CountersMatch'
    BY <2>1 DEF AccountingInv
  <2> QED BY <2>1, <2>2, LimitsFromCounters
<1> QED BY <1>1, ShardTypeCorrect, AccountingInvariant, PTL
        DEF Spec, LimitsAreRespected

-----------------------------------------------------------------------------
(* The first waiting event *)

\* An event with none before it in the mailbox has its key running, or no slot.
Reasoned(s, box, exec) ==
  \A e \in box :
    (\A d \in box : ~(exec[d].sequence < exec[e].sequence))
      => KeyOf[e] \in s.active_keys \/ s.running >= Concurrency

LEMMA FirstIsHead ==
  ASSUME NEW E, E \subseteq Events, NEW exec, NEW e
  PROVE  e \in First(1, E, exec)
           <=> e \in E /\ \A d \in E : ~(exec[d].sequence < exec[e].sequence)
<1>1. PICK before : before = Before(e, E, exec)
  OBVIOUS
<1>2. before \subseteq Events /\ IsFiniteSet(before)
  BY <1>1, EventsAreFinite DEF Before
<1>3. Cardinality(before) \in Nat /\ (Cardinality(before) = 0 <=> before = {})
  BY <1>2, FS_EmptySet, SizeIsNat
<1>4. e \in First(1, E, exec) <=> e \in E /\ Cardinality(before) < 1
  BY <1>1 DEF First, Before
<1>5. Cardinality(before) < 1 <=> before = {}
  BY <1>3
<1>6. before = {} <=> \A d \in E : ~(exec[d].sequence < exec[e].sequence)
  BY <1>1 DEF Before
<1> QED BY <1>4, <1>5, <1>6

LEMMA ReasonedNext ==
  ASSUME mailbox' \subseteq Events, UNCHANGED limits
  PROVE  FirstWaiterHasReason' <=> Reasoned(shard', mailbox', execution')
<1>1. \A e : e \in First(1, mailbox', execution')
               <=> e \in mailbox'
                   /\ \A d \in mailbox' : ~(execution'[d].sequence < execution'[e].sequence)
  BY FirstIsHead
<1>2. FirstWaiterHasReason'
        <=> \A e \in First(1, mailbox', execution') :
              KeyOf[e] \in shard'.active_keys \/ shard'.running >= Concurrency
  BY DEF FirstWaiterHasReason, First, Concurrency
<1> QED BY <1>1, <1>2 DEF Reasoned

\* What is passed over has its key running, or all slots are taken.
LEMMA DispatchLeavesReason ==
  ASSUME TypeOK, NEW s \in ShardState, NEW box, box \subseteq Events,
         NEW exec \in [Events -> Execution],
         NEW started, started = Dispatchable(s, box, exec)
  PROVE  Reasoned(WithStarted(s, started), box \ started, exec)
<1>1. PICK t, rest, window, slots :
        /\ t = WithStarted(s, started) /\ rest = box \ started
        /\ window = First(Concurrency, box, exec) /\ slots = Concurrency - s.running
  OBVIOUS
<1>2. PICK heads :
        heads = {e \in window : /\ KeyOf[e] \notin s.active_keys
                                /\ \A d \in window :
                                     KeyOf[d] = KeyOf[e]
                                       => exec[d].sequence >= exec[e].sequence}
  OBVIOUS
<1>3. started = First(slots, heads, exec) /\ window \subseteq box /\ started \subseteq window
  BY <1>1, <1>2 DEF Dispatchable, Startable, First
<1>4. /\ t.running = s.running + Cardinality(started)
      /\ t.active_keys = s.active_keys \cup KeysOf(started)
      /\ s.running \in Nat /\ Cardinality(started) \in Nat
      /\ Concurrency \in Nat
  <2>1. started \subseteq Events
    BY <1>3
  <2>2. s.running \in Nat
    BY DEF ShardState
  <2> QED BY <1>1, <2>1, <2>2, WithStartedFields, SizeIsNat, LimitsAreNumbers
<1>5. SUFFICES ASSUME NEW e \in rest,
                      \A d \in rest : ~(exec[d].sequence < exec[e].sequence),
                      KeyOf[e] \notin t.active_keys
               PROVE  t.running >= Concurrency
  BY <1>1 DEF Reasoned
<1>6. \A E \in SUBSET box : Before(e, E, exec) \subseteq started
  BY <1>1, <1>5 DEF Before
<1>7. ASSUME NEW n \in Int, NEW E \in SUBSET box, e \in E, e \notin First(n, E, exec)
      PROVE  n <= Cardinality(started)
  <2>1. PICK before : before = Before(e, E, exec)
    OBVIOUS
  <2>2. before \subseteq started /\ started \subseteq Events
    BY <1>3, <1>6, <2>1
  <2>3. Cardinality(before) <= Cardinality(started) /\ Cardinality(before) \in Nat
    BY <2>2, SizeOfSubset, SizeIsNat
  <2>4. ~(Cardinality(before) < n)
    BY <1>7, <2>1 DEF First, Before
  <2> QED BY <1>4, <2>3, <2>4
<1>8. CASE e \notin window
  <2>1. Concurrency <= Cardinality(started)
    BY <1>1, <1>4, <1>7, <1>8
  <2> QED BY <1>4, <2>1
<1>9. CASE e \in window
  <2>1. KeyOf[e] \notin s.active_keys
    BY <1>4, <1>5
  <2>2. ASSUME NEW d \in window, KeyOf[d] = KeyOf[e]
        PROVE  exec[d].sequence >= exec[e].sequence
    <3>1. d \notin started
      BY <1>4, <1>5, <2>2 DEF KeysOf
    <3>2. d \in rest /\ d \in Events /\ e \in Events
      BY <1>1, <1>3, <3>1
    <3>3. exec[d].sequence \in Nat /\ exec[e].sequence \in Nat
      BY <3>2 DEF Execution
    <3>4. ~(exec[d].sequence < exec[e].sequence)
      BY <1>5, <3>2
    <3> QED BY <3>3, <3>4
  <2>3. e \in heads
    BY <1>2, <1>9, <2>1, <2>2
  <2>4. e \notin First(slots, heads, exec)
    BY <1>1, <1>3
  <2>5. slots \in Int /\ heads \in SUBSET box
    BY <1>1, <1>2, <1>3, <1>4
  <2>6. slots <= Cardinality(started)
    BY <1>7, <2>3, <2>4, <2>5
  <2> QED BY <1>1, <1>4, <2>6
<1> QED BY <1>8, <1>9

\* So after every transaction that ends in a dispatch.
LEMMA DispatchedHasReason ==
  ASSUME TypeOK, UNCHANGED limits, NEW s \in ShardState, NEW box, box \subseteq Events,
         NEW exec \in [Events -> Execution],
         NEW started, started = Dispatchable(s, box, exec),
         NEW E, NEW trans,
         shard' = WithStarted(s, started), mailbox' = box \ started,
         execution' = WithPrior(exec, E, trans)
  PROVE  FirstWaiterHasReason'
<1>1. Reasoned(shard', mailbox', exec)
  BY DispatchLeavesReason
<1>2. \A e \in Events : execution'[e].sequence = exec[e].sequence
  <2>1. SUFFICES ASSUME NEW e \in Events
                 PROVE  execution'[e].sequence = exec[e].sequence
    OBVIOUS
  <2>2. PICK x \in Execution : x = exec[e]
    OBVIOUS
  <2>3. execution'[e] = x \/ execution'[e] = [x EXCEPT !.prior = StateIn(trans, KeyOf[e])]
    BY <2>2 DEF WithPrior
  <2> QED BY <2>2, <2>3 DEF Execution
<1>3. mailbox' \subseteq Events
  OBVIOUS
<1>4. Reasoned(shard', mailbox', execution')
  BY <1>1, <1>2, <1>3 DEF Reasoned
<1> QED BY <1>3, <1>4, ReasonedNext

LEMMA SettleHasReason ==
  ASSUME TypeOK, NEW g \in 1..Len(grants), NEW succeeded \in SUBSET grants[g].events,
         Settle(g, succeeded)
  PROVE  FirstWaiterHasReason'
<1>1. PICK held, failures, quarantined, retried, isolated :
        /\ held = grants[g].events /\ failures = held \ succeeded
        /\ quarantined = {e \in failures : execution[e].attempt + 1 >= MaxAttempts}
        /\ retried = failures \ quarantined
        /\ isolated = Cardinality(Retries(held))
  OBVIOUS
<1>2. PICK running : running = Minus(shard.running, Cardinality(held) - isolated)
  OBVIOUS
<1>3. PICK retryRunning : retryRunning = Minus(shard.retry_running, isolated)
  OBVIOUS
<1>4. PICK retryPending : retryPending = shard.retry_pending + Cardinality(retried)
  OBVIOUS
<1>5. PICK completed : completed = shard.completed + Cardinality(succeeded)
  OBVIOUS
<1>6. PICK failed : failed = shard.failed + Cardinality(quarantined)
  OBVIOUS
<1>7. PICK active : active = shard.active_keys \ KeysOf(succeeded \cup quarantined)
  OBVIOUS
<1>8. PICK settled :
        settled = [shard EXCEPT !.running = running, !.retry_running = retryRunning,
                                !.retry_pending = retryPending, !.completed = completed,
                                !.failed = failed, !.active_keys = active]
  OBVIOUS
<1>9. PICK exec :
        exec = [e \in Events |->
                  IF e \in failures
                  THEN [execution[e] EXCEPT !.attempt = @ + 1] ELSE execution[e]]
  OBVIOUS
<1>10. PICK started : started = Dispatchable(settled, mailbox, exec)
  OBVIOUS
<1>11. PICK trans :
        /\ shard' = WithStarted(settled, started)
        /\ mailbox' = mailbox \ started
        /\ execution' = WithPrior(exec, started, trans)
        /\ limits' = limits
  BY <1>1, <1>2, <1>8, <1>9, <1>10, <1>3, <1>4, <1>5, <1>6, <1>7, ZenonT(60)
     DEF Settle, DispatchAfter
<1>12. /\ shard \in ShardState /\ execution \in [Events -> Execution] /\ mailbox \subseteq Events
      /\ held \subseteq Events
  <2>1. grants[g] \in Grant
    BY ElementOfSeq DEF TypeOK
  <2>2. held \subseteq Events
    BY <1>1, <2>1 DEF Grant
  <2> QED BY <2>2 DEF TypeOK
<1>13. settled \in ShardState
  <2>1. /\ Cardinality(held) \in Nat /\ Cardinality(retried) \in Nat /\ Cardinality(succeeded) \in Nat
        /\ Cardinality(quarantined) \in Nat /\ isolated \in Nat
    <3>1. retried \subseteq Events /\ succeeded \subseteq Events /\ quarantined \subseteq Events
          /\ Retries(held) \subseteq Events
      BY <1>1, <1>12 DEF Retries
    <3> QED BY <1>1, <1>12, <3>1, SizeIsNat
  <2>2. Cardinality(held) >= isolated
    <3>1. Retries(held) \subseteq held
      BY DEF Retries
    <3> QED BY <1>1, <1>12, <3>1, SizeOfSubset
  <2>3. /\ shard.running \in Nat /\ shard.retry_running \in Nat /\ shard.retry_pending \in Nat
        /\ shard.completed \in Nat /\ shard.failed \in Nat
        /\ shard.active_keys \in SUBSET ProcessKeys
    BY <1>12 DEF ShardState
  <2>4. running \in Nat /\ retryRunning \in Nat
    <3>1. PICK n \in Nat : n = Cardinality(held) - isolated
      BY <2>1, <2>2
    <3>2. running = Minus(shard.running, n)
      BY <1>2, <3>1
    <3>3. running \in Nat
      BY <2>3, <3>2 DEF Minus
    <3>4. isolated \in Nat
      BY <2>1
    <3>5. retryRunning \in Nat
      BY <1>3, <2>3, <3>4 DEF Minus
    <3> QED BY <3>3, <3>5
  <2>5. retryPending \in Nat
    BY <1>4, <2>1, <2>3
  <2>6. completed \in Nat
    BY <1>5, <2>1, <2>3
  <2>7. failed \in Nat
    BY <1>6, <2>1, <2>3
  <2>8. active \in SUBSET ProcessKeys
    BY <1>7, <2>3
  <2> QED BY <1>8, <1>12, <2>4, <2>5, <2>6, <2>7, <2>8 DEF ShardState
<1>14. exec \in [Events -> Execution]
  <2>1. SUFFICES ASSUME NEW e \in Events
                 PROVE  exec[e] \in Execution
    BY <1>9
  <2>2. execution[e] \in Execution /\ execution[e].attempt \in Nat
    BY <1>12 DEF Execution
  <2>3. PICK attempt \in Nat : attempt = execution[e].attempt + 1
    BY <2>2
  <2>4. exec[e] = IF e \in failures THEN [execution[e] EXCEPT !.attempt = attempt]
                  ELSE execution[e]
    BY <1>9, <2>3
  <2> QED BY <2>2, <2>3, <2>4 DEF Execution
<1> QED BY <1>10, <1>11, <1>12, <1>13, <1>14, DispatchedHasReason

LEMMA IngressHasReason ==
  ASSUME TypeOK, CountersMatch, NEW r, NEW batch \in IngressBatches, Ingress(r, batch)
  PROVE  FirstWaiterHasReason'
<1>1. PICK events, exec, direct, queued :
        /\ events = NewEvents(batch) /\ exec = Numbered(batch)
        /\ direct = Startable(shard, events, exec) /\ queued = events \ direct
  OBVIOUS
<1>2. PICK pending, running, active, next :
        /\ pending = shard.pending + Cardinality(queued)
        /\ running = shard.running + Cardinality(direct)
        /\ active = shard.active_keys \cup KeysOf(direct)
        /\ next = shard.next_sequence + Cardinality(events)
  OBVIOUS
<1>3. PICK admitted, box :
        /\ admitted = [shard EXCEPT !.pending = pending, !.running = running,
                                    !.active_keys = active, !.next_sequence = next]
        /\ box = mailbox \cup queued
  OBVIOUS
<1>4. PICK started :
        started = IF admitted.pending > 0 THEN Dispatchable(admitted, box, exec) ELSE {}
  OBVIOUS
<1>5. /\ shard' = WithStarted(admitted, started)
      /\ mailbox' = box \ started
      /\ execution' = WithPrior(exec, direct \cup started, transitions)
      /\ limits' = limits
  BY <1>1, <1>2, <1>3, <1>4 DEF Ingress
<1>6. shard \in ShardState /\ mailbox \subseteq Events /\ exec \in [Events -> Execution]
  BY <1>1, NumberedType DEF TypeOK
<1>7. events \subseteq Events /\ direct \subseteq events /\ queued \subseteq events
  BY <1>1, StartableSubset DEF NewEvents
<1>8. Cardinality(events) \in Nat /\ Cardinality(queued) \in Nat /\ Cardinality(direct) \in Nat
  BY <1>7, SizeIsNat
<1>9. admitted \in ShardState /\ admitted.pending = pending
  <2>1. /\ shard.running \in Nat /\ shard.pending \in Nat /\ shard.next_sequence \in Nat
        /\ shard.active_keys \in SUBSET ProcessKeys
    BY <1>6 DEF ShardState
  <2>2. pending \in Nat /\ running \in Nat /\ next \in Nat
    BY <1>2, <1>8, <2>1
  <2>3. active \in SUBSET ProcessKeys
    BY <1>2, <1>7, <2>1 DEF KeysOf, ProcessKeys
  <2> QED BY <1>3, <1>6, <2>2, <2>3 DEF ShardState
<1>10. CASE admitted.pending > 0
  BY <1>3, <1>4, <1>5, <1>6, <1>7, <1>9, <1>10, DispatchedHasReason
<1>11. CASE ~(admitted.pending > 0)
  <2>1. Cardinality(mailbox) \in Nat /\ shard.pending = Cardinality(mailbox)
    BY <1>6, SizeIsNat DEF CountersMatch
  <2>2. Cardinality(mailbox) = 0 /\ Cardinality(queued) = 0
    BY <1>2, <1>8, <1>9, <1>11, <2>1
  <2>3. mailbox = {} /\ queued = {}
    <3>1. IsFiniteSet(mailbox) /\ IsFiniteSet(queued)
      BY <1>6, <1>7, EventsAreFinite
    <3> QED BY <2>2, <3>1, FS_EmptySet
  <2>4. mailbox' = {}
    BY <1>3, <1>5, <2>3
  <2>5. mailbox' \subseteq Events /\ Reasoned(shard', mailbox', execution')
    BY <2>4 DEF Reasoned
  <2> QED BY <1>5, <2>5, ReasonedNext
<1> QED BY <1>10, <1>11

LEMMA ReasonStep ==
  ASSUME TypeOK, AccountingInv, [Next]_vars
  PROVE  LeavesReason
<1>1. ASSUME UNCHANGED <<shard, mailbox>>
      PROVE  LeavesReason
  BY <1>1 DEF LeavesReason
<1>2. ASSUME NEW retryPending, NEW retryRunning, UNCHANGED mailbox,
             \/ shard' = [shard EXCEPT !.retry_pending = retryPending,
                                       !.retry_running = retryRunning]
             \/ shard' = [shard EXCEPT !.retry_running = retryRunning,
                                       !.retry_pending = retryPending]
      PROVE  LeavesReason
  <2>1. shard'.running = shard.running /\ shard'.active_keys = shard.active_keys
    BY <1>2 DEF TypeOK, ShardState
  <2> QED BY <1>2, <2>1 DEF LeavesReason
<1>3. ASSUME NEW g \in 1..Len(grants), NEW succeeded \in SUBSET grants[g].events,
             Settle(g, succeeded)
      PROVE  LeavesReason
  BY <1>3, SettleHasReason DEF LeavesReason
<1>4. ASSUME NEW r \in Runtimes, Serve(r)
      PROVE  LeavesReason
  <2>1. ASSUME NEW batch \in IngressBatches, Ingress(r, batch)
        PROVE  LeavesReason
    <3>1. CountersMatch
      BY DEF AccountingInv
    <3> QED BY <2>1, <3>1, IngressHasReason DEF LeavesReason
  <2>2. ASSUME NEW key \in ProcessKeys, Finalize(r, key)
        PROVE  LeavesReason
    BY <1>1, <2>2 DEF Finalize
  <2>3. CASE Poll(r)
    <3>1. /\ UNCHANGED mailbox
          /\ \E retryPending, retryRunning :
               shard' = [shard EXCEPT !.retry_pending = retryPending,
                                      !.retry_running = retryRunning]
      BY <2>3 DEF Poll
    <3> QED BY <1>2, <3>1
  <2>4. ASSUME NEW g \in 1..Len(grants), RenewGrant(r, g)
        PROVE  LeavesReason
    BY <1>1, <2>4 DEF RenewGrant
  <2>5. ASSUME NEW g \in 1..Len(grants), Complete(r, g)
        PROVE  LeavesReason
    BY <1>3, <2>5 DEF Complete
  <2>6. ASSUME NEW g \in 1..Len(grants), RecoverGrant(r, g)
        PROVE  LeavesReason
    <3>1. Settle(g, {}) /\ {} \in SUBSET grants[g].events
      BY <2>6 DEF RecoverGrant
    <3> QED BY <1>3, <3>1
  <2>7. CASE RecoverAtStart(r)
    BY <1>1, <2>7 DEF RecoverAtStart, processVars
  <2>8. CASE ReturnGrants(r)
    <3>1. /\ UNCHANGED mailbox
          /\ \E retryPending, retryRunning :
               shard' = [shard EXCEPT !.retry_running = retryRunning,
                                      !.retry_pending = retryPending]
      BY <2>8 DEF ReturnGrants
    <3> QED BY <1>2, <3>1
  <2> QED BY <1>4, <2>1, <2>2, <2>3, <2>4, <2>5, <2>6, <2>7, <2>8 DEF Serve
<1>5. CASE UNCHANGED processVars
  BY <1>1, <1>5 DEF processVars
<1>6. ASSUME NEW g \in 1..Len(grants), ExpireGrant(g)
      PROVE  LeavesReason
  BY <1>1, <1>6 DEF ExpireGrant
<1>7. ASSUME NEW l \in Registrations, Reregister(l)
      PROVE  LeavesReason
  BY <1>1, <1>7 DEF Reregister
<1>8. CASE UNCHANGED vars
  BY <1>5, <1>8 DEF vars
<1> QED BY <1>4, <1>5, <1>6, <1>7, <1>8 DEF Next

\* No transaction that disturbs the mailbox, the slots or the active keys leaves
\* the first waiting event without an execution of its key while a slot is free,
\* whatever limits were registered before it.
THEOREM FirstIsNotPassedOver == Spec => FirstWaiterIsServed
<1>1. TypeOK /\ AccountingInv /\ [Next]_vars => LeavesReason
  BY ReasonStep
<1> QED BY <1>1, ShardTypeCorrect, AccountingInvariant, PTL
        DEF Spec, FirstWaiterIsServed

\* The first event of a mailbox that has one.
LEMMA SomeIsFirst ==
  ASSUME NEW E, E \subseteq Events, E # {}, NEW exec \in [Events -> Execution]
  PROVE  \E e \in E : e \in First(1, E, exec)
<1>1. PICK sizes : sizes = {exec[e].sequence : e \in E}
  OBVIOUS
<1>2. sizes \subseteq Nat /\ sizes # {}
  <2>1. \A e \in E : exec[e].sequence \in Nat
    BY DEF Execution
  <2> QED BY <1>1, <2>1
<1>3. PICK n \in sizes : \A k \in Nat : k < n => k \notin sizes
  BY <1>2, Least
<1>4. PICK e \in E : exec[e].sequence = n
  BY <1>1, <1>3
<1>5. \A d \in E : ~(exec[d].sequence < exec[e].sequence)
  <2> SUFFICES ASSUME NEW d \in E PROVE ~(exec[d].sequence < exec[e].sequence)
    OBVIOUS
  <2>1. exec[d].sequence \in sizes /\ exec[d].sequence \in Nat
    BY <1>1, <1>2
  <2> QED BY <1>3, <1>4, <2>1
<1> QED BY <1>4, <1>5, FirstIsHead

\* An idle shard with free slots has a reason for no waiter, and every limit
\* leaves a slot free in an idle shard.
LEMMA WaitersStep ==
  ASSUME TypeOK, TypeOK', AccountingInv, AccountingInv', LeavesReason,
         WaitersHaveAnExecution
  PROVE  WaitersHaveAnExecution'
<1> SUFFICES ASSUME mailbox' # {}, InFlight' = {} PROVE FALSE
  BY DEF WaitersHaveAnExecution
<1>1. shard'.active_keys = {} /\ shard'.running = 0
  <2>1. shard'.active_keys = KeysOf(InFlight')
    BY DEF AccountingInv, ActiveKeysAreInFlight, KeysOf
  <2>2. shard'.running = Cardinality((InFlight \ Retries(InFlight))')
    BY DEF AccountingInv, CountersMatch
  <2>3. (InFlight \ Retries(InFlight))' = {}
    BY DEF Retries
  <2> QED BY <2>1, <2>2, <2>3, FS_EmptySet DEF KeysOf
<1>2. CASE UNCHANGED <<mailbox, shard.running, shard.active_keys>>
  <2>1. InFlight # {}
    BY <1>2 DEF WaitersHaveAnExecution
  <2>2. shard.active_keys # {}
    BY <2>1 DEF AccountingInv, ActiveKeysAreInFlight, KeysOf
  <2> QED BY <1>1, <1>2, <2>2
<1>3. CASE FirstWaiterHasReason'
  <2>1. PICK e \in mailbox' : e \in First(1, mailbox', execution')
    BY SomeIsFirst DEF TypeOK
  <2>2. KeyOf[e] \in shard'.active_keys \/ shard'.running >= limits'.concurrency
    BY <1>3, <2>1 DEF FirstWaiterHasReason, First, Concurrency
  <2>3. limits' \in Limits
    BY RegistrationsAssumption DEF TypeOK
  <2>4. limits'.concurrency \in Nat \ {0}
    BY <2>3 DEF Limits
  <2> QED BY <1>1, <2>2, <2>4
<1> QED BY <1>2, <1>3 DEF LeavesReason

\* While events wait, something is in flight whose end dispatches again.
THEOREM WaitersAreReached == Spec => []WaitersHaveAnExecution
<1>1. Init => WaitersHaveAnExecution
  BY DEF Init, InitProcess, WaitersHaveAnExecution
<1>2. TypeOK /\ TypeOK' /\ AccountingInv /\ AccountingInv' /\ [Next]_vars
        /\ WaitersHaveAnExecution => WaitersHaveAnExecution'
  BY ReasonStep, WaitersStep
<1> QED BY <1>1, <1>2, ShardTypeCorrect, AccountingInvariant, PTL DEF Spec

-----------------------------------------------------------------------------
(* Finalized keys *)

\* A step admits no event of a finalized key, and finalizes no key with work.
LEMMA FinalizedStep ==
  ASSUME TypeOK, AccountingInv, FinalizedKeysAreQuiet, [Next]_vars
  PROVE  FinalizedKeysAreQuiet'
<1>1. ASSUME UNCHANGED finalized,
             \A e \in Events : outcome'[e] = "PENDING" => outcome[e] = "PENDING"
      PROVE  FinalizedKeysAreQuiet'
  BY <1>1 DEF FinalizedKeysAreQuiet
<1>2. ASSUME UNCHANGED <<finalized, outcome>>
      PROVE  FinalizedKeysAreQuiet'
  BY <1>1, <1>2
<1>3. ASSUME NEW r \in Runtimes, NEW batch, Ingress(r, batch)
      PROVE  FinalizedKeysAreQuiet'
  <2>1. PICK events : events = NewEvents(batch)
    OBVIOUS
  <2>2. /\ finalized' = finalized
        /\ KeysOf(events) \cap finalized = {}
        /\ outcome' = [e \in Events |-> IF e \in events THEN "PENDING" ELSE outcome[e]]
    BY <1>3, <2>1 DEF Ingress
  <2> QED BY <2>2 DEF FinalizedKeysAreQuiet, KeysOf
<1>4. ASSUME NEW r \in Runtimes, NEW key, Finalize(r, key)
      PROVE  FinalizedKeysAreQuiet'
  <2>1. /\ finalized' = finalized \cup {key} /\ outcome' = outcome
        /\ key \notin shard.active_keys
        /\ \A e \in mailbox : KeyOf[e] # key
    BY <1>4 DEF Finalize
  <2>2. \A e \in Events : outcome[e] = "PENDING" => e \in mailbox \/ e \in InFlight
    BY DEF AccountingInv, EveryPendingEventIsHeldOnce
  <2>3. \A e \in InFlight : KeyOf[e] \in shard.active_keys
    BY DEF AccountingInv, ActiveKeysAreInFlight, KeysOf
  <2> QED BY <2>1, <2>2, <2>3 DEF FinalizedKeysAreQuiet
<1>5. ASSUME NEW g, NEW succeeded, Settle(g, succeeded)
      PROVE  FinalizedKeysAreQuiet'
  <2>1. finalized' = finalized
    BY <1>5 DEF Settle
  <2>2. PICK quarantined :
          outcome' = [e \in Events |->
                        CASE e \in succeeded   -> "COMMITTED"
                          [] e \in quarantined -> "FAILED"
                          [] OTHER             -> outcome[e]]
    BY <1>5 DEF Settle
  <2>3. \A e \in Events : outcome'[e] = "PENDING" => outcome[e] = "PENDING"
    BY <2>2
  <2> QED BY <1>1, <2>1, <2>3
<1>6. ASSUME NEW r \in Runtimes, Serve(r)
      PROVE  FinalizedKeysAreQuiet'
  <2>1. CASE Poll(r)
    BY <1>2, <2>1 DEF Poll
  <2>2. ASSUME NEW g, RenewGrant(r, g)
        PROVE  FinalizedKeysAreQuiet'
    BY <1>2, <2>2 DEF RenewGrant
  <2>3. ASSUME NEW g, Complete(r, g) \/ RecoverGrant(r, g)
        PROVE  FinalizedKeysAreQuiet'
    BY <1>5, <2>3 DEF Complete, RecoverGrant
  <2>4. CASE RecoverAtStart(r)
    BY <1>2, <2>4 DEF RecoverAtStart, processVars
  <2>5. CASE ReturnGrants(r)
    BY <1>2, <2>5 DEF ReturnGrants
  <2> QED BY <1>3, <1>4, <1>6, <2>1, <2>2, <2>3, <2>4, <2>5 DEF Serve
<1>7. CASE UNCHANGED processVars
  BY <1>2, <1>7 DEF processVars
<1>8. ASSUME NEW g, ExpireGrant(g)
      PROVE  FinalizedKeysAreQuiet'
  BY <1>2, <1>8 DEF ExpireGrant
<1>9. ASSUME NEW l, Reregister(l)
      PROVE  FinalizedKeysAreQuiet'
  BY <1>2, <1>9 DEF Reregister
<1>10. CASE UNCHANGED vars
  BY <1>7, <1>10 DEF vars
<1> QED BY <1>6, <1>7, <1>8, <1>9, <1>10 DEF Next

\* A finalized key has no work and never gets any.
THEOREM FinalityHolds == Spec => []FinalizedKeysAreQuiet
<1>1. Init => FinalizedKeysAreQuiet
  BY DEF Init, InitProcess, FinalizedKeysAreQuiet
<1>2. TypeOK /\ AccountingInv /\ FinalizedKeysAreQuiet /\ [Next]_vars
        => FinalizedKeysAreQuiet'
  BY FinalizedStep
<1> QED BY <1>1, <1>2, ShardTypeCorrect, AccountingInvariant, PTL DEF Spec

-----------------------------------------------------------------------------
(* The transitions of a key: each continues the one before it, an event has one. *)

\* An execution in flight carries the state its key has now: it is the only one
\* of its key, so nothing commits on the key before it does.
PriorIsCurrent ==
  \A e \in InFlight : execution[e].prior = StateIn(transitions, KeyOf[e])

\* The transitions of a key belong to its committed events, one to each.
TransitionsAreOfCommitted ==
  \A k \in ProcessKeys : \A i \in 1..Len(transitions[k]) :
    /\ KeyOf[transitions[k][i].event] = k
    /\ outcome[transitions[k][i].event] = "COMMITTED"
    /\ \A j \in 1..Len(transitions[k]) :
         transitions[k][j].event = transitions[k][i].event => j = i

CommittedHaveTransitions ==
  \A e \in Events :
    outcome[e] = "COMMITTED"
      => \E i \in 1..Len(transitions[KeyOf[e]]) : transitions[KeyOf[e]][i].event = e

HistoryInv ==
  /\ TransitionsFollow
  /\ PriorIsCurrent
  /\ TransitionsAreOfCommitted
  /\ CommittedHaveTransitions

-----------------------------------------------------------------------------
(* What a step adds to the history *)

\* The state of a key for the sequences in exec; StateIn reads execution.
Latest(trans, key, exec) ==
  IF trans[key] = <<>> THEN 0
  ELSE exec[trans[key][Len(trans[key])].event].sequence

LEMMA LastTransition ==
  ASSUME NEW s \in Seq(Transition)
  PROVE  /\ Len(s) \in Nat
         /\ s = <<>> <=> Len(s) = 0
         /\ s # <<>> => Len(s) \in 1..Len(s)
         /\ \A i \in 1..Len(s) : s[i] \in Transition /\ s[i].event \in Events
<1>1. Len(s) \in Nat
  BY LenProperties
<1>2. s = <<>> <=> Len(s) = 0
  BY EmptySeq
<1>3. \A i \in 1..Len(s) : s[i] \in Transition /\ s[i].event \in Events
  <2>1. \A i \in 1..Len(s) : s[i] \in Transition
    BY ElementOfSeq
  <2>2. \A t \in Transition : t.event \in Events
    BY DEF Transition
  <2> QED BY <2>1, <2>2
<1> QED BY <1>1, <1>2, <1>3

\* Only the events that succeed, which were in flight, add a transition, and what
\* starts or stays in flight carries the state its key then has.
LEMMA HistoryGrows ==
  ASSUME TypeOK, TypeOK', AccountingInv, HistoryInv,
         NEW succeeded, succeeded \subseteq InFlight,
         \A k \in ProcessKeys \ KeysOf(succeeded) : transitions'[k] = transitions[k],
         \A e \in succeeded : \E t \in Transition :
           /\ t.event = e
           /\ t.prior = execution[e].prior
           /\ transitions'[KeyOf[e]] = Append(transitions[KeyOf[e]], t),
         \A e \in Events :
           outcome'[e] = "COMMITTED" <=> outcome[e] = "COMMITTED" \/ e \in succeeded,
         \A e \in Events :
           outcome'[e] = "COMMITTED" => execution'[e].sequence = execution[e].sequence,
         \A e \in InFlight' :
           \/ e \in InFlight \ succeeded /\ execution'[e].prior = execution[e].prior
           \/ execution'[e].prior = Latest(transitions', KeyOf[e], execution)
  PROVE  HistoryInv'
<1>1. /\ TransitionsFollow /\ PriorIsCurrent
      /\ TransitionsAreOfCommitted /\ CommittedHaveTransitions
  BY DEF HistoryInv
<1>2. /\ \A k \in ProcessKeys : transitions[k] \in Seq(Transition)
      /\ \A k \in ProcessKeys : transitions'[k] \in Seq(Transition)
      /\ \A e \in Events : KeyOf[e] \in ProcessKeys
      /\ InFlight \subseteq Events
      /\ InFlight' \subseteq Events
  BY LeasedEvents, LeasedEventsNext DEF TypeOK, ProcessKeys
<1>3. /\ \A e, d \in InFlight : KeyOf[e] = KeyOf[d] => e = d
      /\ \A e \in InFlight : outcome[e] = "PENDING"
  <2>1. InFlight \subseteq {e \in Events : outcome[e] = "PENDING"}
    BY DEF AccountingInv, EveryPendingEventIsHeldOnce
  <2> QED BY <2>1 DEF AccountingInv, ActiveKeysAreInFlight
<1>4. \A e \in InFlight : execution[e].prior = Latest(transitions, KeyOf[e], execution)
  BY <1>1 DEF PriorIsCurrent, StateIn, Latest
\* What a key's transitions are, in the two cases.
<1>5. ASSUME NEW k \in ProcessKeys
      PROVE  \/ /\ k \notin KeysOf(succeeded)
                /\ transitions'[k] = transitions[k]
             \/ \E e \in succeeded, t \in Transition :
                  /\ KeyOf[e] = k
                  /\ t.event = e
                  /\ t.prior = execution[e].prior
                  /\ Len(transitions'[k]) = Len(transitions[k]) + 1
                  /\ \A i \in 1..Len(transitions[k]) :
                       transitions'[k][i] = transitions[k][i]
                  /\ transitions'[k][Len(transitions[k]) + 1] = t
  <2>1. CASE k \notin KeysOf(succeeded)
    BY <1>5, <2>1
  <2>2. CASE k \in KeysOf(succeeded)
    <3>1. PICK e \in succeeded : KeyOf[e] = k
      BY <2>2 DEF KeysOf
    <3>2. PICK t \in Transition :
            /\ t.event = e
            /\ t.prior = execution[e].prior
            /\ transitions'[k] = Append(transitions[k], t)
      BY <3>1
    <3>3. /\ Len(transitions'[k]) = Len(transitions[k]) + 1
          /\ \A i \in 1..Len(transitions[k]) : transitions'[k][i] = transitions[k][i]
          /\ transitions'[k][Len(transitions[k]) + 1] = t
      <4>1. transitions[k] \in Seq(Transition)
        BY <1>2
      <4> QED BY <3>2, <4>1, AppendProperties
    <3> QED BY <3>1, <3>2, <3>3
  <2> QED BY <2>1, <2>2
<1>6. ASSUME NEW k \in ProcessKeys, NEW i \in 1..Len(transitions[k])
      PROVE  /\ i \in 1..Len(transitions'[k])
             /\ transitions'[k][i] = transitions[k][i]
             /\ transitions[k][i].event \in Events
             /\ outcome[transitions[k][i].event] = "COMMITTED"
             /\ execution'[transitions[k][i].event].sequence
                  = execution[transitions[k][i].event].sequence
  <2>1. Len(transitions[k]) \in Nat /\ transitions[k][i].event \in Events
    BY <1>2, <1>6, LastTransition
  <2>2. outcome[transitions[k][i].event] = "COMMITTED"
    BY <1>1, <1>6 DEF TransitionsAreOfCommitted
  <2>3. i \in 1..Len(transitions'[k]) /\ transitions'[k][i] = transitions[k][i]
    BY <1>5, <1>6, <2>1
  <2> QED BY <2>1, <2>2, <2>3
<1>7. ASSUME NEW k \in ProcessKeys, NEW i \in 1..Len(transitions'[k]),
             i \notin 1..Len(transitions[k])
      PROVE  \E e \in succeeded :
               /\ KeyOf[e] = k
               /\ i = Len(transitions[k]) + 1
               /\ Len(transitions'[k]) = Len(transitions[k]) + 1
               /\ transitions'[k][i].event = e
               /\ transitions'[k][i].prior = execution[e].prior
  <2>1. Len(transitions[k]) \in Nat
    BY <1>2, <1>7, LastTransition
  <2>2. transitions'[k] # transitions[k]
    BY <1>7
  <2>3. PICK e \in succeeded, t \in Transition :
          /\ KeyOf[e] = k
          /\ t.event = e
          /\ t.prior = execution[e].prior
          /\ Len(transitions'[k]) = Len(transitions[k]) + 1
          /\ transitions'[k][Len(transitions[k]) + 1] = t
    BY <1>5, <2>2
  <2>4. i = Len(transitions[k]) + 1
    BY <1>7, <2>1, <2>3
  <2> QED BY <2>3, <2>4
<1>8. TransitionsFollow'
  <2> SUFFICES ASSUME NEW k \in ProcessKeys, NEW i \in 1..Len(transitions'[k])
               PROVE  transitions'[k][i].prior =
                        IF i = 1 THEN 0
                        ELSE execution'[transitions'[k][i - 1].event].sequence
    BY DEF TransitionsFollow
  <2>1. Len(transitions[k]) \in Nat
    BY <1>2, LastTransition
  <2>2. CASE i \in 1..Len(transitions[k])
    <3>1. transitions[k][i].prior = IF i = 1 THEN 0
                                    ELSE execution[transitions[k][i - 1].event].sequence
      BY <1>1, <2>2 DEF TransitionsFollow
    <3>2. transitions'[k][i] = transitions[k][i]
      BY <1>6, <2>2
    <3>3. i # 1 => i - 1 \in 1..Len(transitions[k])
      BY <2>1, <2>2
    <3>4. i # 1 => execution'[transitions'[k][i - 1].event].sequence
                     = execution[transitions[k][i - 1].event].sequence
      BY <1>6, <3>3
    <3> QED BY <3>1, <3>2, <3>4
  <2>3. CASE i \notin 1..Len(transitions[k])
    <3>1. PICK e \in succeeded :
            /\ KeyOf[e] = k
            /\ i = Len(transitions[k]) + 1
            /\ transitions'[k][i].prior = execution[e].prior
      BY <1>7, <2>3
    <3>2. transitions'[k][i].prior = Latest(transitions, k, execution)
      BY <1>4, <3>1
    <3>3. CASE Len(transitions[k]) = 0
      <4>1. transitions[k] = <<>>
        BY <1>2, <3>3, LastTransition
      <4> QED BY <3>1, <3>2, <3>3, <4>1 DEF Latest
    <3>4. CASE Len(transitions[k]) # 0
      <4>1. /\ transitions[k] # <<>>
            /\ Len(transitions[k]) \in 1..Len(transitions[k])
        BY <1>2, <2>1, <3>4, LastTransition
      <4>2. i # 1 /\ i - 1 = Len(transitions[k])
        BY <2>1, <3>1, <3>4
      <4>3. execution'[transitions'[k][i - 1].event].sequence
              = execution[transitions[k][i - 1].event].sequence
        BY <1>6, <4>1, <4>2
      <4> QED BY <3>2, <4>1, <4>2, <4>3 DEF Latest
    <3> QED BY <3>3, <3>4
  <2> QED BY <2>2, <2>3
<1>9. TransitionsAreOfCommitted'
  <2> SUFFICES ASSUME NEW k \in ProcessKeys, NEW i \in 1..Len(transitions'[k])
               PROVE  /\ KeyOf[transitions'[k][i].event] = k
                      /\ outcome'[transitions'[k][i].event] = "COMMITTED"
                      /\ \A j \in 1..Len(transitions'[k]) :
                           transitions'[k][j].event = transitions'[k][i].event => j = i
    BY DEF TransitionsAreOfCommitted
  <2>1. ASSUME NEW j \in 1..Len(transitions'[k])
        PROVE  \/ /\ j \in 1..Len(transitions[k])
                  /\ transitions'[k][j].event = transitions[k][j].event
                  /\ transitions[k][j].event \in Events
                  /\ outcome[transitions[k][j].event] = "COMMITTED"
               \/ /\ j = Len(transitions[k]) + 1
                  /\ transitions'[k][j].event \in succeeded
                  /\ KeyOf[transitions'[k][j].event] = k
    BY <1>6, <1>7, <2>1
  <2>2. KeyOf[transitions'[k][i].event] = k
    BY <1>1, <2>1 DEF TransitionsAreOfCommitted
  <2>3. outcome'[transitions'[k][i].event] = "COMMITTED"
    BY <1>2, <2>1
  <2>4. ASSUME NEW j \in 1..Len(transitions'[k]),
               transitions'[k][j].event = transitions'[k][i].event
        PROVE  j = i
    <3>1. \A e \in succeeded : outcome[e] # "COMMITTED"
      BY <1>3
    <3>2. CASE i \in 1..Len(transitions[k]) /\ j \in 1..Len(transitions[k])
      BY <1>1, <1>6, <2>4, <3>2 DEF TransitionsAreOfCommitted
    <3>3. CASE i \notin 1..Len(transitions[k]) /\ j \notin 1..Len(transitions[k])
      BY <2>1, <2>4, <3>3
    <3>4. CASE i \in 1..Len(transitions[k]) /\ j \notin 1..Len(transitions[k])
      BY <2>1, <2>4, <3>1, <3>4, SMTT(30)
    <3>5. CASE i \notin 1..Len(transitions[k]) /\ j \in 1..Len(transitions[k])
      BY <2>1, <2>4, <3>1, <3>5
    <3> QED BY <3>2, <3>3, <3>4, <3>5
  <2> QED BY <2>2, <2>3, <2>4
<1>10. CommittedHaveTransitions'
  <2> SUFFICES ASSUME NEW e \in Events, outcome'[e] = "COMMITTED"
               PROVE  \E i \in 1..Len(transitions'[KeyOf[e]]) :
                        transitions'[KeyOf[e]][i].event = e
    BY DEF CommittedHaveTransitions
  <2>1. CASE outcome[e] = "COMMITTED"
    <3>1. PICK i \in 1..Len(transitions[KeyOf[e]]) : transitions[KeyOf[e]][i].event = e
      BY <1>1, <2>1 DEF CommittedHaveTransitions
    <3> QED BY <1>2, <1>6, <3>1
  <2>2. CASE e \in succeeded
    <3>1. PICK k \in ProcessKeys : k = KeyOf[e]
      BY <1>2
    <3>2. k \in KeysOf(succeeded)
      BY <2>2, <3>1 DEF KeysOf
    <3>3. PICK d \in succeeded, t \in Transition :
            /\ KeyOf[d] = k
            /\ t.event = d
            /\ Len(transitions'[k]) = Len(transitions[k]) + 1
            /\ transitions'[k][Len(transitions[k]) + 1] = t
      BY <1>5, <3>2
    <3>4. d = e
      BY <1>3, <2>2, <3>1, <3>3
    <3>5. Len(transitions[k]) \in Nat
      BY <1>2, LastTransition
    <3>6. Len(transitions[k]) + 1 \in 1..Len(transitions'[k])
      BY <3>3, <3>5
    <3> QED BY <3>1, <3>3, <3>4, <3>6
  <2> QED BY <2>1, <2>2
<1>11. PriorIsCurrent'
  <2>1. ASSUME NEW k \in ProcessKeys
        PROVE  Latest(transitions', k, execution') = Latest(transitions', k, execution)
    <3>1. CASE transitions'[k] = <<>>
      BY <3>1 DEF Latest
    <3>2. CASE transitions'[k] # <<>>
      <4>1. PICK last : last = transitions'[k][Len(transitions'[k])].event
        OBVIOUS
      <4>2. Len(transitions'[k]) \in 1..Len(transitions'[k]) /\ last \in Events
        BY <1>2, <3>2, <4>1, LastTransition
      <4>3. outcome'[last] = "COMMITTED"
        BY <1>9, <4>1, <4>2 DEF TransitionsAreOfCommitted
      <4> QED BY <3>2, <4>1, <4>2, <4>3 DEF Latest
    <3> QED BY <3>1, <3>2
  <2> SUFFICES ASSUME NEW e \in InFlight'
               PROVE  execution'[e].prior = Latest(transitions', KeyOf[e], execution')
    BY DEF PriorIsCurrent, StateIn, Latest
  <2>2. e \in Events /\ KeyOf[e] \in ProcessKeys
    BY <1>2
  <2>3. CASE e \in InFlight \ succeeded /\ execution'[e].prior = execution[e].prior
    <3>1. KeyOf[e] \notin KeysOf(succeeded)
      BY <1>3, <2>3 DEF KeysOf
    <3>2. transitions'[KeyOf[e]] = transitions[KeyOf[e]]
      BY <2>2, <3>1
    <3>3. Latest(transitions', KeyOf[e], execution) = Latest(transitions, KeyOf[e], execution)
      BY <3>2 DEF Latest
    <3> QED BY <1>4, <2>1, <2>2, <2>3, <3>3
  <2>4. CASE execution'[e].prior = Latest(transitions', KeyOf[e], execution)
    BY <2>1, <2>2, <2>4
  <2> QED BY <2>3, <2>4
<1> QED BY <1>8, <1>9, <1>10, <1>11 DEF HistoryInv

-----------------------------------------------------------------------------
(* One lemma per kind of step *)

\* A step that commits nothing.
LEMMA HistoryKept ==
  ASSUME TypeOK, TypeOK', AccountingInv, HistoryInv,
         transitions' = transitions,
         \A e \in Events : outcome'[e] = "COMMITTED" <=> outcome[e] = "COMMITTED",
         \A e \in Events :
           outcome[e] = "COMMITTED" => execution'[e].sequence = execution[e].sequence,
         \A e \in InFlight' :
           \/ e \in InFlight /\ execution'[e].prior = execution[e].prior
           \/ execution'[e].prior = StateIn(transitions, KeyOf[e])
  PROVE  HistoryInv'
<1>1. PICK succeeded : succeeded = {}
  OBVIOUS
<1>2. /\ succeeded \subseteq InFlight
      /\ \A k \in ProcessKeys \ KeysOf(succeeded) : transitions'[k] = transitions[k]
      /\ \A e \in succeeded : \E t \in Transition :
           /\ t.event = e
           /\ t.prior = execution[e].prior
           /\ transitions'[KeyOf[e]] = Append(transitions[KeyOf[e]], t)
      /\ \A e \in Events :
           outcome'[e] = "COMMITTED" <=> outcome[e] = "COMMITTED" \/ e \in succeeded
      /\ \A e \in Events :
           outcome'[e] = "COMMITTED" => execution'[e].sequence = execution[e].sequence
  BY <1>1
<1>3. \A e \in InFlight' :
        \/ e \in InFlight \ succeeded /\ execution'[e].prior = execution[e].prior
        \/ execution'[e].prior = Latest(transitions', KeyOf[e], execution)
  BY <1>1 DEF StateIn, Latest
<1> QED BY <1>2, <1>3, HistoryGrows

\* Admission renumbers new events only, and gives what it starts the current state.
LEMMA IngressHistory ==
  ASSUME TypeOK, TypeOK', AccountingInv, HistoryInv,
         NEW r \in Runtimes, NEW batch \in IngressBatches, Ingress(r, batch)
  PROVE  HistoryInv'
<1>1. PICK events : events = NewEvents(batch)
  OBVIOUS
<1>2. PICK exec : exec = Numbered(batch)
  OBVIOUS
<1>3. PICK fresh : /\ ready' = ready \cup fresh
                   /\ execution' = WithPrior(exec, fresh, transitions)
                   /\ outcome' = [e \in Events |->
                                    IF e \in events THEN "PENDING" ELSE outcome[e]]
                   /\ transitions' = transitions
                   /\ grants' = grants
  <2>1. PICK direct, started : /\ ready' = ready \cup direct \cup started
                               /\ execution' = WithPrior(exec, direct \cup started,
                                                         transitions)
                               /\ outcome' = [e \in Events |->
                                                IF e \in events THEN "PENDING"
                                                ELSE outcome[e]]
                               /\ transitions' = transitions
                               /\ grants' = grants
    BY <1>1, <1>2 DEF Ingress
  <2>2. ready \cup direct \cup started = ready \cup (direct \cup started)
    OBVIOUS
  <2> QED BY <2>1, <2>2
<1>4. /\ \A e \in Events : exec[e].prior = execution[e].prior
      /\ \A e \in Events \ events : exec[e] = execution[e]
      /\ exec \in [Events -> Execution]
      /\ \A e \in events : outcome[e] = "none"
  BY <1>1, <1>2, NumberedSequences, NumberedType DEF NewEvents
<1>5. \A e \in Events :
        /\ execution'[e].sequence = exec[e].sequence
        /\ execution'[e].prior = IF e \in fresh THEN StateIn(transitions, KeyOf[e])
                                 ELSE exec[e].prior
  <2> SUFFICES ASSUME NEW e \in Events
               PROVE  /\ execution'[e].sequence = exec[e].sequence
                      /\ execution'[e].prior = IF e \in fresh
                                               THEN StateIn(transitions, KeyOf[e])
                                               ELSE exec[e].prior
    OBVIOUS
  <2>1. exec[e] \in Execution
    BY <1>4
  <2>2. PICK state : state = StateIn(transitions, KeyOf[e])
    OBVIOUS
  <2>3. execution'[e] = IF e \in fresh THEN [exec[e] EXCEPT !.prior = state] ELSE exec[e]
    BY <1>3, <2>2 DEF WithPrior
  <2> QED BY <2>1, <2>2, <2>3 DEF Execution
<1>6. InFlight' = InFlight \cup fresh /\ InFlight' \subseteq Events
  <2>1. Leased' = Leased
    BY <1>3 DEF Leased, Open
  <2> QED BY <1>3, <2>1, LeasedEventsNext DEF InFlight
<1>7. \A e \in InFlight' :
        \/ e \in InFlight /\ execution'[e].prior = execution[e].prior
        \/ execution'[e].prior = StateIn(transitions, KeyOf[e])
  BY <1>4, <1>5, <1>6
<1>8. \A e \in Events :
        outcome[e] = "COMMITTED" => execution'[e].sequence = execution[e].sequence
  BY <1>4, <1>5
<1>9. \A e \in Events : outcome'[e] = "COMMITTED" <=> outcome[e] = "COMMITTED"
  BY <1>3, <1>4
<1> QED BY <1>3, <1>7, <1>8, <1>9, HistoryKept

\* A result commits the successes on the state their keys had, and what dispatch
\* starts then carries the state they left.
LEMMA SettleHistory ==
  ASSUME TypeOK, TypeOK', AccountingInv, HistoryInv,
         NEW g \in Open, NEW succeeded \in SUBSET grants[g].events,
         Settle(g, succeeded),
         Leased' = Leased \ grants[g].events,
         grants[g].events \subseteq Leased
  PROVE  HistoryInv'
<1>1. PICK failures : failures = grants[g].events \ succeeded
  OBVIOUS
<1>2. PICK quarantined :
        quarantined = {e \in failures : execution[e].attempt + 1 >= MaxAttempts}
  OBVIOUS
<1>3. PICK retried : retried = failures \ quarantined
  OBVIOUS
<1>4. PICK exec :
        exec = [e \in Events |->
                  IF e \in failures
                  THEN [execution[e] EXCEPT !.attempt = @ + 1] ELSE execution[e]]
  OBVIOUS
<1>5. PICK trans :
        trans = [k \in ProcessKeys |->
                   IF k \in KeysOf(succeeded)
                   THEN LET e == CHOOSE e \in succeeded : KeyOf[e] = k IN
                        Append(transitions[k],
                               [event |-> e, prior |-> execution[e].prior,
                                grant |-> g])
                   ELSE transitions[k]]
  OBVIOUS
<1>6. PICK started :
        /\ ready' = ready \cup retried \cup started
        /\ execution' = WithPrior(exec, started, trans)
        /\ transitions' = trans
        /\ outcome' = [e \in Events |->
                         CASE e \in succeeded   -> "COMMITTED"
                           [] e \in quarantined -> "FAILED"
                           [] OTHER             -> outcome[e]]
  BY <1>1, <1>2, <1>3, <1>4, <1>5 DEF Settle, DispatchAfter
<1>7. /\ succeeded \subseteq Leased /\ Leased \subseteq InFlight
      /\ InFlight \subseteq Events /\ InFlight' \subseteq Events
      /\ failures \subseteq Leased /\ quarantined \subseteq failures
      /\ succeeded \cap failures = {}
  BY <1>1, <1>2, LeasedEvents, LeasedEventsNext DEF InFlight
<1>8. /\ \A e, d \in InFlight : KeyOf[e] = KeyOf[d] => e = d
      /\ \A e \in InFlight : outcome[e] = "PENDING"
  <2>1. InFlight \subseteq {e \in Events : outcome[e] = "PENDING"}
    BY DEF AccountingInv, EveryPendingEventIsHeldOnce
  <2> QED BY <2>1 DEF AccountingInv, ActiveKeysAreInFlight
<1>9. \A e \in Events :
        /\ execution'[e].sequence = execution[e].sequence
        /\ execution'[e].prior = IF e \in started THEN StateIn(trans, KeyOf[e])
                                 ELSE execution[e].prior
  <2> SUFFICES ASSUME NEW e \in Events
               PROVE  /\ execution'[e].sequence = execution[e].sequence
                      /\ execution'[e].prior = IF e \in started
                                               THEN StateIn(trans, KeyOf[e])
                                               ELSE execution[e].prior
    OBVIOUS
  <2>1. execution[e] \in Execution
    BY DEF TypeOK
  <2>2. PICK attempt : attempt = execution[e].attempt + 1
    OBVIOUS
  <2>3. exec[e] = IF e \in failures THEN [execution[e] EXCEPT !.attempt = attempt]
                  ELSE execution[e]
    BY <1>4, <2>2
  <2>4. /\ exec[e].sequence = execution[e].sequence
        /\ exec[e].prior = execution[e].prior
        /\ exec[e] = [sequence |-> exec[e].sequence, attempt |-> exec[e].attempt,
                      prior |-> exec[e].prior]
    BY <2>1, <2>3 DEF Execution
  <2>5. PICK state : state = StateIn(trans, KeyOf[e])
    OBVIOUS
  <2>6. execution'[e] = IF e \in started THEN [exec[e] EXCEPT !.prior = state] ELSE exec[e]
    BY <1>6, <2>5 DEF WithPrior
  <2> QED BY <2>4, <2>5, <2>6
<1>10. \A e \in Events :
         outcome'[e] = "COMMITTED" <=> outcome[e] = "COMMITTED" \/ e \in succeeded
  <2> SUFFICES ASSUME NEW e \in Events
               PROVE  outcome'[e] = "COMMITTED"
                        <=> outcome[e] = "COMMITTED" \/ e \in succeeded
    OBVIOUS
  <2>1. CASE e \in succeeded
    BY <1>6, <1>7, <2>1
  <2>2. CASE e \in quarantined
    BY <1>6, <1>7, <1>8, <2>2
  <2>3. CASE e \notin succeeded /\ e \notin quarantined
    BY <1>6, <2>3
  <2> QED BY <2>1, <2>2, <2>3
<1>11. \A k \in ProcessKeys \ KeysOf(succeeded) : transitions'[k] = transitions[k]
  BY <1>5, <1>6
<1>12. ASSUME NEW e \in succeeded
       PROVE  \E t \in Transition :
                /\ t.event = e
                /\ t.prior = execution[e].prior
                /\ transitions'[KeyOf[e]] = Append(transitions[KeyOf[e]], t)
  <2>1. e \in InFlight /\ e \in Events /\ KeyOf[e] \in ProcessKeys
        /\ KeyOf[e] \in KeysOf(succeeded)
    BY <1>7 DEF ProcessKeys, KeysOf
  <2>2. PICK d : d = CHOOSE c \in succeeded : KeyOf[c] = KeyOf[e]
    OBVIOUS
  <2>3. d \in succeeded /\ KeyOf[d] = KeyOf[e]
    BY <2>2
  <2>4. d = e
    BY <1>7, <1>8, <2>1, <2>3
  <2>5. PICK t : t = [event |-> e, prior |-> execution[e].prior, grant |-> g]
    OBVIOUS
  <2>6. execution[e].prior \in Nat /\ g \in Nat
    BY <2>1 DEF TypeOK, Execution, Open
  <2>7. t \in Transition /\ t.event = e /\ t.prior = execution[e].prior
    BY <2>1, <2>5, <2>6 DEF Transition
  <2>8. trans[KeyOf[e]] = Append(transitions[KeyOf[e]],
                                 [event |-> d, prior |-> execution[d].prior, grant |-> g])
    BY <1>5, <2>1, <2>2
  <2>9. transitions'[KeyOf[e]] = Append(transitions[KeyOf[e]], t)
    BY <1>6, <2>4, <2>5, <2>8
  <2> QED BY <2>7, <2>9
<1>13. \A e \in InFlight' :
         \/ e \in InFlight \ succeeded /\ execution'[e].prior = execution[e].prior
         \/ execution'[e].prior = Latest(transitions', KeyOf[e], execution)
  <2> SUFFICES ASSUME NEW e \in InFlight', e \notin started
               PROVE  e \in InFlight \ succeeded
    <3>1. \A e \in InFlight' : e \in started
            => execution'[e].prior = Latest(transitions', KeyOf[e], execution)
      BY <1>6, <1>7, <1>9 DEF StateIn, Latest
    <3>2. \A e \in InFlight' : e \notin started
            => e \in InFlight \ succeeded /\ execution'[e].prior = execution[e].prior
      BY <1>7, <1>9
    <3> QED BY <3>1, <3>2
  <2>1. ready \cap Leased = {}
    BY DEF AccountingInv, EveryPendingEventIsHeldOnce
  <2> QED BY <1>1, <1>3, <1>6, <1>7, <2>1 DEF InFlight
<1>14. \A e \in Events :
         outcome'[e] = "COMMITTED" => execution'[e].sequence = execution[e].sequence
  BY <1>9
<1> QED BY <1>7, <1>10, <1>11, <1>12, <1>13, <1>14, HistoryGrows

\* A step that moves executions at most from one place in flight to another.
LEMMA HistoryStays ==
  ASSUME TypeOK, TypeOK', AccountingInv, HistoryInv,
         UNCHANGED <<execution, outcome, transitions>>,
         InFlight' \subseteq InFlight
  PROVE  HistoryInv'
BY HistoryKept

\* Every step continues the history.
LEMMA HistoryStep ==
  ASSUME TypeOK, TypeOK', AccountingInv, HistoryInv, [Next]_vars
  PROVE  HistoryInv'
<1>1. grants \in Seq(Grant) /\ GrantsAreApart
  BY AccountingParts DEF TypeOK
<1>2. ASSUME UNCHANGED <<ready, execution, outcome, grants, transitions>>
      PROVE  HistoryInv'
  <2>1. InFlight' = InFlight
    BY <1>2 DEF InFlight, Leased, Open
  <2> QED BY <1>2, <2>1, HistoryStays
<1>3. ASSUME NEW g \in 1..Len(grants), NEW expired \in BOOLEAN,
             grants' = [grants EXCEPT ![g].expired = expired],
             UNCHANGED <<ready, execution, outcome, transitions>>
      PROVE  HistoryInv'
  <2>1. Leased' = Leased
    BY <1>1, <1>3, GrantsExpiry
  <2>2. InFlight' = InFlight
    BY <1>3, <2>1 DEF InFlight
  <2> QED BY <1>3, <2>2, HistoryStays
<1>4. ASSUME NEW g \in Open, NEW succeeded \in SUBSET grants[g].events,
             NEW status \in {"completed", "revoked"},
             Settle(g, succeeded), CloseGrant(g, status)
      PROVE  HistoryInv'
  <2>1. grants' = [grants EXCEPT ![g].status = status, ![g].expired = FALSE]
    BY <1>4 DEF CloseGrant
  <2>2. /\ Leased' = Leased \ grants[g].events
        /\ grants[g].events \subseteq Leased
    BY <1>1, <2>1, GrantClosed
  <2> QED BY <1>4, <2>2, SettleHistory
<1>5. ASSUME NEW r \in Runtimes, Poll(r)
      PROVE  HistoryInv'
  <2>1. PICK selected \in SUBSET ready :
          /\ Owns(r)
          /\ ready' = ready \ selected
          /\ grants' = Append(grants, [epoch |-> owner.epoch, events |-> selected,
                                       expired |-> FALSE, status |-> "open"])
          /\ UNCHANGED <<execution, outcome, transitions>>
    <3>1. PICK candidates \in SUBSET ready :
            LET retries == Retries(candidates)
                slots == Minus(RetryConcurrency, shard.retry_running)
                admitted == (candidates \ retries) \cup First(slots, retries, execution)
                selected == First(BatchMaxSize, admitted, execution)
            IN
            /\ Owns(r)
            /\ ready' = ready \ selected
            /\ grants' = Append(grants, [epoch |-> owner.epoch, events |-> selected,
                                         expired |-> FALSE, status |-> "open"])
            /\ UNCHANGED <<execution, outcome, transitions>>
      BY <1>5 DEF Poll
    <3>2. PICK retries : retries = Retries(candidates)
      OBVIOUS
    <3>3. PICK first :
            first = First(Minus(RetryConcurrency, shard.retry_running), retries, execution)
      OBVIOUS
    <3>4. PICK selected :
            selected = First(BatchMaxSize, (candidates \ retries) \cup first, execution)
      OBVIOUS
    <3>5. selected \in SUBSET ready
      BY <3>2, <3>3, <3>4 DEF First, Retries
    <3> QED BY <3>1, <3>2, <3>3, <3>4, <3>5
  <2>2. PICK grant : grant = [epoch |-> owner.epoch, events |-> selected,
                              expired |-> FALSE, status |-> "open"]
    OBVIOUS
  <2>3. owner.epoch \in Nat
    BY <2>1, MaxEpochAssumption
       DEF Owns, ActiveAt, Assigned, TypeOK, OwnershipTypeOK, Owner
  <2>4. grant \in Grant /\ grant.status = "open" /\ grant.events = selected
    BY <2>2, <2>3 DEF Grant, TypeOK
  <2>5. selected \cap Leased = {}
    BY DEF AccountingInv, EveryPendingEventIsHeldOnce
  <2>6. Leased' = Leased \cup selected
    BY <1>1, <2>1, <2>2, <2>4, <2>5, GrantAdded
  <2>7. InFlight' \subseteq InFlight
    BY <2>1, <2>6 DEF InFlight
  <2> QED BY <2>1, <2>7, HistoryStays
<1>6. ASSUME NEW r \in Runtimes, ReturnGrants(r)
      PROVE  HistoryInv'
  <2>1. /\ ready' = InFlight
        /\ grants' = [g \in 1..Len(grants) |->
                        IF g \in Open THEN [grants[g] EXCEPT !.status = "revoked",
                                                             !.expired = FALSE]
                        ELSE grants[g]]
        /\ UNCHANGED <<execution, outcome, transitions>>
    BY <1>6 DEF ReturnGrants
  <2>2. Leased' = {}
    BY <1>1, <2>1, GrantsReturned
  <2>3. InFlight' = ready'
    BY <2>2 DEF InFlight
  <2> QED BY <2>1, <2>3, HistoryStays
<1>7. ASSUME NEW r \in Runtimes, Serve(r)
      PROVE  HistoryInv'
  <2>1. ASSUME NEW batch \in IngressBatches, Ingress(r, batch)
        PROVE  HistoryInv'
    BY <2>1, IngressHistory
  <2>2. ASSUME NEW key \in ProcessKeys, Finalize(r, key)
        PROVE  HistoryInv'
    BY <1>2, <2>2 DEF Finalize
  <2>3. ASSUME NEW g \in 1..Len(grants), RenewGrant(r, g)
        PROVE  HistoryInv'
    BY <1>3, <2>3 DEF RenewGrant
  <2>4. ASSUME NEW g \in 1..Len(grants), Complete(r, g)
        PROVE  HistoryInv'
    BY <1>4, <2>4 DEF Complete
  <2>5. ASSUME NEW g \in 1..Len(grants), RecoverGrant(r, g)
        PROVE  HistoryInv'
    <3>1. /\ g \in Open /\ Settle(g, {}) /\ CloseGrant(g, "revoked")
          /\ {} \in SUBSET grants[g].events
      BY <2>5 DEF RecoverGrant
    <3> QED BY <1>4, <3>1
  <2>6. CASE RecoverAtStart(r)
    BY <1>2, <2>6 DEF RecoverAtStart, processVars
  <2> QED BY <1>5, <1>6, <1>7, <2>1, <2>2, <2>3, <2>4, <2>5, <2>6 DEF Serve
<1>8. CASE UNCHANGED processVars
  BY <1>2, <1>8 DEF processVars
<1>9. ASSUME NEW g \in 1..Len(grants), ExpireGrant(g)
      PROVE  HistoryInv'
  BY <1>3, <1>9 DEF ExpireGrant
<1>10. ASSUME NEW l \in Registrations, Reregister(l)
      PROVE  HistoryInv'
  BY <1>2, <1>10 DEF Reregister
<1>11. CASE UNCHANGED vars
  BY <1>8, <1>11 DEF vars
<1> QED BY <1>7, <1>8, <1>9, <1>10, <1>11 DEF Next

\* A shard without transitions has a history in order.
LEMMA HistoryInit ==
  ASSUME Init
  PROVE  HistoryInv
<1>1. /\ ready = {} /\ grants = <<>>
      /\ outcome = [e \in Events |-> "none"]
      /\ transitions = [k \in ProcessKeys |-> <<>>]
  BY DEF Init, InitProcess
<1>2. \A k \in ProcessKeys : \A i \in 1..Len(transitions[k]) : FALSE
  BY <1>1
<1>3. InFlight = {}
  <2>1. Open = {}
    BY <1>1 DEF Open
  <2>2. \A e : e \notin Leased
    BY <2>1 DEF Leased
  <2> QED BY <1>1, <2>2 DEF InFlight
<1> QED BY <1>1, <1>2, <1>3
        DEF HistoryInv, TransitionsFollow, PriorIsCurrent, TransitionsAreOfCommitted,
            CommittedHaveTransitions

\* Whatever attempts, owners and losses lie between, the history of every key is
\* in order.
THEOREM HistoryInvariant == Spec => []HistoryInv
<1>1. Init => HistoryInv
  BY HistoryInit
<1>2. TypeOK /\ TypeOK' /\ AccountingInv /\ HistoryInv /\ [Next]_vars => HistoryInv'
  BY HistoryStep
<1> QED BY <1>1, <1>2, ShardTypeCorrect, AccountingInvariant, PTL DEF Spec

\* No lost update: a transition starts from the state the one before it left.
THEOREM NoLostUpdate == Spec => []TransitionsFollow
<1>1. HistoryInv => TransitionsFollow
  BY DEF HistoryInv
<1> QED BY <1>1, HistoryInvariant, PTL

\* In a history in order an event has one transition or, not committed, none.
LEMMA OneTransitionEach ==
  ASSUME TypeOK, HistoryInv
  PROVE  OneTransitionPerEvent
<1> SUFFICES ASSUME NEW e \in Events
             PROVE  LET at == {i \in 1..Len(transitions[KeyOf[e]]) :
                                 transitions[KeyOf[e]][i].event = e}
                    IN Cardinality(at) = IF outcome[e] = "COMMITTED" THEN 1 ELSE 0
  BY DEF OneTransitionPerEvent
<1>1. PICK k \in ProcessKeys : k = KeyOf[e]
  BY DEF ProcessKeys
<1>2. PICK at : at = {i \in 1..Len(transitions[k]) : transitions[k][i].event = e}
  OBVIOUS
<1>3. CASE outcome[e] = "COMMITTED"
  <2>1. PICK i \in 1..Len(transitions[k]) : transitions[k][i].event = e
    BY <1>1, <1>3 DEF HistoryInv, CommittedHaveTransitions
  <2>2. at = {i}
    BY <1>2, <2>1 DEF HistoryInv, TransitionsAreOfCommitted
  <2>3. Cardinality(at) = 1
    BY <2>2, FS_Singleton
  <2> QED BY <1>1, <1>2, <1>3, <2>3
<1>4. CASE outcome[e] # "COMMITTED"
  <2>1. at = {}
    BY <1>2, <1>4 DEF HistoryInv, TransitionsAreOfCommitted
  <2>2. Cardinality(at) = 0
    BY <2>1, FS_EmptySet
  <2> QED BY <1>1, <1>2, <1>4, <2>2
<1> QED BY <1>3, <1>4

\* An event changes the state of its key at most once, and exactly when it is
\* COMMITTED, through every retry, late completion and transfer.
THEOREM ExactlyOnceEffect == Spec => []OneTransitionPerEvent
<1>1. TypeOK /\ HistoryInv => OneTransitionPerEvent
  BY OneTransitionEach
<1> QED BY <1>1, ShardTypeCorrect, HistoryInvariant, PTL

=============================================================================
