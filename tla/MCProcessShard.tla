-------------------------- MODULE MCProcessShard --------------------------
(* Small instances of ProcessShard: up to two keys and two runtimes. *)
EXTENDS ProcessShard

CONSTANTS r1, r2, a1, a2, b1, b2

OneRuntime == {r1}
TwoRuntimes == {r1, r2}
SameNode == [r \in Runtimes |-> "n1"]
TwoNodes == [r \in Runtimes |-> IF r = r1 THEN "n1" ELSE "n2"]

OneKey == {a1, a2}
TwoKeys == {a1, a2, b1, b2}
ThreeEvents == {a1, a2, b1}
MCKeyOf == [e \in Events |-> IF e \in {a1, a2} THEN "a" ELSE "b"]

Limited(concurrency, retries, capacity, batch, attempts) ==
  [concurrency |-> concurrency, retry_concurrency |-> retries,
   capacity |-> capacity, batch_max_size |-> batch, max_attempts |-> attempts]

Narrow == Limited(1, 1, 2, 1, 2)
NarrowBatched == Limited(1, 1, 2, 2, 2)
OneLimit == {Narrow}
Serial == {Limited(1, 1, 4, 2, 2)}
Batched == {NarrowBatched}
RaisedAndLowered == {Limited(2, 2, 3, 2, 2), Narrow}
AllLimits == Batched \cup RaisedAndLowered

\* The run process_shard explores two instances, told apart by what the process
\* is registered with.  In the first the partition changes hands: one key (the
\* other is finalized before anything is sent), one registration, three grants.
\* In the second it stays with r1 and the load changes: two keys, limits raised
\* and lowered at any moment.
ChangesHands == /\ limits \in Batched
                /\ Len(grants) <= 3
                /\ "b" \in finalized \/ outcome = [e \in Events |-> "none"]

ChangesLoad == /\ limits \in RaisedAndLowered
               /\ \A r \in Runtimes :
                    stage[r] # "new" => r = r1 /\ stage[r] # "down"
               /\ Assigned => owner.epoch = 1 /\ owner.live /\ owner.status = "ACTIVE"

Explored == \/ ChangesHands /\ ChangesHands'
            \/ ChangesLoad /\ ChangesLoad'

MCSpec == Init /\ [][Next /\ Explored]_vars
=============================================================================
