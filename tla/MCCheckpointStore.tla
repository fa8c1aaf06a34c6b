------------------------- MODULE MCCheckpointStore -------------------------
EXTENDS CheckpointStore

CONSTANTS r1, r2, request

OneRequest == {request}

(* The two records differ in nothing but their name, so that a second one is *)
(* only needed where a WAL file is replaced.                                  *)
SecondReplacesFirst ==
  \A l \in Lanes : \A s \in 1 .. MaxSequence :
    wal[l][s] = NoRecord => wal'[l][s] # r2

MCSpec == Init /\ [][Next /\ SecondReplacesFirst]_vars /\ Fairness
=============================================================================
