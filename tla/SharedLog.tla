----------------------------- MODULE SharedLog -----------------------------
(***************************************************************************)
(* What one journal lane promises to the runtimes that share it: a single  *)
(* sequence of records that only grows, replicas that hold a prefix of it, *)
(* and acknowledgements given only for records that are in it.             *)
(*                                                                         *)
(* ObjectJournal is the implementation: immutable objects, a head object   *)
(* replaced by conditional writes, and recovery by walking parents.        *)
(***************************************************************************)
EXTENDS Naturals, Sequences

CONSTANTS
  Runtimes,      \* the server processes that append to the lane
  RecordPaths    \* the names immutable records may get

VARIABLES
  log,           \* the committed records, in commit order
  replica,       \* [Runtimes -> the records each runtime has applied]
  acked          \* the records whose append was reported as successful

vars == <<log, replica, acked>>

Prefix(s, n) == SubSeq(s, 1, n)
Committed(p) == \E i \in 1..Len(log) : log[i] = p

Init ==
  /\ log = <<>>
  /\ replica = [r \in Runtimes |-> <<>>]
  /\ acked = {}

\* A record takes the next position of the lane; it has at most one position.
Commit(p) ==
  /\ ~Committed(p)
  /\ log' = Append(log, p)
  /\ UNCHANGED <<replica, acked>>

\* A runtime applies committed records it has not applied yet, in log order.
Learn(r) ==
  \E n \in Len(replica[r])..Len(log) :
    /\ replica' = [replica EXCEPT ![r] = Prefix(log, n)]
    /\ UNCHANGED <<log, acked>>

\* A runtime applies its own record and reports the append as successful.
Acknowledge(r, p) ==
  /\ Committed(p)
  /\ acked' = acked \cup {p}
  /\ log' = log
  /\ \E n \in Len(replica[r])..Len(log) :
       /\ n > 0
       /\ log[n] = p
       /\ replica' = [replica EXCEPT ![r] = Prefix(log, n)]

\* A crash takes a runtime back to an earlier prefix, never elsewhere.
Forget(r) ==
  \E n \in 0..Len(replica[r]) :
    /\ replica' = [replica EXCEPT ![r] = Prefix(@, n)]
    /\ UNCHANGED <<log, acked>>

Next ==
  \/ \E p \in RecordPaths : Commit(p)
  \/ \E r \in Runtimes : Learn(r) \/ Forget(r)
  \/ \E r \in Runtimes, p \in RecordPaths : Acknowledge(r, p)

Spec == Init /\ [][Next]_vars
=============================================================================
