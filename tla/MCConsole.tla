----------------------------- MODULE MCConsole -----------------------------
(* A small instance of what runs in the browser. The parts share no state:   *)
(* a behaviour is one of one part, while the others stay as they started, so *)
(* that the instance is their sum and not their product. (Where a part stays *)
(* as it started, nothing its fairness asks for is enabled.)                  *)
EXTENDS ConsoleSession, ConsolePages, ConsoleHistory, LandingPage

CONSTANTS c1, c2, w1, w2, j1, j2

VARIABLE part

TwoLogins == {c1, c2}
(* Growth that a shorter interval would overstate.                           *)
MCRecordsAt == [t \in Times |-> IF t = 0 THEN 0 ELSE t + 2]

TwoRuns == {w1, w2}
TwoJobs == {j1, j2}

(* Any order of the named sections and one more, with any of them missing.   *)
MCSections == <<"applications", "operations", "access">>
MCDocuments ==
  {d \in UNION {[1 .. n -> {"applications", "operations", "access", "extra"}] : n \in 0 .. 4} :
     \A i, k \in DOMAIN d : d[i] = d[k] => i = k}

vars == <<consoleVars, pagesVars, historyVars, landingVars, part>>

Init ==
  /\ SessionInit /\ PagesInit /\ HistoryInit /\ LandingInit
  /\ part \in {"session", "pages", "history", "landing"}
  /\ part # "session" => credential = NoCredential /\ accepted = c1
  /\ part # "pages" => here = Plain("overview")
  /\ part # "landing" => document = MCSections

Next ==
  \/ /\ part = "session" /\ SessionNext
     /\ UNCHANGED <<pagesVars, historyVars, landingVars, part>>
  \/ /\ part = "pages" /\ PagesNext
     /\ UNCHANGED <<consoleVars, historyVars, landingVars, part>>
  \/ /\ part = "history" /\ HistoryNext
     /\ UNCHANGED <<consoleVars, pagesVars, landingVars, part>>
  \/ /\ part = "landing" /\ LandingNext
     /\ UNCHANGED <<consoleVars, pagesVars, historyVars, part>>

Spec == Init /\ [][Next]_vars /\ SessionFairness /\ PagesFairness

(* The four parts' types.                                                    *)
TypeOK == SessionTypeOK /\ PagesTypeOK /\ HistoryTypeOK /\ LandingTypeOK
=============================================================================
