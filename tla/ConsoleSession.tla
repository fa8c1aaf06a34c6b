--------------------------- MODULE ConsoleSession ---------------------------
(* The console in a browser tab (console/src/App.tsx, api.ts): who is signed *)
(* in, the overview it asks the server for every five seconds, and the       *)
(* throughput trend it keeps. Several loads may be in flight at once: the    *)
(* interval does not wait for the one before, and signing out cancels none.  *)
(* Their answers arrive in any order, late, or not at all.                    *)
(*                                                                            *)
(* The effect of the credential runs some time after the render that called  *)
(* for it (RunEffect). The server is modelled by what the console sees of    *)
(* it: it accepts one login, which a restart may change, and answers with    *)
(* the time and with the records of all streams at that time.                 *)
EXTENDS Integers, Sequences, FiniteSets, Lists

CONSTANTS
  Credentials,   \* logins a user may enter
  NoCredential, NoData, Waiting, Unauthorized,
  MaxClock,      \* bound on the server's clock, in seconds
  RecordsAt,     \* records in all streams at each second
  Window,        \* seconds of trend an anchor may be old: 60 in the code
  TrendLimit,    \* points kept: 18 in the code
  MaxLoads       \* bound on overlapping loads

Times == 0 .. MaxClock

ASSUME ConsoleAssumption ==
  /\ NoCredential \notin Credentials
  /\ MaxClock \in Nat /\ Window \in Nat /\ MaxLoads \in Nat
  /\ TrendLimit \in Nat \ {0}
  /\ RecordsAt \in [Times -> Nat]
  /\ \A t, u \in Times : t <= u => RecordsAt[t] <= RecordsAt[u]  \* sums of next_offset
  /\ {NoData, Waiting, Unauthorized} \cap Times = {}
  /\ Waiting # Unauthorized

VARIABLES
  clock, accepted,          \* the server
  storage,                  \* sessionStorage "highwater_demo_login"
  credential, data, error, refreshing, trend,   \* state of App
  polling,                  \* credential whose interval is installed
  loads,                    \* calls of load that have not returned
  attempt                   \* the login that Login is busy with

server  == <<clock, accepted>>
session == <<storage, credential>>
app     == <<storage, credential, data, error, refreshing, trend, polling, loads, attempt>>
consoleVars == <<clock, accepted, app>>

Logins  == Credentials \cup {NoCredential}
(* An overview is known by the second it was generated at.                   *)
Replies == Times \cup {Waiting, Unauthorized}

TrendPoint == [generatedAt : Times, rate : Nat, total : Nat]
Load == [id : 1 .. MaxLoads, login : Credentials, reply : Replies]

SessionTypeOK ==
  /\ clock \in Times /\ accepted \in Credentials
  /\ storage \in Logins /\ credential \in Logins /\ polling \in Logins
  /\ data \in Times \cup {NoData}
  /\ error \in BOOLEAN /\ refreshing \in BOOLEAN
  /\ trend \in Seq(TrendPoint)
  /\ loads \subseteq Load
  /\ attempt \in Logins

--------------------------------------------------------------------------
(* The trend.                                                                *)

Larger(a, b) == IF a >= b THEN a ELSE b
LastOf(s, n) == SubSeq(s, Larger(1, Len(s) - n + 1), Len(s))

(* Mutant: a total that is smaller than the anchor's gives a negative rate. *)
RateSinceSigned(anchor, total, generatedAt) ==
  (total - anchor.total) \div Larger(1, generatedAt - anchor.generatedAt)

(* The rate is measured against the oldest point that is recent enough.      *)
RateSince(anchor, total, generatedAt) ==
  Larger(0, total - anchor.total) \div Larger(1, generatedAt - anchor.generatedAt)

(* Mutant: a point is as old as it is late. *)
RecentReversed(points, generatedAt) ==
  Among(points, {p \in Elements(points) : p.generatedAt - generatedAt <= Window})

Recent(points, generatedAt) ==
  Among(points, {p \in Elements(points) : generatedAt - p.generatedAt <= Window})

NextTrend(points, generatedAt) ==
  LET total  == RecordsAt[generatedAt]
      recent == Recent(points, generatedAt)
      rate   == IF recent = <<>> THEN 0 ELSE RateSince(recent[1], total, generatedAt)
  IN  LastOf(Append(recent, [generatedAt |-> generatedAt, rate |-> rate, total |-> total]), TrendLimit)

--------------------------------------------------------------------------
SessionInit ==
  /\ clock = 0 /\ accepted \in Credentials
  /\ storage \in Logins /\ credential = storage
  /\ data = NoData /\ error = FALSE /\ refreshing = FALSE /\ trend = <<>>
  /\ polling = NoCredential /\ loads = {}
  /\ attempt = NoCredential

ServerTicks ==
  /\ clock < MaxClock
  /\ clock' = clock + 1
  /\ UNCHANGED <<accepted, app>>

(* The server restarts with another console login; the bound lets it happen  *)
(* in the first second only.                                                 *)
ServerRestarts ==
  /\ clock = 0 /\ MaxClock > 0
  /\ clock' = 1
  /\ accepted' \in Credentials \ {accepted}
  /\ UNCHANGED app

ReplyTo(login) == IF login = accepted THEN clock ELSE Unauthorized

ServerRepliesToLoad(i) ==
  \E l \in loads :
    /\ l.id = i /\ l.reply = Waiting
    /\ loads' = (loads \ {l}) \cup {[l EXCEPT !.reply = ReplyTo(l.login)]}
    /\ UNCHANGED <<server, session, data, error, refreshing, trend, polling, attempt>>

--------------------------------------------------------------------------
(* load: it shows the spinner, asks, and treats the answer without looking   *)
(* at what has become of the session meanwhile.                               *)

StartLoad(login) ==
  /\ Cardinality(loads) < MaxLoads
  /\ LET i == CHOOSE n \in 1 .. MaxLoads : \A l \in loads : l.id # n
     IN  loads' = loads \cup {[id |-> i, login |-> login, reply |-> Waiting]}
  /\ refreshing' = TRUE

(* Mutant: signing out does not clear the interval. *)
RunEffectKeepsInterval ==
  /\ polling # credential /\ credential # NoCredential
  /\ polling' = credential
  /\ StartLoad(credential)
  /\ UNCHANGED <<server, session, data, error, trend, attempt>>

(* The effect of the credential: clear the interval of the former one, load, *)
(* install the next interval.                                                 *)
RunEffect ==
  /\ polling # credential
  /\ polling' = credential
  /\ IF credential = NoCredential THEN UNCHANGED <<loads, refreshing>>
                                  ELSE StartLoad(credential)
  /\ UNCHANGED <<server, session, data, error, trend, attempt>>

(* The interval fires, or the user presses Retry or Refresh.                 *)
Poll ==
  /\ polling # NoCredential
  /\ StartLoad(polling)
  /\ UNCHANGED <<server, session, data, error, trend, polling, attempt>>

Retry ==
  /\ credential # NoCredential /\ polling = credential /\ error
  /\ StartLoad(credential)
  /\ UNCHANGED <<server, session, data, error, trend, polling, attempt>>

Refresh ==
  /\ credential # NoCredential /\ polling = credential /\ data # NoData /\ ~refreshing
  /\ StartLoad(credential)
  /\ UNCHANGED <<server, session, data, error, trend, polling, attempt>>

LoadAnswered(i) ==
  \E l \in loads :
    /\ l.id = i /\ l.reply \in Times
    /\ loads' = loads \ {l}
    /\ error' = FALSE
    /\ trend' = NextTrend(trend, l.reply)
    /\ data' = l.reply
    /\ refreshing' = FALSE
    /\ UNCHANGED <<server, session, polling, attempt>>

(* Mutant: a 401 is one more error to show. *)
LoadRejectedAsError(i) ==
  \E l \in loads :
    /\ l.id = i /\ l.reply = Unauthorized
    /\ loads' = loads \ {l}
    /\ error' = TRUE /\ refreshing' = FALSE
    /\ UNCHANGED <<server, session, data, trend, polling, attempt>>

(* A 401 ends the session, whoever is signed in by now.                      *)
LoadRejected(i) ==
  \E l \in loads :
    /\ l.id = i /\ l.reply = Unauthorized
    /\ loads' = loads \ {l}
    /\ storage' = NoCredential
    /\ credential' = NoCredential
    /\ data' = NoData
    /\ refreshing' = FALSE
    /\ UNCHANGED <<server, error, trend, polling, attempt>>

(* The request fails, or the server answers with another error.              *)
LoadFails(i) ==
  \E l \in loads :
    /\ l.id = i
    /\ loads' = loads \ {l}
    /\ error' = TRUE
    /\ refreshing' = FALSE
    /\ UNCHANGED <<server, session, data, trend, polling, attempt>>

--------------------------------------------------------------------------
(* Signing in and out.                                                       *)

SubmitLogin(c) ==
  /\ credential = NoCredential /\ attempt = NoCredential
  /\ attempt' = c
  /\ UNCHANGED <<server, session, data, error, refreshing, trend, polling, loads>>

(* login: the server's answer and its arrival are one step; what an answer   *)
(* under way could miss is a restart, which may as well follow it.           *)
LoginAccepted ==
  /\ attempt = accepted
  /\ storage' = attempt
  /\ credential' = attempt
  /\ data' = clock
  /\ error' = FALSE
  /\ attempt' = NoCredential
  /\ UNCHANGED <<server, refreshing, trend, polling, loads>>

LoginFails ==
  /\ attempt # NoCredential
  /\ attempt' = NoCredential
  /\ UNCHANGED <<server, session, data, error, refreshing, trend, polling, loads>>

Logout ==
  /\ credential # NoCredential
  /\ storage' = NoCredential
  /\ credential' = NoCredential
  /\ data' = NoData
  /\ UNCHANGED <<server, error, refreshing, trend, polling, loads, attempt>>

(* The page is loaded again: the calls in flight are gone with it.           *)
Reload ==
  /\ credential' = storage
  /\ data' = NoData /\ error' = FALSE /\ refreshing' = FALSE /\ trend' = <<>>
  /\ polling' = NoCredential /\ loads' = {}
  /\ attempt' = NoCredential
  /\ UNCHANGED <<server, storage>>

SessionNext ==
  \/ ServerTicks \/ ServerRestarts
  \/ \E i \in 1 .. MaxLoads :
        ServerRepliesToLoad(i) \/ LoadAnswered(i) \/ LoadRejected(i) \/ LoadFails(i)
  \/ RunEffect \/ Poll \/ Retry \/ Refresh
  \/ \E c \in Credentials : SubmitLogin(c)
  \/ LoginAccepted \/ LoginFails \/ Logout \/ Reload

(* React runs effects, the browser's interval fires, every call returns, and *)
(* the network is not down for ever: a server that keeps being asked answers *)
(* now and then, and some answers arrive before the call is given up.        *)
SessionFairness ==
  /\ SF_consoleVars(RunEffect)
  /\ WF_consoleVars(Poll)
  /\ SF_consoleVars(\E i \in 1 .. MaxLoads : ServerRepliesToLoad(i))
  /\ SF_consoleVars(\E i \in 1 .. MaxLoads : LoadAnswered(i))
  /\ SF_consoleVars(\E i \in 1 .. MaxLoads : LoadRejected(i))

SessionSpec == SessionInit /\ [][SessionNext]_consoleVars /\ SessionFairness

--------------------------------------------------------------------------
(* What a reload would sign in with is who is signed in: neither a rejected  *)
(* login nor one signed out of comes back with the page (load, login, logout *)
(* of App.tsx).                                                               *)
StorageIsCredential == storage = credential

(* The largest growth between two seconds, per second.                       *)
PeakRate ==
  LET Growth(t, u) == Larger(0, RecordsAt[u] - RecordsAt[t]) \div Larger(1, u - t)
      Pairs == {p \in Times \X Times : p[1] <= p[2]}
      Peak == CHOOSE p \in Pairs : \A q \in Pairs : Growth(q[1], q[2]) <= Growth(p[1], p[2])
  IN  Growth(Peak[1], Peak[2])

(* In whatever order answers are applied, the chart shows no rate that the   *)
(* streams never had, keeps no point out of the window of the newest, and    *)
(* stays within its limit (setTrend in load).                                *)
TrendIsHonest ==
  /\ Len(trend) <= TrendLimit
  /\ \A i \in 1 .. Len(trend) :
        /\ trend[i].rate \in 0 .. PeakRate
        /\ trend[Len(trend)].generatedAt - trend[i].generatedAt <= Window

(* A tab that stays signed out falls silent: its interval is cleared and the *)
(* calls in flight return.                                                   *)
SignedOutFallsSilent ==
  <>[](credential = NoCredential) => <>[](loads = {})

(* A login the server no longer accepts does not stay signed in, although    *)
(* the loads that would tell may fail or be overtaken; and whoever stays     *)
(* signed in is shown an overview, errors in between notwithstanding (load   *)
(* and the interval of App.tsx).                                              *)
RejectedSignsOut ==
  \A c \in Credentials : <>[](accepted # c) => []<>(credential # c)
SignedInSeesOverview ==
  <>[](credential # NoCredential) => []<>(data # NoData)
SessionFollowsServer == RejectedSignsOut /\ SignedInSeesOverview
=============================================================================
