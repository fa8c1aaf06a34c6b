---------------------------- MODULE ConsolePages ----------------------------
(* The pages of the console (console/src/App.tsx): the tab's history, the    *)
(* routes, the pages that open a run or a job and come back from it, and the *)
(* two detail pages that ask the server on their own. The session is the     *)
(* environment: it shows the pages, takes them away and refreshes the         *)
(* overview, as ConsoleSession does with data and credential.                 *)
(*                                                                            *)
(* An effect runs here in the step of the render that calls for it: an       *)
(* answer that comes between the two has the outcome of one that comes just  *)
(* before both.                                                               *)
EXTENDS Integers, Sequences

CONSTANTS
  Runs, Jobs,     \* workflows and processes the overview lists
  NoItem,
  MaxEntries      \* bound on the length of the tab's history

ASSUME PagesAssumption ==
  /\ NoItem \notin Runs \cup Jobs
  /\ MaxEntries \in Nat \ {0}

VARIABLES
  entries, at,    \* the tab's history and the entry shown
  open,           \* a credential and an overview: the shell shows a page
  listed,         \* the jobs in the overview
  runPage,        \* state of RunDetailPage, and its calls in flight
  jobPage         \* state of ProcessDetailPage, and its calls in flight

pagesVars == <<entries, at, open, listed, runPage, jobPage>>

(* paths: a page of the navigation is known by its name.                     *)
PagePaths == {"overview", "runs", "streams", "operators", "processes", "quickstart"}

Plain(path) == [path |-> path, item |-> NoItem]
PlainLocations == {Plain(path) : path \in PagePaths}
RunLocation(w) == [path |-> "runs/detail", item |-> w]
JobLocation(j) == [path |-> "processes/detail", item |-> j]

(* A detail path without its parameter, and a path that is none of these.    *)
Locations ==
  PlainLocations \cup {RunLocation(w) : w \in Runs \cup {NoItem}}
    \cup {JobLocation(j) : j \in Jobs \cup {NoItem}} \cup {Plain("elsewhere")}

NoFrom == Plain("none")
Entry == [loc : Locations, from : Locations \cup {NoFrom}]

here == entries[at].loc

(* pageFromPath: what starts with /runs or /processes, a page of its own     *)
(* path, and the overview for anything else.                                 *)
PageOf(loc) ==
  CASE loc.path \in {"runs", "runs/detail"}           -> "runs"
    [] loc.path \in {"processes", "processes/detail"} -> "processes"
    [] loc.path = "elsewhere"                         -> "overview"
    [] OTHER                                          -> loc.path

SelectedRun(loc) == IF loc.path = "runs/detail" THEN loc.item ELSE NoItem
SelectedJob(loc) == IF loc.path = "processes/detail" THEN loc.item ELSE NoItem

--------------------------------------------------------------------------
(* RunDetailPage: its effect forgets the former run and asks for the new     *)
(* one. It does not cancel the call for the former one.                      *)

NoRunPage == [id |-> NoItem, detail |-> NoItem, error |-> FALSE, calls |-> {}]

(* Mutant: the effect runs only when the page is mounted. *)
RunPageForFirst(w) ==
  IF w = runPage.id THEN runPage
  ELSE IF w = NoItem THEN NoRunPage
  ELSE [id |-> w, detail |-> NoItem, error |-> FALSE,
        calls |-> IF runPage.id = NoItem THEN {w} ELSE runPage.calls]

RunPageFor(w) ==
  IF w = runPage.id THEN runPage
  ELSE IF w = NoItem THEN NoRunPage
  ELSE [id |-> w, detail |-> NoItem, error |-> FALSE, calls |-> runPage.calls \cup {w}]

(* ProcessDetailPage: its effect depends on the process object, which every  *)
(* overview brings anew. The calls of the former effect are put aside        *)
(* (active = false); detail and error stay until an active call returns. Of  *)
(* the calls of one effect, which end alike, one is kept.                    *)

NoJobPage == [id |-> NoItem, detail |-> NoItem, error |-> FALSE, calls |-> {}]
JobCall == [job : Jobs, active : BOOLEAN]

(* Mutant: the effect has no cleanup. *)
JobPageForUncancelled(j, jobs, refreshed) ==
  IF j = NoItem THEN NoJobPage
  ELSE IF j = jobPage.id /\ ~refreshed THEN jobPage
  ELSE [jobPage EXCEPT
          !.id = j,
          !.calls = @ \cup (IF j \in jobs THEN {[job |-> j, active |-> TRUE]} ELSE {})]

JobPageFor(j, jobs, refreshed) ==
  IF j = NoItem THEN NoJobPage
  ELSE IF j = jobPage.id /\ ~refreshed THEN jobPage
  ELSE [jobPage EXCEPT
          !.id = j,
          !.calls = {[c EXCEPT !.active = FALSE] : c \in @}
                      \cup (IF j \in jobs THEN {[job |-> j, active |-> TRUE]} ELSE {})]

(* What is mounted once the tab shows loc. A page that is taken away is      *)
(* forgotten with its calls, whose answers then find nobody.                 *)
Render(loc, shown, jobs, refreshed) ==
  /\ runPage' = RunPageFor(IF shown THEN SelectedRun(loc) ELSE NoItem)
  /\ jobPage' = JobPageFor(IF shown THEN SelectedJob(loc) ELSE NoItem, jobs, refreshed)

--------------------------------------------------------------------------
(* The tab's history.                                                        *)

Push(loc, from) ==
  /\ at < MaxEntries
  /\ entries' = Append(SubSeq(entries, 1, at), [loc |-> loc, from |-> from])
  /\ at' = at + 1
  /\ UNCHANGED <<open, listed>>
  /\ Render(loc, open, listed, FALSE)

Replace(loc) ==
  /\ entries' = [entries EXCEPT ![at] = [loc |-> loc, from |-> NoFrom]]
  /\ UNCHANGED <<at, open, listed>>
  /\ Render(loc, open, listed, FALSE)

PagesInit ==
  /\ \E loc \in Locations : entries = <<[loc |-> loc, from |-> NoFrom]>>
  /\ at = 1 /\ open = FALSE /\ listed = Jobs
  /\ runPage = NoRunPage /\ jobPage = NoJobPage

(* The navigation of the shell, and the buttons that lead to a page. (Before *)
(* the first overview, EnterAddress stands for it.)                          *)
SetPage(path) == open /\ Push(Plain(path), NoFrom)

(* The overview, the list of runs and the operators open runs; the overview, *)
(* the list of runs and the list of processes open jobs.                     *)
OffersRuns == PageOf(here) \in {"overview", "runs", "operators"} /\ SelectedRun(here) = NoItem
OffersJobs == /\ PageOf(here) \in {"overview", "runs", "processes"}
              /\ SelectedRun(here) = NoItem /\ SelectedJob(here) = NoItem

OpenRun(w) == open /\ OffersRuns /\ Push(RunLocation(w), here)
OpenJob(j) == open /\ OffersJobs /\ j \in listed /\ Push(JobLocation(j), here)

(* Back to where the page was opened, in place of it.                        *)
CloseTo(list) == IF entries[at].from = NoFrom THEN Plain(list) ELSE entries[at].from

(* Mutant: closing a run adds an entry instead. *)
CloseRunPushes == open /\ SelectedRun(here) # NoItem /\ Push(CloseTo("runs"), NoFrom)

CloseRun == open /\ SelectedRun(here) # NoItem /\ Replace(CloseTo("runs"))
CloseJob == open /\ SelectedJob(here) # NoItem /\ Replace(CloseTo("processes"))

(* The effect of App that sends an unknown path to the overview.             *)
RedirectUnknown == here = Plain("elsewhere") /\ Replace(Plain("overview"))

EnterAddress(loc) == loc # here /\ Push(loc, NoFrom)

GoTo(n) ==
  /\ n \in 1 .. Len(entries) /\ n # at
  /\ at' = n
  /\ UNCHANGED <<entries, open, listed>>
  /\ Render(entries[n].loc, open, listed, FALSE)

GoBack == GoTo(at - 1)
GoForward == GoTo(at + 1)

--------------------------------------------------------------------------
(* The session.                                                              *)

(* The first overview of a session, or a later one: every job is a new       *)
(* object.                                                                   *)
OverviewArrives(jobs) ==
  /\ open' = TRUE
  /\ listed' = jobs
  /\ UNCHANGED <<entries, at>>
  /\ Render(here, TRUE, jobs, TRUE)

SessionEnds ==
  /\ open
  /\ open' = FALSE
  /\ UNCHANGED <<entries, at, listed>>
  /\ Render(here, FALSE, listed, FALSE)

--------------------------------------------------------------------------
(* The answers of the detail pages.                                          *)

RunAnswered(w) ==
  /\ w \in runPage.calls
  /\ runPage' = [runPage EXCEPT !.calls = @ \ {w}, !.detail = w]
  /\ UNCHANGED <<entries, at, open, listed, jobPage>>

RunFails(w) ==
  /\ w \in runPage.calls
  /\ runPage' = [runPage EXCEPT !.calls = @ \ {w}, !.error = TRUE]
  /\ UNCHANGED <<entries, at, open, listed, jobPage>>

(* The interval of the job page's effect.                                    *)
PollJob ==
  /\ jobPage.id # NoItem /\ jobPage.id \in listed
  /\ jobPage' = [jobPage EXCEPT !.calls = @ \cup {[job |-> jobPage.id, active |-> TRUE]}]
  /\ UNCHANGED <<entries, at, open, listed, runPage>>

JobAnswered(c) ==
  /\ c \in jobPage.calls
  /\ jobPage' = [jobPage EXCEPT
                   !.calls = @ \ {c},
                   !.detail = IF c.active THEN c.job ELSE @,
                   !.error = IF c.active THEN FALSE ELSE @]
  /\ UNCHANGED <<entries, at, open, listed, runPage>>

JobFails(c) ==
  /\ c \in jobPage.calls
  /\ jobPage' = [jobPage EXCEPT
                   !.calls = @ \ {c},
                   !.error = IF c.active THEN TRUE ELSE @]
  /\ UNCHANGED <<entries, at, open, listed, runPage>>

PagesNext ==
  \/ \E path \in PagePaths : SetPage(path)
  \/ \E w \in Runs : OpenRun(w) \/ RunAnswered(w) \/ RunFails(w)
  \/ \E j \in Jobs : OpenJob(j)
  \/ CloseRun \/ CloseJob \/ RedirectUnknown
  \/ \E loc \in Locations : EnterAddress(loc)
  \/ GoBack \/ GoForward
  \/ \E jobs \in SUBSET Jobs : OverviewArrives(jobs)
  \/ SessionEnds
  \/ PollJob
  \/ \E c \in JobCall : JobAnswered(c) \/ JobFails(c)

(* Calls return.                                                             *)
PagesFairness == WF_pagesVars(\E w \in Runs : RunAnswered(w) \/ RunFails(w))

PagesSpec == PagesInit /\ [][PagesNext]_pagesVars /\ PagesFairness

--------------------------------------------------------------------------
PagesTypeOK ==
  /\ entries \in Seq(Entry) /\ at \in 1 .. Len(entries)
  /\ open \in BOOLEAN /\ listed \subseteq Jobs
  /\ runPage \in [id : Runs \cup {NoItem}, detail : Runs \cup {NoItem},
                  error : BOOLEAN, calls : SUBSET Runs]
  /\ jobPage \in [id : Jobs \cup {NoItem}, detail : Jobs \cup {NoItem},
                  error : BOOLEAN, calls : SUBSET JobCall]

(* Answers of a job's page that arrive after the address or the overview     *)
(* has moved on change nothing: what a step newly shows, output or error, is *)
(* of the job of the address (active in ProcessDetailPage).                  *)
JobAnswersAreCurrent ==
  [][\A c \in jobPage.calls :
        JobAnswered(c) \/ JobFails(c) =>
          (jobPage'.detail # jobPage.detail \/ jobPage'.error # jobPage.error
             => c.job = jobPage.id /\ c.job \in listed)]_pagesVars

(* Closing a run or a job leaves every detail page, and going back does not  *)
(* reopen what was closed (openRun, closeRun, openProcess, closeProcess).    *)
ClosedPagesStayClosed ==
  [][CloseRun \/ CloseJob =>
        /\ SelectedRun(here') = NoItem /\ SelectedJob(here') = NoItem
        /\ at' > 1 => entries'[at' - 1].loc # here]_pagesVars

(* A page that opens a run comes to show that run, or an error, although     *)
(* answers for runs it was on before may come first (RunDetailPage). Such an *)
(* answer may also come later and replace it: the effect has no cleanup.     *)
RunPageShowsItsRun ==
  \A w \in Runs :
    runPage.id = w /\ runPage.detail = NoItem
      ~> (runPage.detail = w \/ runPage.error \/ runPage.id # w)
=============================================================================
