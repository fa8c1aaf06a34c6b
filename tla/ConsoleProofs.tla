---------------------------- MODULE ConsoleProofs ----------------------------
(***************************************************************************)
(* Proofs about what runs in the browser, for any logins, runs, jobs,      *)
(* documents and bounds.                                                   *)
(***************************************************************************)
EXTENDS MCConsole, Induction

-----------------------------------------------------------------------------
(* Lists *)

LEMMA ConcatAppend ==
  ASSUME NEW T, NEW s \in Seq(T), NEW u \in Seq(T), NEW e \in T
  PROVE  s \o Append(u, e) = Append(s \o u, e)
<1>1. s \o u \in Seq(T) /\ <<e>> \in Seq(T)
  BY ConcatProperties
<1>2. Append(u, e) = u \o <<e>> /\ Append(s \o u, e) = (s \o u) \o <<e>>
  BY <1>1, AppendIsConcat
<1>3. (s \o u) \o <<e>> = s \o (u \o <<e>>)
  BY <1>1, ConcatAssociative
<1> QED BY <1>2, <1>3

\* What a list holds when it grows.
LEMMA ElementsAppend ==
  ASSUME NEW T, NEW s \in Seq(T), NEW e \in T
  PROVE  Elements(Append(s, e)) = Elements(s) \cup {e}
<1>1. PICK t : t = Append(s, e)
  OBVIOUS
<1>2. PICK m : m = Len(s)
  OBVIOUS
<1>3. /\ m \in Nat /\ Len(t) = m + 1 /\ t[m + 1] = e
      /\ \A i \in 1..m : t[i] = s[i]
  BY <1>1, <1>2, AppendProperties, LenProperties
<1>4. 1..(m + 1) = (1..m) \cup {m + 1}
  BY <1>3
<1>5. Elements(s) = {s[i] : i \in 1..m} /\ Elements(t) = {t[i] : i \in 1..(m + 1)}
  BY <1>2, <1>3 DEF Elements
<1> QED BY <1>1, <1>3, <1>4, <1>5

LEMMA ElementsEmpty == Elements(<<>>) = {}
<1>1. Len(<<>>) = 0
  OBVIOUS
<1> QED BY <1>1 DEF Elements

LEMMA ElementsAreTyped ==
  ASSUME NEW T, NEW s \in Seq(T)
  PROVE  Elements(s) \subseteq T
<1> QED BY ElementOfSeq DEF Elements

\* The filter keeps the elements it is asked for, and no other.
LEMMA AmongElements ==
  ASSUME NEW T, NEW s \in Seq(T), NEW S
  PROVE  Elements(Among(s, S)) = Elements(s) \cap S
<1>1. PICK P : P = {t \in Seq(T) : Elements(Among(t, S)) = Elements(t) \cap S}
  OBVIOUS
<1>2. <<>> \in P
  BY <1>1, AmongEmpty, ElementsEmpty
<1>3. ASSUME NEW t \in Seq(T), NEW e \in T, t \in P
      PROVE  Append(t, e) \in P
  <2>1. /\ Among(t, S) \in Seq(T)
        /\ Among(Append(t, e), S) = IF e \in S THEN Append(Among(t, S), e) ELSE Among(t, S)
    BY AmongAppend
  <2>2. /\ Elements(Append(t, e)) = Elements(t) \cup {e}
        /\ Elements(Append(Among(t, S), e)) = Elements(Among(t, S)) \cup {e}
    BY <2>1, ElementsAppend
  <2>3. Append(t, e) \in Seq(T)
    BY AppendProperties
  <2>4. Elements(Among(t, S)) = Elements(t) \cap S
    BY <1>1, <1>3
  <2>5. Elements(Among(Append(t, e), S)) = Elements(Append(t, e)) \cap S
    BY <2>1, <2>2, <2>4
  <2> QED BY <1>1, <2>3, <2>5
<1>4. Seq(T) \subseteq P
  BY <1>2, <1>3, ListInduction
<1> QED BY <1>1, <1>4

\* It changes nothing when all elements are asked for.
LEMMA AmongAll ==
  ASSUME NEW T, NEW s \in Seq(T), NEW S, Elements(s) \subseteq S
  PROVE  Among(s, S) = s
<1>1. PICK P : P = {t \in Seq(T) : Elements(t) \subseteq S => Among(t, S) = t}
  OBVIOUS
<1>2. <<>> \in P
  BY <1>1, AmongEmpty
<1>3. ASSUME NEW t \in Seq(T), NEW e \in T, t \in P
      PROVE  Append(t, e) \in P
  <2>1. Among(Append(t, e), S) = IF e \in S THEN Append(Among(t, S), e) ELSE Among(t, S)
    BY AmongAppend
  <2>2. Elements(Append(t, e)) = Elements(t) \cup {e}
    BY ElementsAppend
  <2>3. Append(t, e) \in Seq(T)
    BY AppendProperties
  <2>4. Elements(t) \subseteq S => Among(t, S) = t
    BY <1>1, <1>3
  <2>5. Elements(Append(t, e)) \subseteq S => Among(Append(t, e), S) = Append(t, e)
    BY <2>1, <2>2, <2>4
  <2> QED BY <1>1, <2>3, <2>5
<1>4. Seq(T) \subseteq P
  BY <1>2, <1>3, ListInduction
<1> QED BY <1>1, <1>4

\* Filtering what was filtered asks for both.
LEMMA AmongTwice ==
  ASSUME NEW T, NEW s \in Seq(T), NEW S, NEW R
  PROVE  Among(Among(s, S), R) = Among(s, S \cap R)
<1>1. PICK P : P = {t \in Seq(T) : Among(Among(t, S), R) = Among(t, S \cap R)}
  OBVIOUS
<1>2. <<>> \in P
  BY <1>1, AmongEmpty
<1>3. ASSUME NEW t \in Seq(T), NEW e \in T, t \in P
      PROVE  Append(t, e) \in P
  <2>1. /\ Among(t, S) \in Seq(T)
        /\ Among(Append(t, e), S) = IF e \in S THEN Append(Among(t, S), e) ELSE Among(t, S)
    BY AmongAppend
  <2>2. Among(Append(t, e), S \cap R)
          = IF e \in S \cap R THEN Append(Among(t, S \cap R), e) ELSE Among(t, S \cap R)
    <3>1. PICK both : both = S \cap R
      OBVIOUS
    <3>2. Among(Append(t, e), both)
            = IF e \in both THEN Append(Among(t, both), e) ELSE Among(t, both)
      BY AmongAppend
    <3> QED BY <3>1, <3>2
  <2>3. Among(Append(Among(t, S), e), R)
          = IF e \in R THEN Append(Among(Among(t, S), R), e) ELSE Among(Among(t, S), R)
    <3>1. PICK kept : kept = Among(t, S)
      OBVIOUS
    <3>2. kept \in Seq(T)
      BY <2>1, <3>1
    <3>3. Among(Append(kept, e), R)
            = IF e \in R THEN Append(Among(kept, R), e) ELSE Among(kept, R)
      BY <3>2, AmongAppend
    <3> QED BY <3>1, <3>3
  <2>4. Append(t, e) \in Seq(T)
    BY AppendProperties
  <2>5. Among(Among(t, S), R) = Among(t, S \cap R)
    BY <1>1, <1>3
  <2>6. Among(Among(Append(t, e), S), R) = Among(Append(t, e), S \cap R)
    <3>1. CASE e \in S
      <4>1. Among(Append(t, e), S) = Append(Among(t, S), e) /\ (e \in S \cap R <=> e \in R)
        BY <2>1, <3>1
      <4>2. Among(Among(Append(t, e), S), R) = Among(Append(Among(t, S), e), R)
        BY <4>1
      <4> QED BY <2>2, <2>3, <2>5, <4>1, <4>2
    <3>2. CASE e \notin S
      BY <2>1, <2>2, <2>5, <3>2
    <3> QED BY <3>1, <3>2
  <2> QED BY <1>1, <2>4, <2>6
<1>4. Seq(T) \subseteq P
  BY <1>2, <1>3, ListInduction
<1> QED BY <1>1, <1>4

\* Of two lists one after the other it keeps what it keeps of each.
LEMMA AmongBoth ==
  ASSUME NEW T, NEW s \in Seq(T), NEW u \in Seq(T), NEW S
  PROVE  Among(s \o u, S) = Among(s, S) \o Among(u, S)
<1>1. PICK P : P = {t \in Seq(T) : Among(s \o t, S) = Among(s, S) \o Among(t, S)}
  OBVIOUS
<1>2. Among(s, S) \in Seq(T)
  BY AmongTyped
<1>3. <<>> \in P
  <2>1. s \o <<>> = s /\ Among(s, S) \o <<>> = Among(s, S)
    BY <1>2, ConcatEmptySeq
  <2>2. Among(s \o <<>>, S) = Among(s, S) \o Among(<<>>, S)
    BY <2>1, AmongEmpty
  <2>3. <<>> \in Seq(T)
    OBVIOUS
  <2> QED BY <1>1, <2>2, <2>3
<1>4. ASSUME NEW t \in Seq(T), NEW e \in T, t \in P
      PROVE  Append(t, e) \in P
  <2>1. /\ Among(t, S) \in Seq(T) /\ Append(t, e) \in Seq(T) /\ s \o t \in Seq(T)
    BY AmongTyped, AppendProperties, ConcatProperties
  <2>2. Among(Append(t, e), S) = IF e \in S THEN Append(Among(t, S), e) ELSE Among(t, S)
    BY AmongAppend
  <2>3. Among(Append(s \o t, e), S)
          = IF e \in S THEN Append(Among(s \o t, S), e) ELSE Among(s \o t, S)
    <3>1. PICK front : front = s \o t
      OBVIOUS
    <3>2. front \in Seq(T)
      BY <2>1, <3>1
    <3>3. Among(Append(front, e), S)
            = IF e \in S THEN Append(Among(front, S), e) ELSE Among(front, S)
      BY <3>2, AmongAppend, SMTT(60)
    <3> QED BY <3>1, <3>3
  <2>4. s \o Append(t, e) = Append(s \o t, e)
    BY ConcatAppend
  <2>5. Among(s, S) \o Append(Among(t, S), e) = Append(Among(s, S) \o Among(t, S), e)
    BY <1>2, <2>1, ConcatAppend
  <2>6. Among(s \o t, S) = Among(s, S) \o Among(t, S)
    BY <1>1, <1>4
  <2>7. Among(s \o Append(t, e), S) = Among(s, S) \o Among(Append(t, e), S)
    BY <2>2, <2>3, <2>4, <2>5, <2>6
  <2> QED BY <1>1, <2>1, <2>7
<1>5. Seq(T) \subseteq P
  BY <1>3, <1>4, ListInduction
<1> QED BY <1>1, <1>5

-----------------------------------------------------------------------------
(* The pages *)

\* Only a page that is no detail page opens one, and remembers itself as from.
DetailsComeFromLists ==
  \A i \in 1..Len(entries) :
    LET from == entries[i].from
    IN  from # NoFrom => SelectedRun(from) = NoItem /\ SelectedJob(from) = NoItem

\* No detail page is behind an entry of its own: what is put in front of it is
\* another address, and what takes the place of an entry is no detail page.
DetailsAreNotRepeated ==
  \A i \in 1..Len(entries) :
    /\ i + 1 \in 1..Len(entries)
    /\ SelectedRun(entries[i + 1].loc) # NoItem \/ SelectedJob(entries[i + 1].loc) # NoItem
    => entries[i].loc # entries[i + 1].loc

\* A call that is not put aside is for the job of the address, which is listed.
ActiveCallsAreCurrent ==
  \A c \in jobPage.calls : c.active => c.job = jobPage.id /\ c.job \in listed

PagesInv ==
  /\ PagesTypeOK
  /\ DetailsComeFromLists
  /\ DetailsAreNotRepeated
  /\ ActiveCallsAreCurrent

-----------------------------------------------------------------------------
RunPage == [id : Runs \cup {NoItem}, detail : Runs \cup {NoItem},
            error : BOOLEAN, calls : SUBSET Runs]
JobPage == [id : Jobs \cup {NoItem}, detail : Jobs \cup {NoItem},
            error : BOOLEAN, calls : SUBSET JobCall]

LEMMA LocationTypes ==
  ASSUME NEW loc \in Locations
  PROVE  /\ SelectedRun(loc) \in Runs \cup {NoItem}
         /\ SelectedJob(loc) \in Jobs \cup {NoItem}
BY DEF Locations, PlainLocations, Plain, RunLocation, JobLocation, SelectedRun,
       SelectedJob, PagePaths

\* What is mounted is of its type, and its active calls are of the address.
LEMMA Rendered ==
  ASSUME runPage \in RunPage, jobPage \in JobPage, ActiveCallsAreCurrent,
         NEW loc \in Locations, NEW shown \in BOOLEAN, NEW jobs \in SUBSET Jobs,
         NEW refreshed \in BOOLEAN, Render(loc, shown, jobs, refreshed),
         refreshed \/ jobs = listed
  PROVE  /\ runPage' \in RunPage
         /\ jobPage' \in JobPage
         /\ \A c \in jobPage'.calls : c.active => c.job = jobPage'.id /\ c.job \in jobs
<1>1. PICK w \in Runs \cup {NoItem} : runPage' = RunPageFor(w)
  BY LocationTypes DEF Render
<1>2. PICK j \in Jobs \cup {NoItem} : jobPage' = JobPageFor(j, jobs, refreshed)
  BY LocationTypes DEF Render
<1>3. runPage' \in RunPage
  BY <1>1 DEF RunPageFor, RunPage, NoRunPage
<1>4. CASE j = NoItem
  <2>1. jobPage' = NoJobPage
    BY <1>2, <1>4 DEF JobPageFor
  <2> QED BY <1>3, <2>1 DEF JobPage, NoJobPage
<1>5. CASE j # NoItem /\ j = jobPage.id /\ ~refreshed
  <2>1. jobPage' = jobPage /\ jobs = listed
    BY <1>2, <1>5 DEF JobPageFor
  <2> QED BY <1>3, <2>1 DEF ActiveCallsAreCurrent
<1>6. CASE j # NoItem /\ ~(j = jobPage.id /\ ~refreshed)
  <2>1. PICK aside : aside = {[c EXCEPT !.active = FALSE] : c \in jobPage.calls}
    OBVIOUS
  <2>2. PICK own : own = (IF j \in jobs THEN {[job |-> j, active |-> TRUE]} ELSE {})
    OBVIOUS
  <2>3. jobPage' = [jobPage EXCEPT !.id = j, !.calls = aside \cup own]
    BY <1>2, <1>6, <2>1, <2>2, SMTT(30) DEF JobPageFor
  <2>4. \A c \in aside : c \in JobCall /\ ~c.active
    BY <2>1, ZenonT(60) DEF JobPage, JobCall
  <2>5. \A c \in own : c \in JobCall /\ c.job = j /\ j \in jobs
    <3>1. PICK call : call = [job |-> j, active |-> TRUE]
      OBVIOUS
    <3>2. j \in jobs => call \in JobCall /\ call.job = j
      BY <3>1 DEF JobCall
    <3>3. \A c \in own : c = call /\ j \in jobs
      BY <2>2, <3>1
    <3> QED BY <3>2, <3>3
  <2>6. /\ jobPage'.id = j /\ jobPage'.calls = aside \cup own
        /\ jobPage'.detail = jobPage.detail /\ jobPage'.error = jobPage.error
        /\ jobPage' = [id |-> j, detail |-> jobPage.detail, error |-> jobPage.error,
                       calls |-> aside \cup own]
    BY <2>3 DEF JobPage
  <2>7. aside \cup own \subseteq JobCall
    BY <2>4, <2>5
  <2> QED BY <1>3, <1>6, <2>4, <2>5, <2>6, <2>7 DEF JobPage
<1> QED BY <1>4, <1>5, <1>6


\* The entries after a push: those up to the one shown, and the new one.
LEMMA Pushed ==
  ASSUME PagesTypeOK, NEW loc \in Locations, NEW from \in Locations \cup {NoFrom},
         Push(loc, from)
  PROVE  /\ entries' \in Seq(Entry)
         /\ Len(entries') = at + 1
         /\ at' = at + 1
         /\ \A i \in 1..at : entries'[i] = entries[i]
         /\ entries'[at + 1].loc = loc
         /\ entries'[at + 1].from = from
<1>1. PICK e : e = [loc |-> loc, from |-> from]
  OBVIOUS
<1>2. e \in Entry /\ e.loc = loc /\ e.from = from
  BY <1>1 DEF Entry
<1>3. entries \in Seq(Entry) /\ at \in 1..Len(entries) /\ Len(entries) \in Nat
  BY LenProperties DEF PagesTypeOK
<1>4. PICK s : s = SubSeq(entries, 1, at)
  OBVIOUS
<1>5. /\ s \in Seq(Entry) /\ Len(s) = at
      /\ \A i \in 1..at : s[i] = entries[i]
  BY <1>3, <1>4, SubSeqProperties
<1>6. entries' = Append(s, e) /\ at' = at + 1
  BY <1>1, <1>4 DEF Push
<1>7. /\ Append(s, e) \in Seq(Entry)
      /\ Len(Append(s, e)) = at + 1
      /\ \A i \in 1..at : Append(s, e)[i] = s[i]
      /\ Append(s, e)[at + 1] = e
  BY <1>2, <1>5, AppendProperties
<1> QED BY <1>2, <1>5, <1>6, <1>7

\* A push of a location other than the one shown, from a page that is no detail
\* page if it is remembered.
LEMMA PushKeeps ==
  ASSUME PagesInv, NEW loc \in Locations, NEW from \in Locations \cup {NoFrom},
         Push(loc, from),
         from # NoFrom => SelectedRun(from) = NoItem /\ SelectedJob(from) = NoItem,
         SelectedRun(loc) # NoItem \/ SelectedJob(loc) # NoItem => here # loc
  PROVE  PagesInv'
<1>1. /\ PagesTypeOK /\ DetailsComeFromLists /\ DetailsAreNotRepeated
      /\ ActiveCallsAreCurrent
      /\ runPage \in RunPage /\ jobPage \in JobPage
      /\ listed \in SUBSET Jobs /\ open \in BOOLEAN
      /\ at \in 1..Len(entries) /\ Len(entries) \in Nat
  BY LenProperties DEF PagesInv, PagesTypeOK, RunPage, JobPage
<1>2. /\ entries' \in Seq(Entry)
      /\ Len(entries') = at + 1
      /\ at' = at + 1
      /\ \A i \in 1..at : entries'[i] = entries[i]
      /\ entries'[at + 1].loc = loc
      /\ entries'[at + 1].from = from
  BY <1>1, Pushed
<1>3. Render(loc, open, listed, FALSE) /\ UNCHANGED <<open, listed>>
  BY DEF Push
<1>4. PagesTypeOK' /\ ActiveCallsAreCurrent'
  <2>1. /\ runPage' \in RunPage
        /\ jobPage' \in JobPage
        /\ \A c \in jobPage'.calls : c.active => c.job = jobPage'.id /\ c.job \in listed
    BY <1>1, <1>3, Rendered
  <2> QED BY <1>1, <1>2, <1>3, <2>1 DEF PagesTypeOK, RunPage, JobPage, ActiveCallsAreCurrent
<1>5. DetailsComeFromLists'
  BY <1>1, <1>2 DEF DetailsComeFromLists
<1>6. DetailsAreNotRepeated'
  <2>1. SUFFICES ASSUME NEW i \in 1..(at + 1),
                        i + 1 \in 1..(at + 1),
                        \/ SelectedRun(entries'[i + 1].loc) # NoItem
                        \/ SelectedJob(entries'[i + 1].loc) # NoItem
                 PROVE  entries'[i].loc # entries'[i + 1].loc
    BY <1>2 DEF DetailsAreNotRepeated
  <2>2. CASE i + 1 = at + 1
    <3>1. i = at
      BY <1>1, <2>2
    <3> QED BY <1>1, <1>2, <2>1, <3>1 DEF here
  <2>3. CASE i + 1 # at + 1
    <3>1. i \in 1..at /\ i + 1 \in 1..at
      BY <1>1, <2>1, <2>3
    <3> QED BY <1>1, <1>2, <2>1, <3>1 DEF DetailsAreNotRepeated
  <2> QED BY <2>2, <2>3
<1> QED BY <1>4, <1>5, <1>6 DEF PagesInv

\* What takes the place of an entry is no detail page.
LEMMA ReplaceKeeps ==
  ASSUME PagesInv, NEW loc \in Locations, Replace(loc),
         SelectedRun(loc) = NoItem /\ SelectedJob(loc) = NoItem
  PROVE  PagesInv'
<1>1. /\ PagesTypeOK /\ DetailsComeFromLists /\ DetailsAreNotRepeated
      /\ ActiveCallsAreCurrent
      /\ runPage \in RunPage /\ jobPage \in JobPage
      /\ listed \in SUBSET Jobs /\ open \in BOOLEAN
      /\ entries \in Seq(Entry)
      /\ at \in 1..Len(entries) /\ Len(entries) \in Nat
  BY LenProperties DEF PagesInv, PagesTypeOK, RunPage, JobPage
<1>2. PICK e : e = [loc |-> loc, from |-> NoFrom]
  OBVIOUS
<1>3. e \in Entry /\ e.loc = loc /\ e.from = NoFrom
  BY <1>2 DEF Entry
<1>4. entries' = [entries EXCEPT ![at] = e] /\ UNCHANGED <<at, open, listed>>
      /\ Render(loc, open, listed, FALSE)
  BY <1>2 DEF Replace
<1>5. /\ entries' \in Seq(Entry) /\ Len(entries') = Len(entries)
      /\ \A i \in 1..Len(entries) : entries'[i] = IF i = at THEN e ELSE entries[i]
  BY <1>1, <1>3, <1>4, ExceptSeq
<1>6. PagesTypeOK' /\ ActiveCallsAreCurrent'
  <2>1. /\ runPage' \in RunPage
        /\ jobPage' \in JobPage
        /\ \A c \in jobPage'.calls : c.active => c.job = jobPage'.id /\ c.job \in listed
    BY <1>1, <1>4, Rendered
  <2> QED BY <1>1, <1>4, <1>5, <2>1 DEF PagesTypeOK, RunPage, JobPage, ActiveCallsAreCurrent
<1>7. DetailsComeFromLists'
  BY <1>1, <1>3, <1>5 DEF DetailsComeFromLists
<1>8. DetailsAreNotRepeated'
  <2>1. SUFFICES ASSUME NEW i \in 1..Len(entries),
                        i + 1 \in 1..Len(entries),
                        \/ SelectedRun(entries'[i + 1].loc) # NoItem
                        \/ SelectedJob(entries'[i + 1].loc) # NoItem
                 PROVE  entries'[i].loc # entries'[i + 1].loc
    BY <1>5 DEF DetailsAreNotRepeated
  <2>2. i + 1 # at /\ entries'[i + 1] = entries[i + 1]
    BY <1>3, <1>5, <2>1
  <2>3. CASE i = at
    BY <1>3, <1>5, <2>1, <2>3
  <2>4. CASE i # at
    BY <1>1, <1>5, <2>1, <2>2, <2>4 DEF DetailsAreNotRepeated
  <2> QED BY <2>3, <2>4
<1> QED BY <1>6, <1>7, <1>8 DEF PagesInv


\* A step of a detail page alone: the tab's history stays, and so does the session.
LEMMA DetailKeeps ==
  ASSUME PagesInv, UNCHANGED <<entries, at, open, listed>>,
         runPage' \in RunPage, jobPage' \in JobPage, ActiveCallsAreCurrent'
  PROVE  PagesInv'
BY DEF PagesInv, PagesTypeOK, RunPage, JobPage, DetailsComeFromLists,
       DetailsAreNotRepeated

LEMMA PagesStep ==
  ASSUME PagesInv, [PagesNext]_pagesVars
  PROVE  PagesInv'
<1>1. /\ PagesTypeOK /\ DetailsComeFromLists /\ DetailsAreNotRepeated
      /\ ActiveCallsAreCurrent
      /\ runPage \in RunPage /\ jobPage \in JobPage
      /\ listed \in SUBSET Jobs /\ open \in BOOLEAN
      /\ entries \in Seq(Entry)
      /\ at \in 1..Len(entries) /\ Len(entries) \in Nat
  BY LenProperties DEF PagesInv, PagesTypeOK, RunPage, JobPage
<1>2. /\ \A i \in 1..Len(entries) :
           entries[i].loc \in Locations /\ entries[i].from \in Locations \cup {NoFrom}
      /\ here \in Locations
  <2>1. \A i \in 1..Len(entries) : entries[i] \in Entry
    BY <1>1, ElementOfSeq
  <2> QED BY <1>1, <2>1 DEF Entry, here
<1>3. \A path \in PagePaths :
        /\ Plain(path) \in Locations
        /\ SelectedRun(Plain(path)) = NoItem /\ SelectedJob(Plain(path)) = NoItem
  BY DEF Plain, PagePaths, Locations, PlainLocations, SelectedRun, SelectedJob
<1>4. NoFrom \in Locations \cup {NoFrom}
  OBVIOUS
<1>5. ASSUME NEW path \in PagePaths, SetPage(path)
      PROVE  PagesInv'
  <2>1. Push(Plain(path), NoFrom)
    BY <1>5 DEF SetPage
  <2> QED BY <1>3, <1>4, <2>1, PushKeeps
<1>6. ASSUME NEW w \in Runs, OpenRun(w)
      PROVE  PagesInv'
  <2>1. /\ Push(RunLocation(w), here)
        /\ SelectedRun(here) = NoItem /\ SelectedJob(here) = NoItem
    BY <1>6 DEF OpenRun, OffersRuns, PageOf, SelectedRun, SelectedJob
  <2>2. RunLocation(w) \in Locations /\ SelectedRun(RunLocation(w)) = w /\ w # NoItem
    BY PagesAssumption DEF Locations, RunLocation, SelectedRun
  <2> QED BY <1>2, <2>1, <2>2, PushKeeps
<1>7. ASSUME NEW j \in Jobs, OpenJob(j)
      PROVE  PagesInv'
  <2>1. /\ Push(JobLocation(j), here)
        /\ SelectedRun(here) = NoItem /\ SelectedJob(here) = NoItem
    BY <1>7 DEF OpenJob, OffersJobs
  <2>2. JobLocation(j) \in Locations /\ SelectedJob(JobLocation(j)) = j /\ j # NoItem
    BY PagesAssumption DEF Locations, JobLocation, SelectedJob
  <2> QED BY <1>2, <2>1, <2>2, PushKeeps
<1>8. ASSUME NEW list \in {"runs", "processes"}, Replace(CloseTo(list))
      PROVE  PagesInv'
  <2>1. /\ CloseTo(list) \in Locations
        /\ SelectedRun(CloseTo(list)) = NoItem /\ SelectedJob(CloseTo(list)) = NoItem
    BY <1>1, <1>2, <1>3 DEF CloseTo, DetailsComeFromLists, PagePaths
  <2> QED BY <1>8, <2>1, ReplaceKeeps
<1>9. CASE RedirectUnknown
  BY <1>3, <1>9, ReplaceKeeps DEF RedirectUnknown, PagePaths
<1>10. ASSUME NEW loc \in Locations, EnterAddress(loc)
       PROVE  PagesInv'
  <2>1. loc # here /\ Push(loc, NoFrom)
    BY <1>10 DEF EnterAddress
  <2> QED BY <1>4, <2>1, PushKeeps
<1>11. ASSUME NEW n \in {at - 1, at + 1}, GoTo(n)
       PROVE  PagesInv'
  <2>1. /\ n \in 1..Len(entries) /\ at' = n /\ UNCHANGED <<entries, open, listed>>
        /\ Render(entries[n].loc, open, listed, FALSE)
    BY <1>11 DEF GoTo
  <2>2. /\ runPage' \in RunPage
        /\ jobPage' \in JobPage
        /\ \A c \in jobPage'.calls : c.active => c.job = jobPage'.id /\ c.job \in listed
    BY <1>1, <1>2, <2>1, Rendered
  <2> QED BY <1>1, <2>1, <2>2
          DEF PagesInv, PagesTypeOK, RunPage, JobPage, ActiveCallsAreCurrent,
              DetailsComeFromLists, DetailsAreNotRepeated
<1>12. ASSUME NEW jobs \in SUBSET Jobs, OverviewArrives(jobs)
       PROVE  PagesInv'
  <2>1. /\ open' = TRUE /\ listed' = jobs /\ UNCHANGED <<entries, at>>
        /\ Render(here, TRUE, jobs, TRUE)
    BY <1>12 DEF OverviewArrives
  <2>2. /\ runPage' \in RunPage
        /\ jobPage' \in JobPage
        /\ \A c \in jobPage'.calls : c.active => c.job = jobPage'.id /\ c.job \in jobs
    BY <1>1, <1>2, <2>1, Rendered
  <2> QED BY <1>1, <2>1, <2>2
          DEF PagesInv, PagesTypeOK, RunPage, JobPage, ActiveCallsAreCurrent,
              DetailsComeFromLists, DetailsAreNotRepeated
<1>13. CASE SessionEnds
  <2>1. /\ open' = FALSE /\ UNCHANGED <<entries, at, listed>>
        /\ Render(here, FALSE, listed, FALSE)
    BY <1>13 DEF SessionEnds
  <2>2. /\ runPage' \in RunPage
        /\ jobPage' \in JobPage
        /\ \A c \in jobPage'.calls : c.active => c.job = jobPage'.id /\ c.job \in listed
    BY <1>1, <1>2, <2>1, Rendered
  <2> QED BY <1>1, <2>1, <2>2
          DEF PagesInv, PagesTypeOK, RunPage, JobPage, ActiveCallsAreCurrent,
              DetailsComeFromLists, DetailsAreNotRepeated
<1>14. ASSUME NEW w \in Runs, RunAnswered(w) \/ RunFails(w)
       PROVE  PagesInv'
  <2>1. runPage' \in RunPage /\ UNCHANGED <<entries, at, open, listed, jobPage>>
    BY <1>1, <1>14 DEF RunAnswered, RunFails, RunPage
  <2>2. ActiveCallsAreCurrent' /\ jobPage' \in JobPage
    BY <1>1, <2>1 DEF ActiveCallsAreCurrent
  <2> QED BY <2>1, <2>2, DetailKeeps
<1>15. CASE PollJob
  <2>1. PICK call : call = [job |-> jobPage.id, active |-> TRUE]
    OBVIOUS
  <2>2. /\ jobPage' = [jobPage EXCEPT !.calls = @ \cup {call}]
        /\ jobPage.id \in listed
        /\ UNCHANGED <<entries, at, open, listed, runPage>>
    BY <1>15, <2>1 DEF PollJob
  <2>3. call \in JobCall /\ call.job = jobPage.id
    BY <1>1, <2>1, <2>2 DEF JobCall
  <2>4. /\ jobPage' \in JobPage /\ jobPage'.id = jobPage.id
        /\ jobPage'.calls = jobPage.calls \cup {call}
    BY <1>1, <2>2, <2>3 DEF JobPage
  <2>5. ActiveCallsAreCurrent'
    BY <1>1, <2>2, <2>3, <2>4 DEF ActiveCallsAreCurrent
  <2> QED BY <1>1, <2>2, <2>4, <2>5, DetailKeeps
<1>16. ASSUME NEW c \in JobCall, JobAnswered(c) \/ JobFails(c)
       PROVE  PagesInv'
  <2>1. UNCHANGED <<entries, at, open, listed, runPage>>
    BY <1>16 DEF JobAnswered, JobFails
  <2>2. /\ jobPage' \in JobPage /\ jobPage'.id = jobPage.id
        /\ jobPage'.calls = jobPage.calls \ {c}
    BY <1>1, <1>16 DEF JobAnswered, JobFails, JobPage, JobCall
  <2>3. ActiveCallsAreCurrent'
    BY <1>1, <2>1, <2>2 DEF ActiveCallsAreCurrent
  <2> QED BY <1>1, <2>1, <2>2, <2>3, DetailKeeps
<1>17. CASE UNCHANGED pagesVars
  BY <1>17 DEF pagesVars, PagesInv, PagesTypeOK, DetailsComeFromLists,
               DetailsAreNotRepeated, ActiveCallsAreCurrent
<1>18. CASE CloseRun \/ CloseJob
  BY <1>8, <1>18 DEF CloseRun, CloseJob
<1>19. CASE GoBack \/ GoForward
  BY <1>11, <1>19 DEF GoBack, GoForward
<1> QED BY <1>5, <1>6, <1>7, <1>9, <1>10, <1>12, <1>13, <1>14, <1>15, <1>16, <1>17,
           <1>18, <1>19 DEF PagesNext

LEMMA PagesInitially ==
  ASSUME PagesInit
  PROVE  PagesInv
<1>1. PICK loc \in Locations : entries = <<[loc |-> loc, from |-> NoFrom]>>
  BY DEF PagesInit
<1>2. PICK e : e = [loc |-> loc, from |-> NoFrom]
  OBVIOUS
<1>3. e \in Entry /\ e.from = NoFrom /\ entries = <<e>>
  BY <1>1, <1>2 DEF Entry
<1>4. entries \in Seq(Entry) /\ Len(entries) = 1 /\ entries[1] = e
  BY <1>3
<1>5. PagesTypeOK
  <2>1. runPage \in RunPage /\ jobPage \in JobPage
    BY DEF PagesInit, NoRunPage, NoJobPage, RunPage, JobPage
  <2>2. at \in 1..Len(entries) /\ open \in BOOLEAN /\ listed \subseteq Jobs
    <3>1. at = 1 /\ open = FALSE /\ listed = Jobs
      BY DEF PagesInit
    <3>2. Len(entries) = 1
      BY <1>4
    <3>3. at \in 1..Len(entries)
      BY <3>1, <3>2
    <3> QED BY <3>1, <3>3
  <2> QED BY <1>4, <2>1, <2>2 DEF PagesTypeOK, RunPage, JobPage
<1>6. DetailsComeFromLists /\ DetailsAreNotRepeated
  BY <1>3, <1>4 DEF DetailsComeFromLists, DetailsAreNotRepeated
<1>7. ActiveCallsAreCurrent
  BY DEF PagesInit, NoJobPage, ActiveCallsAreCurrent
<1> QED BY <1>5, <1>6, <1>7 DEF PagesInv

\* The tab's history and the calls of the job page, whatever the session does.
THEOREM PagesInvariant == PagesSpec => []PagesInv
<1>1. PagesInit => PagesInv
  BY PagesInitially
<1>2. PagesInv /\ [PagesNext]_pagesVars => PagesInv'
  BY PagesStep
<1> QED BY <1>1, <1>2, PTL DEF PagesSpec


\* An answer that was put aside changes nothing that is shown, and the others are
\* of the job of the address (active in ProcessDetailPage).
THEOREM JobAnswersCorrect == PagesSpec => JobAnswersAreCurrent
<1>1. ASSUME PagesInv, NEW c \in jobPage.calls, JobAnswered(c) \/ JobFails(c),
             jobPage'.detail # jobPage.detail \/ jobPage'.error # jobPage.error
      PROVE  c.job = jobPage.id /\ c.job \in listed
  <2>1. jobPage \in JobPage /\ ActiveCallsAreCurrent
    BY <1>1 DEF PagesInv, PagesTypeOK, JobPage
  <2>2. c.active
    <3>1. SUFFICES ASSUME ~c.active
                   PROVE  jobPage'.detail = jobPage.detail /\ jobPage'.error = jobPage.error
      BY <1>1
    <3> QED BY <1>1, <2>1, <3>1 DEF JobAnswered, JobFails, JobPage
  <2> QED BY <1>1, <2>1, <2>2 DEF ActiveCallsAreCurrent
<1>2. PagesInv =>
        [\A c \in jobPage.calls :
           JobAnswered(c) \/ JobFails(c) =>
             (jobPage'.detail # jobPage.detail \/ jobPage'.error # jobPage.error
                => c.job = jobPage.id /\ c.job \in listed)]_pagesVars
  BY <1>1
<1> QED BY <1>2, PagesInvariant, PTL DEF JobAnswersAreCurrent

\* Back from a page it does not come back (openRun, closeRun, openProcess,
\* closeProcess).
LEMMA ClosingLeaves ==
  ASSUME PagesInv, CloseRun \/ CloseJob
  PROVE  /\ SelectedRun(here') = NoItem /\ SelectedJob(here') = NoItem
         /\ at' > 1 => entries'[at' - 1].loc # here
<1>1. /\ DetailsComeFromLists /\ DetailsAreNotRepeated
      /\ entries \in Seq(Entry)
      /\ at \in 1..Len(entries) /\ Len(entries) \in Nat
  BY LenProperties DEF PagesInv, PagesTypeOK
<1>2. PICK list \in {"runs", "processes"} :
        /\ Replace(CloseTo(list))
        /\ SelectedRun(here) # NoItem \/ SelectedJob(here) # NoItem
  BY DEF CloseRun, CloseJob
<1>3. SelectedRun(CloseTo(list)) = NoItem /\ SelectedJob(CloseTo(list)) = NoItem
  BY <1>1 DEF CloseTo, DetailsComeFromLists, Plain, SelectedRun, SelectedJob
<1>4. PICK e : e = [loc |-> CloseTo(list), from |-> NoFrom]
  OBVIOUS
<1>5. entries' = [entries EXCEPT ![at] = e] /\ at' = at /\ e.loc = CloseTo(list)
  BY <1>2, <1>4 DEF Replace
<1>6. /\ entries'[at] = e
      /\ \A i \in 1..Len(entries) : i # at => entries'[i] = entries[i]
  BY <1>1, <1>5
<1>7. here' = CloseTo(list)
  BY <1>5, <1>6 DEF here
<1>8. at' > 1 => entries'[at' - 1].loc # here
  BY <1>1, <1>2, <1>5, <1>6 DEF DetailsAreNotRepeated, here
<1> QED BY <1>3, <1>7, <1>8

THEOREM ClosedPagesCorrect == PagesSpec => ClosedPagesStayClosed
<1>1. PagesInv =>
        [CloseRun \/ CloseJob =>
           /\ SelectedRun(here') = NoItem /\ SelectedJob(here') = NoItem
           /\ at' > 1 => entries'[at' - 1].loc # here]_pagesVars
  BY ClosingLeaves
<1> QED BY <1>1, PagesInvariant, PTL DEF ClosedPagesStayClosed

-----------------------------------------------------------------------------
(* The session and its trend *)

\* The growth that PeakRate compares.
GrowthBetween(t, u) == Larger(0, RecordsAt[u] - RecordsAt[t]) \div Larger(1, u - t)

LEMMA Quotient ==
  ASSUME NEW x \in Nat, NEW d \in Nat \ {0}
  PROVE  x \div d \in Nat /\ x \div d <= x
<1> QED OBVIOUS

LEMMA GrowthIsBounded ==
  ASSUME NEW t \in Times, NEW u \in Times
  PROVE  /\ GrowthBetween(t, u) \in Nat
         /\ GrowthBetween(t, u) <= RecordsAt[MaxClock]
<1>1. /\ MaxClock \in Nat /\ MaxClock \in Times /\ t \in Nat /\ u \in Nat
      /\ RecordsAt[t] \in Nat /\ RecordsAt[u] \in Nat /\ RecordsAt[MaxClock] \in Nat
      /\ RecordsAt[u] <= RecordsAt[MaxClock]
  BY ConsoleAssumption DEF Times
<1>2. PICK x : x = Larger(0, RecordsAt[u] - RecordsAt[t])
  OBVIOUS
<1>3. PICK d : d = Larger(1, u - t)
  OBVIOUS
<1>4. /\ x \in Nat /\ x <= RecordsAt[MaxClock]
      /\ d \in Nat \ {0}
  BY <1>1, <1>2, <1>3 DEF Larger
<1>5. x \div d \in Nat /\ x \div d <= x
  BY <1>4, Quotient
<1> QED BY <1>1, <1>2, <1>3, <1>4, <1>5 DEF GrowthBetween

\* PeakRate is what its name says.
LEMMA PeakRateIsPeak ==
  /\ PeakRate \in Nat
  /\ \A t, u \in Times : t <= u => GrowthBetween(t, u) \in 0..PeakRate
<1>1. PICK Pairs : Pairs = {p \in Times \X Times : p[1] <= p[2]}
  OBVIOUS
<1>2. PICK f : f = [p \in Pairs |-> GrowthBetween(p[1], p[2])]
  OBVIOUS
<1>3. /\ f \in [Pairs -> Nat]
      /\ \A p \in Pairs : f[p] <= RecordsAt[MaxClock]
  BY <1>1, <1>2, GrowthIsBounded
<1>4. Pairs # {} /\ RecordsAt[MaxClock] \in Nat
  <2>1. MaxClock \in Times /\ MaxClock <= MaxClock
    BY ConsoleAssumption DEF Times
  <2>2. <<MaxClock, MaxClock>> \in Pairs
    BY <1>1, <2>1
  <2> QED BY <2>1, <2>2, ConsoleAssumption
<1>5. \E p \in Pairs : \A q \in Pairs : f[q] <= f[p]
  BY <1>3, <1>4, HasMaximum
<1>6. \E p \in Pairs : \A q \in Pairs :
        GrowthBetween(q[1], q[2]) <= GrowthBetween(p[1], p[2])
  BY <1>2, <1>5
<1>7. PICK Peak :
        /\ Peak = CHOOSE p \in Pairs : \A q \in Pairs :
                    GrowthBetween(q[1], q[2]) <= GrowthBetween(p[1], p[2])
        /\ PeakRate = GrowthBetween(Peak[1], Peak[2])
  BY <1>1 DEF PeakRate, GrowthBetween
<1>8. /\ Peak \in Pairs
      /\ \A q \in Pairs : GrowthBetween(q[1], q[2]) <= PeakRate
  BY <1>6, <1>7
<1>9. PeakRate \in Nat
  BY <1>1, <1>7, <1>8, GrowthIsBounded
<1>10. ASSUME NEW t \in Times, NEW u \in Times, t <= u
       PROVE  GrowthBetween(t, u) \in 0..PeakRate
  <2>1. <<t, u>> \in Pairs
    BY <1>1, <1>10
  <2>2. GrowthBetween(t, u) <= PeakRate
    BY <1>8, <2>1
  <2> QED BY <1>9, <2>2, GrowthIsBounded
<1> QED BY <1>9, <1>10

\* A point that was measured: its total is the one of its time, and its rate one
\* that the streams had.
Measured(p) == p.total = RecordsAt[p.generatedAt] /\ p.rate \in 0..PeakRate

\* Whichever of two overviews is the older.
LEMMA RateSinceIsReal ==
  ASSUME NEW a \in TrendPoint, Measured(a), NEW t \in Times
  PROVE  RateSince(a, RecordsAt[t], t) \in 0..PeakRate
<1>1. PICK u : u = a.generatedAt
  OBVIOUS
<1>2. /\ u \in Times /\ u \in Nat /\ t \in Nat /\ a.total = RecordsAt[u]
      /\ RecordsAt[t] \in Nat /\ RecordsAt[u] \in Nat
  BY <1>1, ConsoleAssumption DEF TrendPoint, Measured, Times
<1>3. RateSince(a, RecordsAt[t], t) = GrowthBetween(u, t)
  BY <1>1, <1>2 DEF RateSince, GrowthBetween
<1>4. CASE u <= t
  BY <1>2, <1>3, <1>4, PeakRateIsPeak
<1>5. CASE t < u
  <2>1. Larger(0, RecordsAt[t] - RecordsAt[u]) = 0
    <3>1. RecordsAt[t] <= RecordsAt[u]
      BY <1>2, <1>5, ConsoleAssumption
    <3> QED BY <1>2, <3>1 DEF Larger
  <2>2. PICK d : d = Larger(1, t - u)
    OBVIOUS
  <2>3. d \in Nat \ {0}
    BY <1>2, <2>2 DEF Larger
  <2>4. 0 \div d = 0
    BY <2>3
  <2>5. GrowthBetween(u, t) = 0
    BY <2>1, <2>2, <2>4 DEF GrowthBetween
  <2> QED BY <1>3, <2>5, PeakRateIsPeak
<1> QED BY <1>2, <1>4, <1>5

\* The chart: measured points, none out of the window of the last, and not many.
HonestTrend(points) ==
  /\ points \in Seq(TrendPoint)
  /\ Len(points) <= TrendLimit
  /\ \A i \in 1..Len(points) :
       /\ Measured(points[i])
       /\ points[Len(points)].generatedAt - points[i].generatedAt <= Window

LEMMA LastOfKeeps ==
  ASSUME NEW s \in Seq(TrendPoint), Len(s) # 0
  PROVE  LET last == LastOf(s, TrendLimit)
         IN  /\ last \in Seq(TrendPoint)
             /\ Len(last) \in 1..TrendLimit
             /\ last[Len(last)] = s[Len(s)]
             /\ \A i \in 1..Len(last) : \E k \in 1..Len(s) : last[i] = s[k]
<1>1. PICK n : n = Len(s)
  OBVIOUS
<1>2. PICK m : m = Larger(1, n - TrendLimit + 1)
  OBVIOUS
<1>3. PICK last : last = SubSeq(s, m, n)
  OBVIOUS
<1>4. /\ n \in Nat \ {0} /\ m \in 1..n /\ m \in Nat /\ TrendLimit \in Nat \ {0}
      /\ n - m + 1 \in 1..TrendLimit
  BY <1>1, <1>2, ConsoleAssumption, LenProperties DEF Larger
<1>5. /\ last \in Seq(TrendPoint) /\ Len(last) = n - m + 1
      /\ \A i \in 1..(n - m + 1) : last[i] = s[m + i - 1]
  <2>1. \A i \in m..n : s[i] \in TrendPoint
    BY <1>1, <1>4, ElementOfSeq
  <2>2. last \in Seq(TrendPoint) /\ Len(last) = n - m + 1
    BY <1>1, <1>3, <1>4, SubSeqProperties
  <2> QED BY <1>1, <1>3, <1>4, <2>2, SubSeqProperties
<1>6. last[n - m + 1] = s[n]
  <2>1. n - m + 1 \in 1..(n - m + 1) /\ m + (n - m + 1) - 1 = n
    BY <1>4
  <2> QED BY <1>5, <2>1
<1>7. \A i \in 1..(n - m + 1) : m + i - 1 \in 1..n
  BY <1>4
<1>8. LastOf(s, TrendLimit) = last
  BY <1>1, <1>2, <1>3 DEF LastOf
<1> QED BY <1>1, <1>4, <1>5, <1>6, <1>7, <1>8

LEMMA NextTrendIsHonest ==
  ASSUME NEW points, HonestTrend(points), NEW t \in Times
  PROVE  HonestTrend(NextTrend(points, t))
<1>1. PICK near : near = {p \in Elements(points) : t - p.generatedAt <= Window}
  OBVIOUS
<1>2. PICK recent : recent = Among(points, near)
  OBVIOUS
<1>3. /\ points \in Seq(TrendPoint)
      /\ \A p \in Elements(points) : Measured(p)
  BY DEF HonestTrend, Elements
<1>4. recent \in Seq(TrendPoint) /\ Elements(recent) = Elements(points) \cap near
  BY <1>2, <1>3, AmongTyped, AmongElements
<1>5. \A i \in 1..Len(recent) :
        /\ recent[i] \in TrendPoint /\ Measured(recent[i])
        /\ t - recent[i].generatedAt <= Window
  <2>1. SUFFICES ASSUME NEW i \in 1..Len(recent)
                 PROVE  /\ recent[i] \in TrendPoint /\ Measured(recent[i])
                        /\ t - recent[i].generatedAt <= Window
    OBVIOUS
  <2>2. recent[i] \in Elements(recent)
    BY DEF Elements
  <2>3. recent[i] \in TrendPoint
    BY <1>4, ElementOfSeq
  <2> QED BY <1>1, <1>3, <1>4, <2>2, <2>3
<1>6. PICK rate :
        rate = IF recent = <<>> THEN 0 ELSE RateSince(recent[1], RecordsAt[t], t)
  OBVIOUS
<1>7. rate \in 0..PeakRate
  <2>1. CASE recent = <<>>
    BY <1>6, <2>1, PeakRateIsPeak
  <2>2. CASE recent # <<>>
    <3>1. 1 \in 1..Len(recent)
      BY <1>4, <2>2, EmptySeq, LenProperties
    <3>2. recent[1] \in TrendPoint /\ Measured(recent[1])
      BY <1>5, <3>1
    <3> QED BY <1>6, <2>2, <3>2, RateSinceIsReal
  <2> QED BY <2>1, <2>2
<1>8. PICK p : p = [generatedAt |-> t, rate |-> rate, total |-> RecordsAt[t]]
  OBVIOUS
<1>9. /\ p \in TrendPoint /\ p.generatedAt = t /\ p.total = RecordsAt[t] /\ p.rate = rate
  <2>1. RecordsAt[t] \in Nat /\ rate \in Nat
    BY <1>7, ConsoleAssumption, PeakRateIsPeak
  <2> QED BY <1>8, <2>1 DEF TrendPoint
<1>10. Measured(p) /\ t - p.generatedAt <= Window
  <2>1. t \in Nat /\ Window \in Nat
    BY ConsoleAssumption DEF Times
  <2> QED BY <1>7, <1>9, <2>1 DEF Measured
<1>11. PICK s : s = Append(recent, p)
  OBVIOUS
<1>12. /\ s \in Seq(TrendPoint) /\ Len(s) # 0 /\ s[Len(s)] = p
       /\ \A k \in 1..Len(s) : Measured(s[k]) /\ t - s[k].generatedAt <= Window
  <2>1. PICK m : m = Len(recent)
    OBVIOUS
  <2>2. /\ s \in Seq(TrendPoint) /\ Len(s) = m + 1 /\ s[m + 1] = p /\ m \in Nat
        /\ \A k \in 1..m : s[k] = recent[k]
    BY <1>4, <1>9, <1>11, <2>1, AppendProperties, LenProperties
  <2>3. \A k \in 1..(m + 1) : k = m + 1 \/ k \in 1..m
    BY <2>2
  <2>4. \A k \in 1..(m + 1) : Measured(s[k]) /\ t - s[k].generatedAt <= Window
    BY <1>5, <1>10, <2>1, <2>2, <2>3
  <2> QED BY <2>2, <2>4
<1>13. PICK last : last = LastOf(s, TrendLimit)
  OBVIOUS
<1>14. /\ last \in Seq(TrendPoint)
       /\ Len(last) \in 1..TrendLimit
       /\ last[Len(last)] = s[Len(s)]
       /\ \A i \in 1..Len(last) : \E k \in 1..Len(s) : last[i] = s[k]
  BY <1>12, <1>13, LastOfKeeps
<1>15. NextTrend(points, t) = last
  BY <1>1, <1>2, <1>6, <1>8, <1>11, <1>13 DEF NextTrend, Recent
<1>16. HonestTrend(last)
  <2>1. Len(last) <= TrendLimit
    BY <1>14, ConsoleAssumption
  <2>2. last[Len(last)].generatedAt = t
    BY <1>9, <1>12, <1>14
  <2>3. \A i \in 1..Len(last) : Measured(last[i]) /\ t - last[i].generatedAt <= Window
    BY <1>12, <1>14
  <2> QED BY <1>14, <2>1, <2>2, <2>3 DEF HonestTrend
<1> QED BY <1>15, <1>16

\* A load has an identity that none in flight has.
LEMMA FreeIdentity ==
  ASSUME NEW S, IsFiniteSet(S), Cardinality(S) < MaxLoads
  PROVE  \E n \in 1..MaxLoads : \A l \in S : l.id # n
<1>1. SUFFICES ASSUME \A n \in 1..MaxLoads : \E l \in S : l.id = n
               PROVE  FALSE
  OBVIOUS
<1>2. PICK taken : taken = {l.id : l \in S}
  OBVIOUS
<1>3. 1..MaxLoads \subseteq taken
  BY <1>1, <1>2
<1>4. IsFiniteSet(taken) /\ Cardinality(taken) <= Cardinality(S)
  <2>1. PICK f : f = [l \in S |-> l.id]
    OBVIOUS
  <2>2. f \in Surjection(S, taken)
    BY <1>2, <2>1 DEF Surjection
  <2> QED BY <2>2, FS_Surjection
<1>5. Cardinality(1..MaxLoads) <= Cardinality(taken)
  BY <1>3, <1>4, FS_Subset
<1>6. Cardinality(1..MaxLoads) = MaxLoads /\ MaxLoads \in Nat
  <2>1. MaxLoads \in Nat
    BY ConsoleAssumption
  <2> QED BY <2>1, FS_Interval
<1>7. Cardinality(S) \in Nat /\ Cardinality(taken) \in Nat
  BY <1>4, FS_CardinalityType
<1> QED BY <1>4, <1>5, <1>6, <1>7

LEMMA StartLoadTyped ==
  ASSUME SessionTypeOK, IsFiniteSet(loads), NEW login \in Credentials, StartLoad(login)
  PROVE  loads' \subseteq Load /\ IsFiniteSet(loads') /\ refreshing' = TRUE
<1>1. PICK i : i = CHOOSE n \in 1..MaxLoads : \A l \in loads : l.id # n
  OBVIOUS
<1>2. i \in 1..MaxLoads
  <2>1. \E n \in 1..MaxLoads : \A l \in loads : l.id # n
    BY FreeIdentity DEF StartLoad
  <2> QED BY <1>1, <2>1
<1>3. PICK l : l = [id |-> i, login |-> login, reply |-> Waiting]
  OBVIOUS
<1>4. l \in Load
  BY <1>2, <1>3 DEF Load, Replies
<1>5. loads' = loads \cup {l} /\ refreshing' = TRUE
  BY <1>1, <1>3 DEF StartLoad
<1> QED BY <1>4, <1>5, FS_AddElement DEF SessionTypeOK

\* The invariant of the session: what it must keep is typed, the calls in flight
\* are finitely many, the storage is the credential and the chart is honest.
SessionInv ==
  /\ SessionTypeOK
  /\ IsFiniteSet(loads)
  /\ StorageIsCredential
  /\ HonestTrend(trend)

LEMMA SessionInitially ==
  ASSUME SessionInit
  PROVE  SessionInv
<1>1. /\ MaxClock \in Nat /\ TrendLimit \in Nat
  BY ConsoleAssumption
<1>2. SessionTypeOK
  <2>1. trend \in Seq(TrendPoint)
    BY DEF SessionInit
  <2>2. clock \in Times
    BY <1>1 DEF SessionInit, Times
  <2> QED BY <2>1, <2>2 DEF SessionInit, SessionTypeOK, Logins
<1>3. IsFiniteSet(loads)
  BY FS_EmptySet DEF SessionInit
<1>4. HonestTrend(trend)
  <2>1. trend \in Seq(TrendPoint) /\ Len(trend) = 0
    BY <1>2 DEF SessionInit, SessionTypeOK
  <2> QED BY <1>1, <2>1 DEF HonestTrend
<1> QED BY <1>2, <1>3, <1>4 DEF SessionInv, SessionInit, StorageIsCredential

LEMMA TrendIsKept ==
  ASSUME HonestTrend(trend), trend' = trend
  PROVE  HonestTrend(trend)'
<1> QED BY DEF HonestTrend, Measured

LEMMA SessionStep ==
  ASSUME SessionInv, [SessionNext]_consoleVars
  PROVE  SessionInv'
<1>1. /\ SessionTypeOK /\ IsFiniteSet(loads) /\ storage = credential /\ HonestTrend(trend)
  BY DEF SessionInv, StorageIsCredential
<1>2. SUFFICES /\ SessionTypeOK' /\ IsFiniteSet(loads)' /\ (storage = credential)'
               /\ HonestTrend(trend)'
  BY DEF SessionInv, StorageIsCredential
<1>3. MaxClock \in Nat
  BY ConsoleAssumption
<1>4. CASE ServerTicks
  BY <1>1, <1>3, <1>4, TrendIsKept DEF ServerTicks, app, SessionTypeOK, Times
<1>5. CASE ServerRestarts
  BY <1>1, <1>3, <1>5, TrendIsKept DEF ServerRestarts, app, SessionTypeOK, Times
<1>6. ASSUME NEW i \in 1..MaxLoads, ServerRepliesToLoad(i)
      PROVE  SessionInv'
  <2>1. PICK l \in loads : loads' = (loads \ {l}) \cup {[l EXCEPT !.reply = ReplyTo(l.login)]}
    BY <1>6 DEF ServerRepliesToLoad
  <2>2. PICK answered : answered = [l EXCEPT !.reply = ReplyTo(l.login)]
    OBVIOUS
  <2>3. ReplyTo(l.login) \in Replies
    BY <1>1 DEF ReplyTo, Replies, SessionTypeOK
  <2>4. l \in Load
    BY <1>1, <2>1 DEF SessionTypeOK
  <2>5. answered \in Load
    BY <2>2, <2>3, <2>4 DEF Load
  <2>6. loads' \subseteq Load
    BY <1>1, <2>1, <2>2, <2>5 DEF SessionTypeOK
  <2>7. IsFiniteSet(loads')
    BY <1>1, <2>1, FS_AddElement, FS_RemoveElement
  <2>8. SessionTypeOK'
    BY <1>1, <1>6, <2>6 DEF ServerRepliesToLoad, SessionTypeOK, server, session
  <2> QED BY <1>1, <1>6, <2>7, <2>8, TrendIsKept
          DEF ServerRepliesToLoad, session, SessionInv, StorageIsCredential
<1>7. ASSUME NEW i \in 1..MaxLoads, LoadAnswered(i)
      PROVE  SessionInv'
  <2>1. PICK l \in loads : /\ l.reply \in Times /\ loads' = loads \ {l}
                           /\ trend' = NextTrend(trend, l.reply) /\ data' = l.reply
    BY <1>7 DEF LoadAnswered
  <2>2. HonestTrend(trend')
    BY <1>1, <2>1, NextTrendIsHonest
  <2>3. HonestTrend(trend)'
    BY <2>2 DEF HonestTrend, Measured
  <2>4. trend' \in Seq(TrendPoint)
    BY <2>2 DEF HonestTrend
  <2>5. SessionTypeOK'
    BY <1>1, <1>7, <2>1, <2>4 DEF LoadAnswered, SessionTypeOK, server, session
  <2>6. IsFiniteSet(loads')
    BY <1>1, <2>1, FS_RemoveElement
  <2> QED BY <1>1, <1>7, <2>3, <2>5, <2>6
          DEF LoadAnswered, session, SessionInv, StorageIsCredential
<1>8. ASSUME NEW i \in 1..MaxLoads, LoadRejected(i) \/ LoadFails(i)
      PROVE  SessionInv'
  <2>1. PICK l \in loads : loads' = loads \ {l}
    BY <1>8 DEF LoadRejected, LoadFails
  <2>2. IsFiniteSet(loads')
    BY <1>1, <2>1, FS_RemoveElement
  <2>3. SessionTypeOK'
    BY <1>1, <1>8, <2>1 DEF LoadRejected, LoadFails, SessionTypeOK, Logins, server, session
  <2>4. (storage = credential)' /\ trend' = trend
    BY <1>1, <1>8 DEF LoadRejected, LoadFails, session
  <2> QED BY <1>1, <2>2, <2>3, <2>4, TrendIsKept DEF SessionInv, StorageIsCredential
<1>9. CASE RunEffect
  <2>1. loads' \subseteq Load /\ IsFiniteSet(loads') /\ refreshing' \in BOOLEAN
    <3>1. CASE credential = NoCredential
      BY <1>1, <1>9, <3>1 DEF RunEffect, SessionTypeOK
    <3>2. CASE credential # NoCredential
      <4>1. credential \in Credentials /\ StartLoad(credential)
        BY <1>1, <1>9, <3>2 DEF RunEffect, SessionTypeOK, Logins
      <4> QED BY <1>1, <4>1, StartLoadTyped
    <3> QED BY <3>1, <3>2
  <2>2. SessionTypeOK'
    BY <1>1, <1>9, <2>1 DEF RunEffect, SessionTypeOK, server, session
  <2> QED BY <1>1, <1>9, <2>1, <2>2, TrendIsKept DEF RunEffect, session
<1>10. CASE Poll \/ Retry \/ Refresh
  <2>1. PICK login \in Credentials : StartLoad(login)
    BY <1>1, <1>10 DEF Poll, Retry, Refresh, SessionTypeOK, Logins
  <2>2. loads' \subseteq Load /\ IsFiniteSet(loads') /\ refreshing' = TRUE
    BY <1>1, <2>1, StartLoadTyped
  <2>3. UNCHANGED <<server, session, data, error, trend, polling, attempt>>
    BY <1>10 DEF Poll, Retry, Refresh
  <2>4. SessionTypeOK'
    BY <1>1, <2>2, <2>3 DEF SessionTypeOK, server, session
  <2> QED BY <1>1, <2>2, <2>3, <2>4, TrendIsKept DEF session
<1>11. ASSUME NEW c \in Credentials, SubmitLogin(c)
       PROVE  SessionInv'
  <2>1. SessionTypeOK'
    BY <1>1, <1>11 DEF SubmitLogin, SessionTypeOK, Logins, server, session
  <2> QED BY <1>1, <1>11, <2>1, TrendIsKept
          DEF SubmitLogin, session, SessionInv, StorageIsCredential
<1>12. CASE LoginAccepted \/ LoginFails \/ Logout
  <2>1. SessionTypeOK'
    BY <1>1, <1>12 DEF LoginAccepted, LoginFails, Logout, SessionTypeOK, Logins, server, session
  <2>2. (storage = credential)' /\ trend' = trend /\ loads' = loads
    BY <1>1, <1>12 DEF LoginAccepted, LoginFails, Logout, session
  <2> QED BY <1>1, <2>1, <2>2, TrendIsKept
<1>13. CASE Reload
  <2>1. SessionTypeOK'
    <3>1. \A S : <<>> \in Seq(S)
      OBVIOUS
    <3> QED BY <1>1, <1>13, <3>1 DEF Reload, SessionTypeOK, Logins, server
  <2>2. IsFiniteSet(loads')
    BY <1>13, FS_EmptySet DEF Reload
  <2>3. HonestTrend(trend)'
    <3>1. trend' \in Seq(TrendPoint) /\ Len(trend') = 0 /\ TrendLimit \in Nat
      BY <1>13, <2>1, ConsoleAssumption DEF Reload, SessionTypeOK
    <3> QED BY <3>1 DEF HonestTrend
  <2> QED BY <1>1, <1>13, <2>1, <2>2, <2>3 DEF Reload
<1>14. CASE UNCHANGED consoleVars
  <2>1. SessionTypeOK'
    BY <1>1, <1>14 DEF SessionTypeOK, consoleVars, app
  <2> QED BY <1>1, <1>14, <2>1, TrendIsKept DEF consoleVars, app
<1> QED BY <1>4, <1>5, <1>6, <1>7, <1>8, <1>9, <1>10, <1>11, <1>12, <1>13, <1>14
        DEF SessionNext, SessionInv, StorageIsCredential

\* The invariant of the session (ConsoleSession) holds for any number of logins,
\* overlapping loads and seconds, and any growth of the streams.
THEOREM SessionInvariant == SessionSpec => []SessionInv
<1>1. SessionInit => SessionInv
  BY SessionInitially
<1>2. SessionInv /\ [SessionNext]_consoleVars => SessionInv'
  BY SessionStep
<1> QED BY <1>1, <1>2, PTL DEF SessionSpec

\* A reload signs in whoever is signed in, and nobody else (load, login and logout
\* of App.tsx).
THEOREM StorageCorrect == SessionSpec => []StorageIsCredential
<1>1. SessionInv => StorageIsCredential
  BY DEF SessionInv
<1> QED BY <1>1, SessionInvariant, PTL

\* Whatever the order in which the answers of overlapping loads arrive, the chart
\* shows only rates that the streams had (setTrend in load of App.tsx).
THEOREM TrendCorrect == SessionSpec => []TrendIsHonest
<1>1. SessionInv => TrendIsHonest
  BY DEF SessionInv, HonestTrend, Measured, TrendIsHonest
<1> QED BY <1>1, SessionInvariant, PTL

-----------------------------------------------------------------------------
(* The landing page *)

\* The sections named are behind the others, in the order they are named.
Placed(order, named) ==
  Among(order, Elements(order) \ Elements(named)) \o Among(named, Elements(order))

LEMMA ElementsBoth ==
  ASSUME NEW T, NEW s \in Seq(T), NEW u \in Seq(T)
  PROVE  Elements(s \o u) = Elements(s) \cup Elements(u)
<1>1. PICK m : m = Len(s)
  OBVIOUS
<1>2. PICK n : n = Len(u)
  OBVIOUS
<1>3. PICK v : v = s \o u
  OBVIOUS
<1>4. /\ m \in Nat /\ n \in Nat /\ Len(v) = m + n
      /\ \A i \in 1..(m + n) : v[i] = IF i <= m THEN s[i] ELSE u[i - m]
  BY <1>1, <1>2, <1>3, ConcatProperties, LenProperties
<1>5. /\ Elements(v) = {v[i] : i \in 1..(m + n)}
      /\ Elements(s) = {s[i] : i \in 1..m} /\ Elements(u) = {u[i] : i \in 1..n}
  BY <1>1, <1>2, <1>4 DEF Elements
<1>6. ASSUME NEW i \in 1..(m + n)
      PROVE  v[i] \in Elements(s) \cup Elements(u)
  <2>1. CASE i <= m
    <3>1. i \in 1..m /\ v[i] = s[i]
      BY <1>4, <2>1
    <3> QED BY <1>5, <3>1
  <2>2. CASE ~(i <= m)
    <3>1. i - m \in 1..n /\ v[i] = u[i - m]
      BY <1>4, <2>2
    <3> QED BY <1>5, <3>1
  <2> QED BY <2>1, <2>2
<1>7. ASSUME NEW i \in 1..m
      PROVE  s[i] \in Elements(v)
  <2>1. i \in 1..(m + n) /\ v[i] = s[i]
    BY <1>4
  <2> QED BY <1>5, <2>1
<1>8. ASSUME NEW i \in 1..n
      PROVE  u[i] \in Elements(v)
  <2>1. PICK k : k = m + i
    OBVIOUS
  <2>2. k \in 1..(m + n) /\ ~(k <= m) /\ k - m = i
    BY <1>4, <2>1
  <2>3. v[k] = u[i]
    BY <1>4, <2>2
  <2> QED BY <1>5, <2>2, <2>3
<1>9. Elements(v) \subseteq Elements(s) \cup Elements(u)
  BY <1>5, <1>6
<1>10. Elements(s) \subseteq Elements(v) /\ Elements(u) \subseteq Elements(v)
  BY <1>5, <1>7, <1>8
<1> QED BY <1>3, <1>9, <1>10

\* Moving one more section to the end places it behind those named before.
LEMMA MovePlacesNext ==
  ASSUME NEW T, NEW d \in Seq(T), NEW named \in Seq(T), NEW id \in T,
         id \notin Elements(named)
  PROVE  MoveToEnd(Placed(d, named), id) = Placed(d, Append(named, id))
<1>1. PICK E : E = Elements(d)
  OBVIOUS
<1>2. PICK others : others = E \ Elements(named)
  OBVIOUS
<1>3. PICK A : A = Among(d, others)
  OBVIOUS
<1>4. PICK B : B = Among(named, E)
  OBVIOUS
<1>5. PICK order : order = A \o B
  OBVIOUS
<1>6. /\ A \in Seq(T) /\ Elements(A) = E \cap others
      /\ B \in Seq(T) /\ Elements(B) = Elements(named) \cap E
  BY <1>1, <1>3, <1>4, AmongTyped, AmongElements
<1>7. order \in Seq(T) /\ Elements(order) = E
  <2>1. Elements(order) = Elements(A) \cup Elements(B) /\ order \in Seq(T)
    BY <1>5, <1>6, ElementsBoth, ConcatProperties
  <2> QED BY <1>2, <1>6, <2>1
<1>8. PICK more : more = Append(named, id)
  OBVIOUS
<1>9. /\ Elements(more) = Elements(named) \cup {id}
      /\ Among(more, E) = IF id \in E THEN Append(B, id) ELSE B
  <2>1. Elements(more) = Elements(named) \cup {id}
    BY <1>8, ElementsAppend
  <2>2. CASE id \in E
    <3>1. Among(more, E) = Append(B, id)
      BY <1>4, <1>8, <2>2, AmongMember
    <3> QED BY <2>1, <2>2, <3>1
  <2>3. CASE id \notin E
    <3>1. Among(more, E) = B
      BY <1>4, <1>8, <2>3, AmongOther
    <3> QED BY <2>1, <2>3, <3>1
  <2> QED BY <2>2, <2>3
<1>10. Placed(d, named) = order /\ Placed(d, more) = Among(d, E \ Elements(more)) \o Among(more, E)
  BY <1>1, <1>2, <1>3, <1>4, <1>5 DEF Placed
<1>11. CASE id \in E
  <2>1. PICK rest : rest = E \ {id}
    OBVIOUS
  <2>2. Among(order, rest) = Among(A, rest) \o Among(B, rest)
    BY <1>5, <1>6, AmongBoth
  <2>3. Among(B, rest) = B
    <3>1. Elements(B) \subseteq rest
      BY <1>6, <2>1
    <3> QED BY <1>6, <3>1, AmongAll
  <2>4. Among(A, rest) = Among(d, E \ Elements(more))
    <3>1. Among(A, rest) = Among(d, others \cap rest)
      BY <1>3, AmongTwice
    <3>2. others \cap rest = E \ Elements(more)
      BY <1>2, <1>9, <2>1
    <3> QED BY <3>1, <3>2
  <2>5. MoveToEnd(order, id) = Append(Among(order, rest), id)
    BY <1>7, <1>11, <2>1 DEF MoveToEnd
  <2>6. PICK front : front = Among(d, E \ Elements(more))
    OBVIOUS
  <2>7. front \in Seq(T)
    BY <1>6, <2>4, <2>6, AmongTyped
  <2>8. Append(front \o B, id) = front \o Append(B, id)
    <3>1. B \in Seq(T)
      BY <1>6
    <3>2. front \o Append(B, id) = Append(front \o B, id)
      BY <2>7, <3>1, ConcatAppend
    <3> QED BY <3>2
  <2> QED BY <1>8, <1>9, <1>10, <1>11, <2>2, <2>3, <2>4, <2>5, <2>6, <2>8
<1>12. CASE id \notin E
  <2>1. MoveToEnd(order, id) = order
    BY <1>7, <1>12 DEF MoveToEnd
  <2>2. others = E \ Elements(more) /\ Among(more, E) = B
    BY <1>2, <1>9, <1>12
  <2> QED BY <1>3, <1>5, <1>8, <1>10, <2>1, <2>2
<1> QED BY <1>11, <1>12

LEMMA SubSeqGrows ==
  ASSUME NEW T, NEW s \in Seq(T), NEW n \in Nat, n + 1 <= Len(s)
  PROVE  SubSeq(s, 1, n + 1) = Append(SubSeq(s, 1, n), s[n + 1])
<1>1. PICK shorter : shorter = SubSeq(s, 1, n)
  OBVIOUS
<1>2. PICK longer : longer = SubSeq(s, 1, n + 1)
  OBVIOUS
<1>3. PICK e : e = s[n + 1]
  OBVIOUS
<1>4. Len(s) \in Nat /\ e \in T /\ \A i \in 1..(n + 1) : s[i] \in T
  BY <1>3, LenProperties, ElementOfSeq
<1>5. /\ shorter \in Seq(T) /\ Len(shorter) = n
      /\ \A i \in 1..n : shorter[i] = s[i]
  BY <1>1, <1>4, SubSeqProperties
<1>6. /\ longer \in Seq(T) /\ Len(longer) = n + 1
      /\ \A i \in 1..(n + 1) : longer[i] = s[i]
  BY <1>2, <1>4, SubSeqProperties
<1>7. PICK t : t = Append(shorter, e)
  OBVIOUS
<1>8. /\ t \in Seq(T) /\ Len(t) = n + 1
      /\ \A i \in 1..n : t[i] = shorter[i]
      /\ t[n + 1] = e
  BY <1>4, <1>5, <1>7, AppendProperties
<1>9. \A i \in 1..(n + 1) : longer[i] = t[i]
  BY <1>3, <1>5, <1>6, <1>8
<1>10. longer = t
  BY <1>6, <1>8, <1>9, SeqEqual
<1> QED BY <1>1, <1>2, <1>3, <1>7, <1>10

LEMMA MoveToEndTyped ==
  ASSUME NEW order \in Seq(STRING), NEW id \in STRING
  PROVE  MoveToEnd(order, id) \in Seq(STRING)
<1>1. PICK rest : rest = Elements(order) \ {id}
  OBVIOUS
<1>2. Among(order, rest) \in Seq(STRING)
  BY AmongTyped
<1>3. Append(Among(order, rest), id) \in Seq(STRING)
  BY <1>2, AppendProperties
<1> QED BY <1>1, <1>3 DEF MoveToEnd

\* The orders that the script goes through.
Moves(moved, order) ==
  /\ moved[0] = order
  /\ \A n \in 1..Len(sectionOrder) : moved[n] = MoveToEnd(moved[n - 1], sectionOrder[n])

LEMMA OrderSectionsRecursion ==
  ASSUME NEW order \in Seq(STRING)
  PROVE  \E moved : Moves(moved, order) /\ OrderSections(order) = moved[Len(sectionOrder)]
<1>1. PICK L : L = Len(sectionOrder)
  OBVIOUS
<1>2. L \in Nat /\ \A n \in 1..L : sectionOrder[n] \in STRING
  BY <1>1, LandingAssumption, LenProperties, ElementOfSeq
<1>3. PICK step :
        step = [p \in Seq(STRING) \X (1..L) |-> MoveToEnd(p[1], sectionOrder[p[2]])]
  OBVIOUS
<1>4. step \in [Seq(STRING) \X (1..L) -> Seq(STRING)]
  BY <1>2, <1>3, MoveToEndTyped
<1>5. PICK f \in [0..L -> Seq(STRING)] : Recursive(f, order, L, step)
  BY <1>2, <1>4, Recursion
<1>6. \A n \in 1..L : n - 1 \in 0..L
  BY <1>2
<1>7. f[0] = order /\ \A n \in 1..L : f[n] = MoveToEnd(f[n - 1], sectionOrder[n])
  BY <1>3, <1>5, <1>6 DEF Recursive
<1>8. \A n \in 0..L : n = 0 \/ n \in 1..L
  BY <1>2
<1>9. f = [n \in 0..L |-> IF n = 0 THEN order ELSE MoveToEnd(f[n - 1], sectionOrder[n])]
  BY <1>7, <1>8
<1>10. PICK moved :
         /\ moved = CHOOSE g : g = [n \in 0..L |->
              IF n = 0 THEN order ELSE MoveToEnd(g[n - 1], sectionOrder[n])]
         /\ OrderSections(order) = moved[L]
  BY <1>1 DEF OrderSections
<1>11. moved = [n \in 0..L |->
                 IF n = 0 THEN order ELSE MoveToEnd(moved[n - 1], sectionOrder[n])]
  BY <1>9, <1>10
<1>12. Moves(moved, order)
  <2>1. 0 \in 0..L /\ \A n \in 1..L : n \in 0..L /\ n # 0
    BY <1>2
  <2> QED BY <1>1, <1>11, <2>1 DEF Moves
<1> QED BY <1>1, <1>10, <1>12

\* The script places the sections it names, whatever the document.
LEMMA SectionsArePlaced ==
  ASSUME NEW d \in Seq(STRING)
  PROVE  OrderSections(d) = Placed(d, sectionOrder)
<1>1. PICK L : L = Len(sectionOrder)
  OBVIOUS
<1>2. /\ L \in Nat /\ sectionOrder \in Seq(STRING)
      /\ \A n \in 1..L : sectionOrder[n] \in STRING
      /\ \A i, k \in 1..L : sectionOrder[i] = sectionOrder[k] => i = k
  BY <1>1, LandingAssumption, LenProperties, ElementOfSeq
<1>3. PICK moved : Moves(moved, d) /\ OrderSections(d) = moved[L]
  BY <1>1, OrderSectionsRecursion
<1>4. PICK N :
        N = {n \in Nat : n <= L => moved[n] = Placed(d, SubSeq(sectionOrder, 1, n))}
  OBVIOUS
<1>5. 0 \in N
  <2>1. SubSeq(sectionOrder, 1, 0) = <<>>
    BY <1>2, SubSeqEmpty
  <2>2. Among(d, Elements(d) \ {}) = d
    <3>1. PICK all : all = Elements(d) \ {}
      OBVIOUS
    <3>2. Elements(d) \subseteq all
      BY <3>1
    <3> QED BY <3>1, <3>2, AmongAll
  <2>3. d \o <<>> = d
    BY ConcatEmptySeq
  <2>4. Placed(d, <<>>) = d
    BY <2>2, <2>3, ElementsEmpty, AmongEmpty DEF Placed
  <2> QED BY <1>3, <1>4, <2>1, <2>4 DEF Moves
<1>6. ASSUME NEW n \in Nat, n \in N
      PROVE  n + 1 \in N
  <2>1. SUFFICES ASSUME n + 1 <= L
                 PROVE  moved[n + 1] = Placed(d, SubSeq(sectionOrder, 1, n + 1))
    BY <1>4
  <2>2. PICK named : named = SubSeq(sectionOrder, 1, n)
    OBVIOUS
  <2>3. PICK id : id = sectionOrder[n + 1]
    OBVIOUS
  <2>4. /\ named \in Seq(STRING) /\ Len(named) = n
        /\ \A i \in 1..n : named[i] = sectionOrder[i]
    BY <1>1, <1>2, <2>1, <2>2, SubSeqProperties
  <2>5. id \in STRING /\ id \notin Elements(named)
    <3>1. n + 1 \in 1..L /\ \A i \in 1..n : i \in 1..L /\ i # n + 1
      BY <1>2, <2>1
    <3>2. \A i \in 1..n : named[i] # id
      BY <1>2, <2>3, <2>4, <3>1
    <3> QED BY <1>2, <2>3, <2>4, <3>1, <3>2 DEF Elements
  <2>6. SubSeq(sectionOrder, 1, n + 1) = Append(named, id)
    BY <1>1, <1>2, <2>1, <2>2, <2>3, SubSeqGrows
  <2>7. moved[n] = Placed(d, named)
    BY <1>2, <1>4, <1>6, <2>1, <2>2
  <2>8. moved[n + 1] = MoveToEnd(moved[n], id)
    <3>1. n + 1 \in 1..L /\ n + 1 - 1 = n
      BY <1>2, <2>1
    <3> QED BY <1>1, <1>3, <2>3, <3>1 DEF Moves
  <2>9. MoveToEnd(Placed(d, named), id) = Placed(d, Append(named, id))
    BY <2>4, <2>5, MovePlacesNext
  <2> QED BY <2>6, <2>7, <2>8, <2>9
<1>7. L \in N
  <2>1. Nat \subseteq N
    BY <1>5, <1>6, SetInduction
  <2> QED BY <1>2, <2>1
<1>8. SubSeq(sectionOrder, 1, L) = sectionOrder
  BY <1>1, <1>2, SubSeqFull
<1>9. moved[L] = Placed(d, SubSeq(sectionOrder, 1, L))
  BY <1>2, <1>4, <1>7
<1> QED BY <1>3, <1>8, <1>9

\* The invariant of the landing page.
LandingInv ==
  /\ LandingTypeOK
  /\ main = IF ready THEN OrderSections(document) ELSE document
  /\ MenuAgrees
  /\ CopyLabelReverts
  /\ copying + timers <= MaxCopies

LEMMA LandingInitially ==
  ASSUME LandingInit
  PROVE  LandingInv
<1>1. MaxCopies \in Nat
  BY LandingAssumption
<1>2. LandingTypeOK
  <2>1. copying \in 0..MaxCopies /\ timers \in 0..MaxCopies
    <3>1. copying = 0 /\ timers = 0
      BY DEF LandingInit
    <3> QED BY <1>1, <3>1
  <2> QED BY <2>1 DEF LandingInit, LandingTypeOK
<1>3. MenuAgrees /\ CopyLabelReverts
  BY DEF LandingInit, MenuAgrees, CopyLabelReverts
<1>4. main = IF ready THEN OrderSections(document) ELSE document
  BY DEF LandingInit
<1>5. copying + timers <= MaxCopies
  <2>1. copying = 0 /\ timers = 0
    BY DEF LandingInit
  <2> QED BY <1>1, <2>1
<1> QED BY <1>2, <1>3, <1>4, <1>5 DEF LandingInv

LEMMA AddendsAreSmaller ==
  ASSUME NEW x \in Nat, NEW y \in Nat, NEW z \in Nat, x + y <= z
  PROVE  x \in 0..z /\ y \in 0..z
<1> QED OBVIOUS

LEMMA LandingStep ==
  ASSUME LandingInv, [LandingNext]_landingVars
  PROVE  LandingInv'
<1>1. /\ LandingTypeOK /\ MenuAgrees /\ CopyLabelReverts
      /\ main = IF ready THEN OrderSections(document) ELSE document
      /\ copying + timers <= MaxCopies
  BY DEF LandingInv
<1>2. MaxCopies \in Nat
  BY LandingAssumption
<1>3. CASE RunScript
  <2>1. /\ document' = document /\ ready' = TRUE /\ main' = OrderSections(document)
        /\ UNCHANGED <<menu, copy>>
    BY <1>1, <1>3 DEF RunScript
  <2>2. LandingTypeOK'
    BY <1>1, <2>1 DEF LandingTypeOK, menu, copy
  <2>3. MenuAgrees' /\ CopyLabelReverts' /\ (copying + timers <= MaxCopies)'
    BY <1>1, <2>1 DEF MenuAgrees, CopyLabelReverts, menu, copy
  <2> QED BY <2>1, <2>2, <2>3 DEF LandingInv
<1>4. CASE ToggleMenu \/ FollowLink \/ PressEscape
  <2>1. UNCHANGED <<page, copy>>
    BY <1>4 DEF ToggleMenu, FollowLink, PressEscape, CloseMenu
  <2>2. /\ expanded' \in BOOLEAN /\ MenuAgrees'
    BY <1>1, <1>4 DEF ToggleMenu, FollowLink, PressEscape, CloseMenu, MenuAgrees, LandingTypeOK
  <2>3. LandingTypeOK'
    BY <1>1, <2>1, <2>2 DEF LandingTypeOK, MenuAgrees, page, copy
  <2> QED BY <1>1, <2>1, <2>2, <2>3 DEF LandingInv, CopyLabelReverts, page, copy
<1>5. CASE ClickCopy \/ CopySucceeds \/ CopyFails \/ TimerFires
  <2>1. UNCHANGED <<page, menu>>
    BY <1>5 DEF ClickCopy, CopySucceeds, CopyFails, Copied, TimerFires
  <2>2. copying \in Nat /\ timers \in Nat /\ copyLabel \in {"Copy", "Copied", "Select"}
    <3>1. LandingTypeOK
      BY <1>1
    <3>2. copying \in 0..MaxCopies /\ timers \in 0..MaxCopies
      BY <3>1 DEF LandingTypeOK
    <3>3. copyLabel \in {"Copy", "Copied", "Select"}
      BY <3>1 DEF LandingTypeOK
    <3> QED BY <1>2, <3>2, <3>3
  <2>3. copying' \in Nat /\ timers' \in Nat /\ copying' + timers' <= MaxCopies
    BY <1>1, <1>2, <1>5, <2>2 DEF ClickCopy, CopySucceeds, CopyFails, Copied, TimerFires
  <2>4. copyLabel' \in {"Copy", "Copied", "Select"}
    BY <1>5, <2>2 DEF ClickCopy, CopySucceeds, CopyFails, Copied, TimerFires
  <2>5. CopyLabelReverts'
    BY <1>1, <1>5, <2>2
       DEF ClickCopy, CopySucceeds, CopyFails, Copied, TimerFires, CopyLabelReverts
  <2>6. copying' \in 0..MaxCopies /\ timers' \in 0..MaxCopies
    BY <1>2, <2>3, AddendsAreSmaller
  <2>7. LandingTypeOK'
    BY <1>1, <2>1, <2>4, <2>6 DEF LandingTypeOK, page, menu
  <2> QED BY <1>1, <2>1, <2>3, <2>5, <2>7 DEF LandingInv, MenuAgrees, page, menu
<1>6. CASE UNCHANGED landingVars
  <2>1. LandingTypeOK' /\ MenuAgrees' /\ CopyLabelReverts'
    BY <1>1, <1>6 DEF landingVars, page, menu, copy, LandingTypeOK, MenuAgrees, CopyLabelReverts
  <2> QED BY <1>1, <1>6, <2>1 DEF landingVars, page, menu, copy, LandingInv
<1> QED BY <1>3, <1>4, <1>5, <1>6 DEF LandingNext

THEOREM LandingInvariant == LandingSpec => []LandingInv
<1>1. LandingInit => LandingInv
  BY LandingInitially
<1>2. LandingInv /\ [LandingNext]_landingVars => LandingInv'
  BY LandingStep
<1> QED BY <1>1, <1>2, PTL DEF LandingSpec

\* For any document, any order of sections and any number of clicks that overlap:
\* the menu's four places agree, the copy button reverts, and the script puts the
\* sections it names in its order and loses none (landing/app.js).
THEOREM LandingCorrect == LandingSpec => []DocumentIsConsistent
<1>1. LandingInv => DocumentIsConsistent
  <2>1. ASSUME LandingInv, ready
        PROVE  main = Placed(document, sectionOrder)
    <3>1. document \in Seq(STRING)
      BY <2>1, LandingAssumption DEF LandingInv, LandingTypeOK
    <3> QED BY <2>1, <3>1, SectionsArePlaced DEF LandingInv
  <2>2. LandingInv => SectionsOrdered
    BY <2>1 DEF SectionsOrdered, Placed, Named
  <2> QED BY <2>2 DEF LandingInv, DocumentIsConsistent
<1> QED BY <1>1, LandingInvariant, PTL

-----------------------------------------------------------------------------
(* The lanes of a run *)

\* What the history's next event e may be, given the events g before it.
Follows(g, e) ==
  /\ e.type = "WORKFLOW_STARTED" <=> Len(g) = 0
  /\ e.command \in Commands <=> e.type \in {"ACTIVITY_SCHEDULED"} \cup Marking
  /\ e.type = "ACTIVITY_SCHEDULED" => \A i \in 1..Len(g) : g[i].command # e.command
  /\ e.type \in Marking =>
       /\ \E i \in 1..Len(g) : g[i].type = "ACTIVITY_SCHEDULED" /\ g[i].command = e.command
       /\ \A i \in 1..Len(g) : ~(g[i].type \in Ended /\ g[i].command = e.command)
  /\ \A i \in 1..Len(g) : g[i].at <= e.at

\* The first n events of h.
Before(h, n) == [i \in 1..n |-> h[i]]

\* Every event follows those before it, and the run starts at 0.
HistoryInv ==
  /\ HistoryTypeOK
  /\ Len(history) >= 1 /\ history[1].at = 0
  /\ \A n \in 1..Len(history) : Follows(Before(history, n - 1), history[n])

Mark == [at : Nat, kind : {"retry", "completed", "failed", "signal"}]
Lanes == [kind : {"workflow", "activity", "signal"}, command : Commands \cup {NoCommand}, start : Nat, end : Nat,
          markers : Seq(Mark)]

Openings == [type : Opening, command : Commands \cup {NoCommand}, at : EventTimes]
MarksOf(c) == [type : Marking, command : {c}, at : EventTimes]

LEMMA EventIs ==
  ASSUME NEW e \in Event
  PROVE  /\ e = [type |-> e.type, command |-> e.command, at |-> e.at]
         /\ e.type \in EventTypes /\ e.command \in Commands \cup {NoCommand}
         /\ e.at \in EventTimes /\ e.at \in Nat
         /\ e \in Openings <=> e.type \in Opening
         /\ \A c : e \in MarksOf(c) <=> e.type \in Marking /\ e.command = c
<1>1. e \in [type : EventTypes, command : Commands \cup {NoCommand}, at : EventTimes]
  BY DEF Event
<1>2. e.at \in EventTimes => e.at \in Nat
  BY HistoryAssumption DEF EventTimes
<1>3. e \in Openings <=> e.type \in Opening
  BY <1>1 DEF Openings
<1>4. \A c : e \in MarksOf(c) <=> e.type \in Marking /\ e.command = c
  BY <1>1 DEF MarksOf
<1> QED BY <1>1, <1>2, <1>3, <1>4

LEMMA MarkerTyped ==
  ASSUME NEW e \in Event, e.type \in Marking \cup {"SIGNAL_RECEIVED"}
  PROVE  Marker(e) \in Mark /\ Marker(e).at = e.at
<1>1. MarkerOf[e.type] \in {"retry", "completed", "failed", "signal"}
  BY DEF MarkerOf, Marking, Ended
<1>2. e.at \in Nat
  BY EventIs
<1> QED BY <1>1, <1>2 DEF Marker, Mark

LEMMA LaneTyped ==
  ASSUME NEW kind \in {"workflow", "activity", "signal"}, NEW c \in Commands \cup {NoCommand},
         NEW from \in Nat, NEW to \in Nat, NEW marks \in Seq(Mark)
  PROVE  Lane(kind, c, from, to, marks) \in Lanes
<1> QED BY DEF Lane, Lanes

\* The lane that e opens before anything is marked on it.
LEMMA OpenedTyped ==
  ASSUME NEW L \in Seq(Lanes), NEW e \in Event, TimelineLast \in Nat
  PROVE  Opened(L, e) \in Seq(Lanes)
<1>1. e.command \in Commands \cup {NoCommand} /\ e.at \in Nat
  BY EventIs
<1>2. <<>> \in Seq(Mark)
  OBVIOUS
<1>3. Lane("activity", e.command, e.at, TimelineLast, <<>>) \in Lanes
  BY <1>1, <1>2, LaneTyped
<1>4. e.type = "SIGNAL_RECEIVED" => Lane("signal", NoCommand, e.at, e.at, <<Marker(e)>>) \in Lanes
  <2>1. SUFFICES ASSUME e.type = "SIGNAL_RECEIVED"
                 PROVE  Lane("signal", NoCommand, e.at, e.at, <<Marker(e)>>) \in Lanes
    OBVIOUS
  <2>2. <<Marker(e)>> \in Seq(Mark)
    BY <2>1, MarkerTyped
  <2> QED BY <1>1, <2>2, LaneTyped
<1>5. CASE e.type = "ACTIVITY_SCHEDULED"
  BY <1>3, <1>5, AppendProperties DEF Opened
<1>6. CASE e.type = "SIGNAL_RECEIVED"
  BY <1>4, <1>6, AppendProperties DEF Opened
<1>7. CASE e.type \notin {"ACTIVITY_SCHEDULED", "SIGNAL_RECEIVED"}
  BY <1>7 DEF Opened
<1> QED BY <1>5, <1>6, <1>7

LEMMA MarkedTyped ==
  ASSUME NEW lane \in Lanes, NEW e \in Event, e.type \in Marking
  PROVE  /\ Marked(lane, e) \in Lanes
         /\ Marked(lane, e) = Lane(lane.kind, lane.command, lane.start,
                                   IF e.type \in Ended THEN e.at ELSE lane.end,
                                   Append(lane.markers, Marker(e)))
<1>1. PICK marks : marks = Append(lane.markers, Marker(e))
  OBVIOUS
<1>2. PICK end : end = IF e.type \in Ended THEN e.at ELSE lane.end
  OBVIOUS
<1>3. marks \in Seq(Mark) /\ end \in Nat
  <2>1. Marker(e) \in Mark
    BY MarkerTyped
  <2>2. lane.markers \in Seq(Mark) /\ lane.end \in Nat
    BY DEF Lanes
  <2> QED BY <1>1, <1>2, <2>1, <2>2, EventIs, AppendProperties
<1>4. Marked(lane, e) = [lane EXCEPT !.markers = marks, !.end = end]
  BY <1>1, <1>2 DEF Marked
<1>5. PICK longer : longer = [lane EXCEPT !.markers = marks]
  OBVIOUS
<1>6. longer \in Lanes /\ longer = Lane(lane.kind, lane.command, lane.start, lane.end, marks)
  BY <1>3, <1>5 DEF Lanes, Lane
<1>7. Marked(lane, e) = Lane(lane.kind, lane.command, lane.start, end, marks)
  <2>1. Marked(lane, e) = [longer EXCEPT !.end = end]
    BY <1>4, <1>5
  <2>2. [longer EXCEPT !.end = end]
          = Lane(longer.kind, longer.command, longer.start, end, longer.markers)
    BY <1>6 DEF Lanes, Lane
  <2> QED BY <1>6, <2>1, <2>2 DEF Lane
<1>8. Lane(lane.kind, lane.command, lane.start, end, marks) \in Lanes
  BY <1>3, LaneTyped DEF Lanes
<1> QED BY <1>1, <1>2, <1>7, <1>8

\* The first of the activity lanes of a command.
LEMMA FirstOwn ==
  ASSUME NEW L \in Seq(Lanes), NEW c, OwnLanes(L, c) # {}
  PROVE  Min(OwnLanes(L, c)) \in OwnLanes(L, c) /\ Min(OwnLanes(L, c)) \in 1..Len(L)
<1>1. PICK S : S = OwnLanes(L, c)
  OBVIOUS
<1>2. S \subseteq 1..Len(L) /\ S \in SUBSET Nat
  BY <1>1, LenProperties DEF OwnLanes
<1>3. PICK b \in S : TRUE
  BY <1>1
<1>4. PICK j \in S : \A k \in Nat : k < j => k \notin S
  BY <1>2, <1>3, Least
<1>5. \A y \in S : j <= y
  BY <1>2, <1>4
<1>6. Min(S) \in S
  BY <1>4, <1>5 DEF Min
<1> QED BY <1>1, <1>2, <1>6

LEMMA AddEventTyped ==
  ASSUME NEW L \in Seq(Lanes), NEW e \in Event, TimelineLast \in Nat
  PROVE  AddEvent(L, e) \in Seq(Lanes)
<1>1. PICK now : now = Opened(L, e)
  OBVIOUS
<1>2. PICK own : own = OwnLanes(now, e.command)
  OBVIOUS
<1>3. now \in Seq(Lanes)
  BY <1>1, OpenedTyped
<1>4. CASE e.type \in Marking /\ own # {}
  <2>1. PICK k : k = Min(own)
    OBVIOUS
  <2>2. k \in 1..Len(now)
    BY <1>2, <1>3, <1>4, <2>1, FirstOwn
  <2>3. Marked(now[k], e) \in Lanes
    BY <1>3, <1>4, <2>2, ElementOfSeq, MarkedTyped
  <2>4. AddEvent(L, e) = [now EXCEPT ![k] = Marked(now[k], e)]
    BY <1>1, <1>2, <1>4, <2>1 DEF AddEvent
  <2> QED BY <1>3, <2>2, <2>3, <2>4, ExceptSeq
<1>5. CASE ~(e.type \in Marking /\ own # {})
  BY <1>1, <1>2, <1>3, <1>5 DEF AddEvent
<1> QED BY <1>4, <1>5

-----------------------------------------------------------------------------
(* What the lanes are after a beginning of the history *)

EndedIn(h, c) == \E i \in 1..Len(h) : h[i].type \in Ended /\ h[i].command = c

EndIn(h, last, c) ==
  IF EndedIn(h, c) THEN Among(h, MarksOf(c))[Len(Among(h, MarksOf(c)))].at ELSE last

MarkersIn(h, c) == [i \in 1..Len(Among(h, MarksOf(c))) |-> Marker(Among(h, MarksOf(c))[i])]

LaneIn(h, last, e) ==
  IF e.type = "SIGNAL_RECEIVED"
  THEN Lane("signal", NoCommand, e.at, e.at, <<Marker(e)>>)
  ELSE Lane("activity", e.command, e.at, EndIn(h, last, e.command), MarkersIn(h, e.command))

\* L has the lanes of the events that open one, in their order, behind the run's.
LanesIn(h, last, run, L) ==
  /\ L \in Seq(Lanes)
  /\ Len(L) = Len(Among(h, Openings)) + 1
  /\ L[1] = run
  /\ \A i \in 1..Len(Among(h, Openings)) : L[i + 1] = LaneIn(h, last, Among(h, Openings)[i])

\* An activity is among the openings once.
OpenedOnce(h) ==
  \A i, j \in 1..Len(Among(h, Openings)) :
    LET d == Among(h, Openings)[i]
        e == Among(h, Openings)[j]
    IN  d.type = "ACTIVITY_SCHEDULED" /\ e.type = "ACTIVITY_SCHEDULED" /\ d.command = e.command
        => i = j

LEMMA MoreEvents ==
  ASSUME NEW g \in Seq(Event), NEW e \in Event, NEW h, h = Append(g, e)
  PROVE  /\ h \in Seq(Event) /\ Len(h) = Len(g) + 1 /\ Len(g) \in Nat /\ h[Len(g) + 1] = e
         /\ \A i \in 1..Len(g) : h[i] = g[i]
         /\ \A c : EndedIn(h, c) <=> EndedIn(g, c) \/ (e.type \in Ended /\ e.command = c)
<1>1. PICK n : n = Len(g)
  OBVIOUS
<1>2. h \in Seq(Event) /\ Len(h) = n + 1 /\ n \in Nat /\ h[n + 1] = e /\ \A i \in 1..n : h[i] = g[i]
  BY <1>1, AppendProperties, LenProperties
<1>3. 1..(n + 1) = (1..n) \cup {n + 1}
  BY <1>2
<1>4. \A c : EndedIn(h, c) <=> EndedIn(g, c) \/ (e.type \in Ended /\ e.command = c)
  BY <1>1, <1>2, <1>3 DEF EndedIn
<1> QED BY <1>1, <1>2, <1>4

Untouched(e, d) == d.type # "SIGNAL_RECEIVED" => ~(e.type \in Marking /\ e.command = d.command)

\* What an event that is no mark of c changes of its lane: nothing.
LEMMA LaneKept ==
  ASSUME NEW g \in Seq(Event), NEW e \in Event, NEW last, NEW d, Untouched(e, d)
  PROVE  LaneIn(Append(g, e), last, d) = LaneIn(g, last, d)
<1>0. PICK h : h = Append(g, e)
  OBVIOUS
<1>1. CASE d.type = "SIGNAL_RECEIVED"
  BY <1>1 DEF LaneIn
<1>2. CASE d.type # "SIGNAL_RECEIVED"
  <2>1. PICK c : c = d.command
    OBVIOUS
  <2>2. e \notin MarksOf(c) /\ ~(e.type \in Ended /\ e.command = c)
    BY <1>2, <2>1, EventIs DEF Marking, Untouched
  <2>3. Among(h, MarksOf(c)) = Among(g, MarksOf(c))
    BY <1>0, <2>2, AmongOther
  <2>4. EndedIn(h, c) <=> EndedIn(g, c)
    BY <1>0, <2>2, MoreEvents
  <2>5. EndIn(h, last, c) = EndIn(g, last, c)
    BY <2>3, <2>4 DEF EndIn
  <2>6. MarkersIn(h, c) = MarkersIn(g, c)
    BY <2>3 DEF MarkersIn
  <2> QED BY <1>0, <1>2, <2>1, <2>5, <2>6 DEF LaneIn
<1> QED BY <1>0, <1>1, <1>2

LEMMA MarksTyped ==
  ASSUME NEW g \in Seq(Event), NEW c
  PROVE  /\ Among(g, MarksOf(c)) \in Seq(Event)
         /\ \A i \in 1..Len(Among(g, MarksOf(c))) :
              LET m == Among(g, MarksOf(c))[i] IN
              m \in Event /\ m.type \in Marking /\ m.command = c
         /\ MarkersIn(g, c) \in Seq(Mark)
         /\ Len(MarkersIn(g, c)) = Len(Among(g, MarksOf(c)))
<1>1. PICK marks, n : marks = Among(g, MarksOf(c)) /\ n = Len(marks)
  OBVIOUS
<1>2. marks \in Seq(Event) /\ n \in Nat
  BY <1>1, AmongTyped, LenProperties
<1>3. ASSUME NEW i \in 1..n
      PROVE  marks[i] \in Event /\ marks[i].type \in Marking /\ marks[i].command = c
  <2>1. marks[i] \in Event
    BY <1>1, <1>2, <1>3, ElementOfSeq
  <2>2. Elements(marks) = Elements(g) \cap MarksOf(c)
    BY <1>1, AmongElements
  <2>3. marks[i] \in Elements(marks)
    BY <1>1, <1>3 DEF Elements
  <2>4. marks[i] \in MarksOf(c)
    BY <2>2, <2>3
  <2> QED BY <2>1, <2>4, EventIs
<1>4. \A i \in 1..n : Marker(marks[i]) \in Mark
  BY <1>3, MarkerTyped
<1>5. PICK drawn : drawn = MarkersIn(g, c)
  OBVIOUS
<1>6. drawn = [i \in 1..n |-> Marker(marks[i])]
  BY <1>1, <1>5 DEF MarkersIn
<1>7. drawn \in Seq(Mark) /\ Len(drawn) = n
  BY <1>2, <1>4, <1>6
<1> QED BY <1>1, <1>2, <1>3, <1>5, <1>7

LEMMA EndTyped ==
  ASSUME NEW g \in Seq(Event), NEW c, NEW last \in Nat
  PROVE  EndIn(g, last, c) \in Nat
<1>1. SUFFICES ASSUME EndedIn(g, c)
               PROVE  EndIn(g, last, c) \in Nat
  BY DEF EndIn
<1>2. PICK marks, n : marks = Among(g, MarksOf(c)) /\ n = Len(marks)
  OBVIOUS
<1>3. PICK p \in 1..Len(g) : g[p].type \in Ended /\ g[p].command = c
  BY <1>1 DEF EndedIn
<1>4. g[p] \in Event
  BY ElementOfSeq
<1>5. g[p] \in Elements(g) /\ g[p] \in MarksOf(c)
  BY <1>3, <1>4, EventIs DEF Elements, Marking
<1>6. g[p] \in Elements(marks)
  BY <1>2, <1>5, AmongElements
<1>7. n \in Nat /\ n # 0
  <2>1. n \in Nat
    BY <1>2, MarksTyped, LenProperties
  <2>2. PICK i \in 1..n : g[p] = marks[i]
    BY <1>2, <1>6 DEF Elements
  <2> QED BY <2>1, <2>2
<1>8. n \in 1..n
  BY <1>7
<1>9. marks[n] \in Event
  BY <1>2, <1>8, MarksTyped
<1> QED BY <1>1, <1>2, <1>9, EventIs DEF EndIn

\* A mark of a command is added to what the lane shows.
LEMMA LaneMarked ==
  ASSUME NEW g \in Seq(Event), NEW e \in Event, NEW last,
         NEW d \in Event, d.type = "ACTIVITY_SCHEDULED",
         e.type \in Marking, e.command = d.command, ~EndedIn(g, d.command),
         LaneIn(g, last, d) \in Lanes
  PROVE  Marked(LaneIn(g, last, d), e) = LaneIn(Append(g, e), last, d)
<1>0. PICK h, lane : h = Append(g, e) /\ lane = LaneIn(g, last, d)
  OBVIOUS
<1>1. PICK c, marks, n : c = d.command /\ marks = Among(g, MarksOf(c)) /\ n = Len(marks)
  OBVIOUS
<1>2. Among(h, MarksOf(c)) = Append(marks, e)
  <2>1. e \in MarksOf(c)
    BY <1>1, EventIs
  <2> QED BY <1>0, <1>1, <2>1, AmongMember
<1>3. PICK more : more = Append(marks, e)
  OBVIOUS
<1>4. marks \in Seq(Event) /\ n \in Nat
  BY <1>1, MarksTyped, LenProperties
<1>5. Len(more) = n + 1 /\ more[n + 1] = e /\ \A i \in 1..n : more[i] = marks[i]
  BY <1>1, <1>3, <1>4, AppendProperties
<1>6. lane = Lane("activity", c, d.at, last, MarkersIn(g, c))
  BY <1>0, <1>1 DEF LaneIn, EndIn
<1>7. EndIn(h, last, c) = IF e.type \in Ended THEN e.at ELSE last
  <2>1. EndedIn(h, c) <=> e.type \in Ended
    BY <1>0, <1>1, MoreEvents
  <2>2. Among(h, MarksOf(c))[Len(Among(h, MarksOf(c)))] = e
    BY <1>2, <1>3, <1>5
  <2> QED BY <2>1, <2>2 DEF EndIn
<1>8. MarkersIn(h, c) = Append(MarkersIn(g, c), Marker(e))
  <2>1. PICK drawn : drawn = MarkersIn(g, c)
    OBVIOUS
  <2>2. drawn \in Seq(Mark) /\ Len(drawn) = n /\ \A i \in 1..n : drawn[i] = Marker(marks[i])
    BY <1>1, <2>1, MarksTyped DEF MarkersIn
  <2>3. PICK longer : longer = MarkersIn(h, c)
    OBVIOUS
  <2>4. /\ longer \in Seq(Mark) /\ Len(longer) = n + 1
        /\ \A i \in 1..(n + 1) : longer[i] = Marker(more[i])
    <3>1. h \in Seq(Event)
      BY <1>0, MoreEvents
    <3>2. longer \in Seq(Mark) /\ Len(longer) = n + 1
      BY <1>2, <1>3, <1>5, <2>3, <3>1, MarksTyped
    <3>3. longer = [i \in 1..(n + 1) |-> Marker(more[i])]
      BY <1>2, <1>3, <1>5, <2>3 DEF MarkersIn
    <3> QED BY <3>2, <3>3
  <2>5. Marker(e) \in Mark
    BY MarkerTyped
  <2>6. PICK both : both = Append(drawn, Marker(e))
    OBVIOUS
  <2>7. /\ both \in Seq(Mark) /\ Len(both) = n + 1 /\ both[n + 1] = Marker(e)
        /\ \A i \in 1..n : both[i] = drawn[i]
    BY <2>2, <2>5, <2>6, AppendProperties
  <2>8. ASSUME NEW i \in 1..(n + 1)
        PROVE  longer[i] = both[i]
    <3>1. CASE i = n + 1
      BY <1>5, <2>4, <2>7, <3>1
    <3>2. CASE i # n + 1
      <4>1. i \in 1..n
        BY <1>4, <3>2
      <4> QED BY <1>5, <2>2, <2>4, <2>7, <4>1
    <3> QED BY <3>1, <3>2
  <2>9. longer = both
    BY <2>4, <2>7, <2>8, SeqEqual
  <2> QED BY <2>1, <2>3, <2>6, <2>9
<1>9. LaneIn(h, last, d) = Lane("activity", c, d.at, EndIn(h, last, c), MarkersIn(h, c))
  BY <1>1 DEF LaneIn
<1>10. Marked(lane, e) = Lane(lane.kind, lane.command, lane.start,
                              IF e.type \in Ended THEN e.at ELSE lane.end,
                              Append(lane.markers, Marker(e)))
  BY <1>0, MarkedTyped
<1>11. /\ lane.kind = "activity" /\ lane.command = c /\ lane.start = d.at /\ lane.end = last
       /\ lane.markers = MarkersIn(g, c)
  BY <1>6 DEF Lane
<1> QED BY <1>0, <1>7, <1>8, <1>9, <1>10, <1>11

\* One event: the pass adds to the lanes what the history says.
LEMMA AddEventFollows ==
  ASSUME NEW g \in Seq(Event), NEW e \in Event, Follows(g, e), NEW h, h = Append(g, e),
         NEW last, last = TimelineLast, last \in Nat, NEW run, run.kind = "workflow",
         NEW L, LanesIn(g, last, run, L), OpenedOnce(g)
  PROVE  LanesIn(h, last, run, AddEvent(L, e)) /\ OpenedOnce(h)
<1>1. PICK op, n : op = Among(g, Openings) /\ n = Len(op)
  OBVIOUS
<1>2. op \in Seq(Event) /\ n \in Nat /\ Elements(op) = Elements(g) \cap Openings
  BY <1>1, AmongTyped, AmongElements, LenProperties
<1>3. /\ L \in Seq(Lanes) /\ Len(L) = n + 1 /\ L[1] = run
      /\ \A i \in 1..n : L[i + 1] = LaneIn(g, last, op[i])
  BY <1>1 DEF LanesIn
<1>4. \A i \in 1..n : op[i] \in Event /\ op[i].type \in Opening /\ op[i] \in Elements(g)
  <2>1. SUFFICES ASSUME NEW i \in 1..n
                 PROVE  op[i] \in Event /\ op[i].type \in Opening /\ op[i] \in Elements(g)
    OBVIOUS
  <2>2. op[i] \in Event
    BY <1>1, <1>2, ElementOfSeq
  <2>3. op[i] \in Elements(op)
    BY <1>1 DEF Elements
  <2> QED BY <1>2, <2>2, <2>3, EventIs
<1>5. \A i, j \in 1..n : /\ op[i].type = "ACTIVITY_SCHEDULED" /\ op[j].type = "ACTIVITY_SCHEDULED"
                         /\ op[i].command = op[j].command
                         => i = j
  BY <1>1 DEF OpenedOnce
<1>6. PICK now : now = Opened(L, e)
  OBVIOUS
<1>7. CASE e.type \in Opening
  <2>1. PICK lane : lane = LaneIn(h, last, e)
    OBVIOUS
  <2>2. Among(h, Openings) = Append(op, e)
    BY <1>1, <1>7, EventIs, AmongMember
  <2>3. PICK more : more = Append(op, e)
    OBVIOUS
  <2>4. Len(more) = n + 1 /\ more[n + 1] = e /\ \A i \in 1..n : more[i] = op[i]
    BY <1>1, <1>2, <2>3, AppendProperties
  <2>5. now = Append(L, lane)
    <3>1. CASE e.type = "SIGNAL_RECEIVED"
      BY <1>6, <2>1, <3>1 DEF Opened, LaneIn
    <3>2. CASE e.type = "ACTIVITY_SCHEDULED"
      <4>1. PICK c : c = e.command
        OBVIOUS
      <4>2. \A i \in 1..Len(g) : g[i].command # c
        BY <3>2, <4>1 DEF Follows
      <4>3. ~EndedIn(h, c)
        <5>1. ~EndedIn(g, c)
          BY <4>2 DEF EndedIn
        <5>2. e.type \notin Ended
          BY <3>2 DEF Ended
        <5> QED BY <5>1, <5>2, MoreEvents
      <4>4. MarkersIn(h, c) = <<>>
        <5>1. PICK marks : marks = Among(g, MarksOf(c))
          OBVIOUS
        <5>2. e \notin MarksOf(c)
          BY <3>2, EventIs DEF Marking, Ended
        <5>3. Among(h, MarksOf(c)) = marks
          BY <5>1, <5>2, AmongOther
        <5>4. marks \in Seq(Event) /\ Elements(marks) = Elements(g) \cap MarksOf(c)
          BY <5>1, AmongElements, MarksTyped
        <5>5. Elements(marks) = {}
          <6>1. SUFFICES ASSUME NEW x \in Elements(marks)
                         PROVE  FALSE
            OBVIOUS
          <6>2. x.command = c
            BY <5>4 DEF MarksOf
          <6>3. PICK i \in 1..Len(g) : x = g[i]
            BY <5>4 DEF Elements
          <6> QED BY <4>2, <6>2, <6>3
        <5>6. Len(marks) = 0
          <6>1. Len(marks) \in Nat
            BY <5>4, LenProperties
          <6>2. ASSUME Len(marks) # 0
                PROVE  FALSE
            <7>1. 1 \in 1..Len(marks)
              BY <6>1, <6>2
            <7> QED BY <5>5, <7>1 DEF Elements
          <6> QED BY <6>2
        <5>7. MarkersIn(h, c) = [i \in 1..0 |-> Marker(marks[i])]
          BY <5>3, <5>6 DEF MarkersIn
        <5> QED BY <5>7
      <4>5. lane = Lane("activity", c, e.at, last, <<>>)
        BY <2>1, <3>2, <4>1, <4>3, <4>4 DEF LaneIn, EndIn
      <4>6. now = Append(L, Lane("activity", c, e.at, last, <<>>))
        BY <1>6, <3>2, <4>1 DEF Opened
      <4> QED BY <4>5, <4>6
    <3> QED BY <1>7, <3>1, <3>2 DEF Opening
  <2>6. AddEvent(L, e) = now
    <3>1. e.type \notin Marking
      BY <1>7 DEF Opening, Marking, Ended
    <3> QED BY <1>6, <3>1 DEF AddEvent
  <2>7. now \in Seq(Lanes)
    BY <1>3, <1>6, OpenedTyped
  <2>8. lane \in Lanes
    <3>1. CASE e.type = "SIGNAL_RECEIVED"
      <4>1. <<Marker(e)>> \in Seq(Mark)
        BY <3>1, MarkerTyped
      <4>2. Lane("signal", NoCommand, e.at, e.at, <<Marker(e)>>) \in Lanes
        BY <4>1, EventIs, LaneTyped
      <4> QED BY <2>1, <3>1, <4>2 DEF LaneIn
    <3>2. CASE e.type # "SIGNAL_RECEIVED"
      <4>1. PICK m : m = MarkersIn(h, e.command)
        OBVIOUS
      <4>2. m \in Seq(Mark)
        BY <4>1, MoreEvents, MarksTyped
      <4>3. EndIn(h, last, e.command) \in Nat
        BY MoreEvents, EndTyped
      <4>4. PICK z : z = EndIn(h, last, e.command)
        OBVIOUS
      <4>5. Lane("activity", e.command, e.at, z, m) \in Lanes
        BY <4>2, <4>3, <4>4, EventIs, LaneTyped
      <4> QED BY <2>1, <3>2, <4>1, <4>4, <4>5 DEF LaneIn
    <3> QED BY <3>1, <3>2
  <2>9. Len(now) = n + 2 /\ now[n + 2] = lane /\ \A i \in 1..(n + 1) : now[i] = L[i]
    BY <1>2, <1>3, <2>5, <2>8, AppendProperties
  <2>10. ASSUME NEW i \in 1..(n + 1)
         PROVE  now[i + 1] = LaneIn(h, last, more[i])
    <3>1. CASE i = n + 1
      BY <1>2, <2>1, <2>4, <2>9, <3>1
    <3>2. CASE i # n + 1
      <4>1. i \in 1..n /\ i + 1 \in 1..(n + 1)
        BY <1>2, <3>2
      <4>2. e.type \notin Marking
        BY <1>7 DEF Opening, Marking, Ended
      <4>3. LaneIn(h, last, op[i]) = LaneIn(g, last, op[i])
        <5>1. PICK d : d = op[i]
          OBVIOUS
        <5>2. LaneIn(h, last, d) = LaneIn(g, last, d)
          <6>1. Untouched(e, d)
            BY <4>2 DEF Untouched
          <6> QED BY <6>1, LaneKept
        <5> QED BY <5>1, <5>2
      <4> QED BY <1>3, <2>4, <2>9, <4>1, <4>3
    <3> QED BY <3>1, <3>2
  <2>11. LanesIn(h, last, run, now)
    <3>1. now[1] = run
      BY <1>2, <1>3, <2>9
    <3> QED BY <1>2, <2>2, <2>3, <2>4, <2>7, <2>9, <2>10, <3>1 DEF LanesIn
  <2>12. OpenedOnce(h)
    <3>1. SUFFICES ASSUME NEW i \in 1..(n + 1), NEW j \in 1..(n + 1),
                          more[i].type = "ACTIVITY_SCHEDULED", more[j].type = "ACTIVITY_SCHEDULED",
                          more[i].command = more[j].command
                   PROVE  i = j
      BY <2>2, <2>3, <2>4 DEF OpenedOnce
    <3>2. ASSUME NEW k \in 1..n, e.type = "ACTIVITY_SCHEDULED", op[k].command = e.command
          PROVE  FALSE
      <4>1. PICK p \in 1..Len(g) : g[p] = op[k]
        BY <1>4 DEF Elements
      <4> QED BY <3>2, <4>1 DEF Follows
    <3>3. i \in 1..n \/ i = n + 1
      BY <1>2
    <3>4. j \in 1..n \/ j = n + 1
      BY <1>2
    <3> QED BY <1>5, <2>4, <3>1, <3>2, <3>3, <3>4
  <2> QED BY <2>6, <2>11, <2>12
<1>8. CASE e.type \notin Opening
  <2>1. Among(h, Openings) = op
    BY <1>1, <1>8, EventIs, AmongOther
  <2>2. OpenedOnce(h)
    BY <1>1, <1>5, <2>1 DEF OpenedOnce
  <2>3. now = L
    BY <1>6, <1>8 DEF Opened, Opening
  <2>4. CASE e.type \notin Marking
    <3>1. AddEvent(L, e) = L
      BY <1>6, <2>3, <2>4 DEF AddEvent
    <3>2. ASSUME NEW d
          PROVE  LaneIn(h, last, d) = LaneIn(g, last, d)
      <4>1. Untouched(e, d)
        BY <2>4 DEF Untouched
      <4> QED BY <4>1, LaneKept
    <3>3. LanesIn(h, last, run, L)
      BY <1>1, <1>3, <2>1, <3>2 DEF LanesIn
    <3> QED BY <2>2, <3>1, <3>3
  <2>5. CASE e.type \in Marking
    <3>1. PICK c, own : c = e.command /\ own = OwnLanes(L, c)
      OBVIOUS
    <3>2. PICK p \in 1..Len(g) : g[p].type = "ACTIVITY_SCHEDULED" /\ g[p].command = c
      BY <2>5, <3>1 DEF Follows
    <3>3. PICK k \in 1..n : op[k] = g[p]
      <4>1. g[p] \in Event
        BY <3>2, ElementOfSeq
      <4>2. g[p] \in Elements(g) /\ g[p] \in Openings
        BY <3>2, <4>1, EventIs DEF Elements, Opening
      <4>3. g[p] \in Elements(op)
        BY <1>2, <4>2
      <4> QED BY <1>1, <4>3 DEF Elements
    <3>4. \A i \in 1..n : i # k /\ op[i].type = "ACTIVITY_SCHEDULED" => op[i].command # c
      BY <1>5, <3>2, <3>3
    <3>5. own = {k + 1}
      <4>1. k + 1 \in 1..Len(L) /\ L[k + 1] = LaneIn(g, last, op[k])
        BY <1>2, <1>3
      <4>2. L[k + 1].kind = "activity" /\ L[k + 1].command = c
        BY <3>2, <3>3, <4>1 DEF LaneIn, Lane
      <4>3. ASSUME NEW i \in own
            PROVE  i = k + 1
        <5>1. i \in 1..(n + 1) /\ L[i].kind = "activity" /\ L[i].command = c
          BY <1>3, <3>1, <4>3 DEF OwnLanes
        <5>2. i # 1
          BY <1>3, <5>1
        <5>3. PICK m \in 1..n : i = m + 1
          BY <1>2, <5>1, <5>2
        <5>4. L[i] = LaneIn(g, last, op[m])
          BY <1>3, <5>3
        <5>5. op[m].type = "ACTIVITY_SCHEDULED" /\ op[m].command = c
          BY <1>4, <5>1, <5>4 DEF LaneIn, Lane, Opening
        <5>6. m = k
          BY <3>4, <5>5
        <5> QED BY <5>3, <5>6
      <4>4. k + 1 \in own
        BY <3>1, <4>1, <4>2 DEF OwnLanes
      <4> QED BY <4>3, <4>4
    <3>6. Min(own) = k + 1
      BY <3>5 DEF Min
    <3>7. PICK lane : lane = L[k + 1]
      OBVIOUS
    <3>8. k + 1 \in 1..Len(L) /\ lane \in Lanes /\ lane = LaneIn(g, last, op[k])
      BY <1>2, <1>3, <3>7, ElementOfSeq
    <3>9. AddEvent(L, e) = [L EXCEPT ![k + 1] = Marked(lane, e)]
      <4>1. own # {}
        BY <3>5
      <4> QED BY <1>6, <2>3, <2>5, <3>1, <3>6, <3>7, <4>1 DEF AddEvent
    <3>10. Marked(lane, e) = LaneIn(h, last, op[k]) /\ Marked(lane, e) \in Lanes
      <4>1. ~EndedIn(g, c)
        BY <2>5, <3>1 DEF Follows, EndedIn
      <4>2. op[k] \in Event
        BY <1>4
      <4>3. PICK d : d = op[k]
        OBVIOUS
      <4>4. /\ d \in Event /\ d.type = "ACTIVITY_SCHEDULED" /\ e.command = d.command
            /\ ~EndedIn(g, d.command) /\ lane = LaneIn(g, last, d)
        BY <3>1, <3>2, <3>3, <3>8, <4>1, <4>2, <4>3
      <4>5. Marked(lane, e) = LaneIn(h, last, d)
        BY <2>5, <3>8, <4>4, LaneMarked
      <4> QED BY <2>5, <3>8, <4>3, <4>5, MarkedTyped
    <3>11. PICK marked : marked = [L EXCEPT ![k + 1] = Marked(lane, e)]
      OBVIOUS
    <3>12. /\ marked \in Seq(Lanes) /\ Len(marked) = n + 1
           /\ \A i \in 1..(n + 1) : marked[i] = IF i = k + 1 THEN Marked(lane, e) ELSE L[i]
      BY <1>3, <3>8, <3>10, <3>11, ExceptSeq
    <3>13. marked[1] = run
      <4>1. 1 \in 1..(n + 1) /\ 1 # k + 1
        BY <1>2
      <4> QED BY <1>3, <3>12, <4>1
    <3>14. ASSUME NEW i \in 1..n
           PROVE  marked[i + 1] = LaneIn(h, last, op[i])
      <4>1. i + 1 \in 1..(n + 1)
        BY <1>2
      <4>2. CASE i = k
        BY <3>10, <3>12, <4>1, <4>2
      <4>3. CASE i # k
        <5>1. marked[i + 1] = LaneIn(g, last, op[i])
          BY <1>2, <1>3, <3>12, <4>1, <4>3
        <5>2. PICK d : d = op[i]
          OBVIOUS
        <5>3. Untouched(e, d)
          BY <1>4, <3>1, <3>4, <4>3, <5>2 DEF Opening, Untouched
        <5>4. LaneIn(h, last, d) = LaneIn(g, last, d)
          BY <5>3, LaneKept
        <5> QED BY <5>1, <5>2, <5>4
      <4> QED BY <4>2, <4>3
    <3>15. LanesIn(h, last, run, marked)
      BY <1>1, <2>1, <3>12, <3>13, <3>14 DEF LanesIn
    <3> QED BY <2>2, <3>9, <3>11, <3>15
  <2> QED BY <2>4, <2>5
<1> QED BY <1>7, <1>8

LEMMA HistoryInitially ==
  ASSUME HistoryInit
  PROVE  HistoryTypeOK
<1>1. 0 \in EventTimes
  BY HistoryAssumption DEF EventTimes
<1>2. PICK started :
        started = [type |-> "WORKFLOW_STARTED", command |-> NoCommand, at |-> 0]
  OBVIOUS
<1>3. started \in Event
  BY <1>1, <1>2 DEF Event, EventTypes
<1>4. history = <<started>> /\ updatedAt = 0
  BY <1>2 DEF HistoryInit
<1> QED BY <1>1, <1>3, <1>4 DEF HistoryTypeOK

LEMMA BeforeTyped ==
  ASSUME NEW h \in Seq(Event), NEW n \in 0..Len(h)
  PROVE  /\ Before(h, n) \in Seq(Event) /\ Len(Before(h, n)) = n
         /\ \A i \in 1..n : Before(h, n)[i] = h[i]
<1>1. Len(h) \in Nat /\ n \in Nat /\ \A i \in 1..n : i \in 1..Len(h)
  BY LenProperties
<1>2. \A i \in 1..n : h[i] \in Event
  BY <1>1, ElementOfSeq
<1> QED BY <1>1, <1>2 DEF Before

LEMMA BeforeNext ==
  ASSUME NEW h \in Seq(Event), NEW n \in 0..Len(h), n + 1 \in 0..Len(h)
  PROVE  Before(h, n + 1) = Append(Before(h, n), h[n + 1])
<1>1. PICK g, k, e : g = Before(h, n) /\ k = Before(h, n + 1) /\ e = h[n + 1]
  OBVIOUS
<1>2. Len(h) \in Nat /\ n \in Nat /\ n + 1 \in 1..Len(h)
  BY LenProperties
<1>3. /\ g \in Seq(Event) /\ Len(g) = n /\ e \in Event
      /\ \A i \in 1..n : g[i] = h[i]
  BY <1>1, <1>2, BeforeTyped, ElementOfSeq
<1>4. k \in Seq(Event) /\ Len(k) = n + 1 /\ \A i \in 1..(n + 1) : k[i] = h[i]
  BY <1>1, <1>2, BeforeTyped
<1>5. PICK a : a = Append(g, e)
  OBVIOUS
<1>6. a \in Seq(Event) /\ Len(a) = n + 1 /\ a[n + 1] = e /\ \A i \in 1..n : a[i] = g[i]
  BY <1>3, <1>5, AppendProperties
<1>7. ASSUME NEW i \in 1..(n + 1)
      PROVE  k[i] = a[i]
  <2>1. i \in 1..n \/ i = n + 1
    BY <1>2
  <2> QED BY <1>1, <1>3, <1>4, <1>6, <2>1
<1>8. k = a
  BY <1>4, <1>6, <1>7, SeqEqual
<1> QED BY <1>1, <1>5, <1>8

LEMMA BeforeAll ==
  ASSUME NEW h \in Seq(Event)
  PROVE  Before(h, Len(h)) = h
<1>1. PICK k, m : m = Len(h) /\ k = Before(h, m)
  OBVIOUS
<1>2. m \in Nat
  BY <1>1, LenProperties
<1>3. m \in 0..Len(h)
  BY <1>1, <1>2
<1>4. k \in Seq(Event) /\ Len(k) = Len(h) /\ \A i \in 1..Len(h) : k[i] = h[i]
  BY <1>1, <1>3, BeforeTyped
<1>5. k = h
  BY <1>4, SeqEqual
<1> QED BY <1>1, <1>5

LEMMA FollowsIsKept ==
  ASSUME HistoryInv, NEW e \in Event, Follows(history, e), history' = Append(history, e),
         updatedAt' \in EventTimes
  PROVE  HistoryInv'
<1>1. PICK m, later : m = Len(history) /\ later = history'
  OBVIOUS
<1>2. history \in Seq(Event) /\ m \in Nat /\ m >= 1 /\ history[1].at = 0
  BY <1>1, LenProperties DEF HistoryInv, HistoryTypeOK
<1>3. later \in Seq(Event) /\ Len(later) = m + 1 /\ later[m + 1] = e /\ \A i \in 1..m : later[i] = history[i]
  BY <1>1, <1>2, AppendProperties
<1>4. ASSUME NEW n \in 1..(m + 1)
      PROVE  Follows(Before(later, n - 1), later[n])
  <2>1. Before(later, n - 1) = Before(history, n - 1)
    BY <1>2, <1>3 DEF Before
  <2>2. CASE n = m + 1
    <3>1. n - 1 = m
      BY <1>2, <2>2
    <3>2. Before(history, m) = history
      BY <1>1, <1>2, BeforeAll
    <3> QED BY <1>3, <2>1, <2>2, <3>1, <3>2
  <2>3. CASE n # m + 1
    <3>1. n \in 1..m
      BY <1>2, <2>3
    <3> QED BY <1>1, <1>3, <2>1, <3>1 DEF HistoryInv
  <2> QED BY <2>2, <2>3
<1>5. later[1].at = 0
  <2>1. 1 \in 1..m
    BY <1>2
  <2> QED BY <1>2, <1>3, <2>1
<1>6. \A n \in 1..Len(history') : Follows(Before(history', n - 1), history'[n])
  BY <1>1, <1>3, <1>4
<1>7. HistoryTypeOK'
  BY <1>1, <1>3 DEF HistoryTypeOK
<1>8. (Len(history) >= 1 /\ history[1].at = 0)'
  BY <1>1, <1>2, <1>3, <1>5
<1>9. (\A n \in 1..Len(history) : Follows(Before(history, n - 1), history[n]))'
  BY <1>6 DEF Follows, Before
<1> QED BY <1>7, <1>8, <1>9 DEF HistoryInv

\* What an action appends follows the history.
LEMMA ActionFollows ==
  ASSUME HistoryInv, NEW type \in EventTypes, NEW c \in Commands \cup {NoCommand}, NEW t \in EventTimes,
         Append1(type, c, t),
         type # "WORKFLOW_STARTED",
         c \in Commands <=> type \in {"ACTIVITY_SCHEDULED"} \cup Marking,
         type = "ACTIVITY_SCHEDULED" => ~Has({"ACTIVITY_SCHEDULED"}, c),
         type \in Marking => Has({"ACTIVITY_SCHEDULED"}, c) /\ ~Has(Ended, c),
         updatedAt' \in EventTimes
  PROVE  HistoryInv'
<1>1. PICK e : e = [type |-> type, command |-> c, at |-> t]
  OBVIOUS
<1>2. e \in Event /\ e.type = type /\ e.command = c /\ e.at = t
  BY <1>1 DEF Event
<1>3. PICK m : m = Len(history)
  OBVIOUS
<1>4. history \in Seq(Event) /\ m \in Nat /\ m >= 1
  BY <1>3, LenProperties DEF HistoryInv, HistoryTypeOK
<1>5. \A i \in 1..m : history[i] \in Event /\ history[i].at \in Nat
  BY <1>3, <1>4, ElementOfSeq, EventIs
<1>6. ASSUME NEW n \in 1..m
      PROVE  /\ Follows(Before(history, n - 1), history[n])
             /\ Len(Before(history, n - 1)) = n - 1
             /\ \A i \in 1..(n - 1) : Before(history, n - 1)[i] = history[i]
  <2>1. n - 1 \in 0..m
    BY <1>4
  <2> QED BY <1>3, <1>4, <2>1, BeforeTyped DEF HistoryInv
<1>7. \A i \in 1..m : history[i].at <= t
  <2>1. SUFFICES ASSUME NEW i \in 1..m
                 PROVE  history[i].at <= t
    OBVIOUS
  <2>2. m \in 1..m
    BY <1>4
  <2>3. history[m].at <= t
    BY <1>3, <1>5, <2>2 DEF Append1, Last
  <2>4. CASE i = m
    BY <2>3, <2>4
  <2>5. CASE i # m
    <3>1. i \in 1..(m - 1)
      BY <1>4, <2>5
    <3>2. history[i].at <= history[m].at
      BY <1>6, <2>2, <3>1 DEF Follows
    <3>3. t \in Nat
      BY HistoryAssumption DEF EventTimes
    <3> QED BY <1>5, <2>2, <2>3, <3>2, <3>3
  <2> QED BY <2>4, <2>5
<1>8. ASSUME type = "ACTIVITY_SCHEDULED", NEW i \in 1..m, history[i].command = c
      PROVE  FALSE
  <2>1. c \in Commands
    BY <1>8
  <2>2. history[i].type \in {"ACTIVITY_SCHEDULED"} \cup Marking
    BY <1>6, <1>8, <2>1 DEF Follows
  <2>3. ~Has({"ACTIVITY_SCHEDULED"}, c)
    BY <1>8
  <2>4. history[i].type \in Marking
    BY <1>3, <1>8, <2>2, <2>3 DEF Has
  <2>5. PICK k \in 1..(i - 1) : history[k].type = "ACTIVITY_SCHEDULED" /\ history[k].command = c
    BY <1>6, <1>8, <2>4 DEF Follows
  <2>6. k \in 1..m
    BY <1>4
  <2> QED BY <1>3, <2>3, <2>5, <2>6 DEF Has
<1>9. type \in Marking =>
        /\ \E i \in 1..m : history[i].type = "ACTIVITY_SCHEDULED" /\ history[i].command = c
        /\ \A i \in 1..m : ~(history[i].type \in Ended /\ history[i].command = c)
  BY <1>3 DEF Has
<1>10. Follows(history, e)
  <2>1. type = "WORKFLOW_STARTED" <=> m = 0
    BY <1>4
  <2>2. type = "ACTIVITY_SCHEDULED" => \A i \in 1..m : history[i].command # c
    BY <1>8
  <2> QED BY <1>2, <1>3, <1>7, <1>9, <2>1, <2>2 DEF Follows
<1>11. history' = Append(history, e)
  BY <1>1 DEF Append1
<1> QED BY <1>2, <1>10, <1>11, FollowsIsKept

LEMMA HistoryKept ==
  ASSUME HistoryInv, [HistoryNext]_historyVars
  PROVE  HistoryInv'
<1>1. CASE HistoryNext
  <2>1. PICK t \in EventTimes :
          \/ Signal(t)
          \/ \E c \in Commands : Schedule(c, t) \/ \E type \in EventTypes : Proceed(type, c, t)
    BY <1>1 DEF HistoryNext
  <2>2. updatedAt' \in EventTimes
    BY <2>1 DEF Signal, Schedule, Proceed, HistoryInv, HistoryTypeOK
  <2>3. NoCommand \notin Commands
    BY HistoryAssumption
  <2>4. CASE Signal(t)
    <3>1. Append1("SIGNAL_RECEIVED", NoCommand, t)
      BY <2>4 DEF Signal
    <3>2. "SIGNAL_RECEIVED" \in EventTypes /\ "SIGNAL_RECEIVED" \notin {"ACTIVITY_SCHEDULED"} \cup Marking
      BY DEF EventTypes, Marking, Ended
    <3> QED BY <2>2, <2>3, <3>1, <3>2, ActionFollows
  <2>5. ASSUME NEW c \in Commands, Schedule(c, t)
        PROVE  HistoryInv'
    <3>1. Append1("ACTIVITY_SCHEDULED", c, t) /\ ~Has({"ACTIVITY_SCHEDULED"}, c)
      BY <2>5 DEF Schedule
    <3>2. "ACTIVITY_SCHEDULED" \in EventTypes /\ "ACTIVITY_SCHEDULED" \notin Marking
      BY DEF EventTypes, Marking, Ended
    <3> QED BY <2>2, <3>1, <3>2, ActionFollows
  <2>6. ASSUME NEW c \in Commands, NEW type \in EventTypes, Proceed(type, c, t)
        PROVE  HistoryInv'
    <3>1. /\ Append1(type, c, t) /\ type \in Marking
          /\ Has({"ACTIVITY_SCHEDULED"}, c) /\ ~Has(Ended, c)
      BY <2>6 DEF Proceed
    <3>2. type # "WORKFLOW_STARTED" /\ type # "ACTIVITY_SCHEDULED"
      BY <3>1 DEF Marking, Ended
    <3> QED BY <2>2, <3>1, <3>2, ActionFollows
  <2> QED BY <2>1, <2>4, <2>5, <2>6
<1>2. CASE UNCHANGED historyVars
  <2>1. history' = history /\ updatedAt' = updatedAt
    BY <1>2 DEF historyVars
  <2>2. HistoryTypeOK'
    BY <2>1 DEF HistoryInv, HistoryTypeOK
  <2>3. (Len(history) >= 1 /\ history[1].at = 0)'
    BY <2>1 DEF HistoryInv
  <2>4. \A n \in 1..Len(history') : Follows(Before(history', n - 1), history'[n])
    BY <2>1 DEF HistoryInv
  <2>5. (\A n \in 1..Len(history) : Follows(Before(history, n - 1), history[n]))'
    BY <2>4 DEF Follows, Before
  <2> QED BY <2>2, <2>3, <2>5 DEF HistoryInv
<1> QED BY <1>1, <1>2

LEMMA HistoryStarts ==
  ASSUME HistoryInit
  PROVE  HistoryInv
<1>1. PICK started :
        started = [type |-> "WORKFLOW_STARTED", command |-> NoCommand, at |-> 0]
  OBVIOUS
<1>2. history = <<started>>
  BY <1>1 DEF HistoryInit
<1>3. Len(history) = 1 /\ history[1] = started
  BY <1>2
<1>4. Follows(Before(history, 0), started)
  <2>1. Before(history, 0) = <<>>
    BY DEF Before
  <2>2. Len(Before(history, 0)) = 0
    BY <2>1
  <2>3. "WORKFLOW_STARTED" \notin {"ACTIVITY_SCHEDULED"} \cup Marking
    BY DEF Marking, Ended
  <2> QED BY <1>1, <2>2, <2>3, HistoryAssumption DEF Follows
<1>5. \A n \in 1..1 : n - 1 = 0 /\ n = 1
  OBVIOUS
<1> QED BY <1>1, <1>3, <1>4, <1>5, HistoryInitially DEF HistoryInv

-----------------------------------------------------------------------------
(* The pass over the history *)

\* The largest of the first n numbers, and of some of them.
LEMMA MaxOf ==
  ASSUME NEW m \in Nat
  PROVE  /\ \A s \in SUBSET (1..m) : s # {} => Max(s) \in s
         /\ \A n \in 1..m : Max(1..n) = n
<1>1. ASSUME NEW s \in SUBSET (1..m), s # {}
      PROVE  Max(s) \in s
  <2>1. PICK f : f = [x \in s |-> x]
    OBVIOUS
  <2>2. f \in [s -> Nat] /\ \A x \in s : f[x] <= m
    BY <2>1
  <2>3. \E x \in s : \A y \in s : f[y] <= f[x]
    BY <1>1, <2>2, HasMaximum
  <2>4. \E x \in s : \A y \in s : x >= y
    BY <2>1, <2>3
  <2> QED BY <2>4 DEF Max
<1>2. ASSUME NEW n \in 1..m
      PROVE  Max(1..n) = n
  BY <1>2 DEF Max
<1> QED BY <1>1, <1>2

\* The lanes after each of the events, in the pass that adds one event after the other.
Passes(f) ==
  /\ f[0] = <<RunLane>>
  /\ \A n \in 1..Len(history) : f[n] = AddEvent(f[n - 1], history[n])

LEMMA TimesAreNumbers ==
  ASSUME HistoryInv
  PROVE  /\ history \in Seq(Event) /\ Len(history) \in Nat /\ Len(history) >= 1
         /\ DOMAIN history = 1..Len(history)
         /\ \A n \in 1..Len(history) : history[n] \in Event /\ history[n].at \in Nat
         /\ TimelineFirst = 0 /\ TimelineLast = history[Len(history)].at /\ TimelineLast \in Nat
         /\ RunLane \in Lanes /\ RunLane = Lane("workflow", NoCommand, 0, TimelineLast, <<>>)
<1>1. history \in Seq(Event) /\ Len(history) \in Nat /\ Len(history) >= 1 /\ history[1].at = 0
      /\ DOMAIN history = 1..Len(history)
  BY LenProperties DEF HistoryInv, HistoryTypeOK
<1>2. \A n \in 1..Len(history) : history[n] \in Event /\ history[n].at \in Nat
  BY <1>1, ElementOfSeq, EventIs
<1>3. TimelineFirst = 0 /\ TimelineLast = history[Len(history)].at
  BY <1>1 DEF TimelineFirst, TimelineLast, Last
<1>4. Len(history) \in 1..Len(history)
  BY <1>1
<1>5. TimelineLast \in Nat
  BY <1>2, <1>3, <1>4
<1>6. RunLane = Lane("workflow", NoCommand, 0, TimelineLast, <<>>)
  BY <1>3 DEF RunLane
<1>7. <<>> \in Seq(Mark)
  OBVIOUS
<1>8. RunLane \in Lanes
  BY <1>5, <1>6, <1>7, LaneTyped
<1> QED BY <1>1, <1>2, <1>3, <1>5, <1>6, <1>8

LEMMA LanesArePassed ==
  ASSUME HistoryInv
  PROVE  \E f : Passes(f) /\ timelineLanes = f[Len(history)]
<1>1. PICK m : m = Len(history)
  OBVIOUS
<1>2. /\ m \in Nat /\ DOMAIN history = 1..m /\ RunLane \in Lanes /\ TimelineLast \in Nat
      /\ \A n \in 1..m : history[n] \in Event
  BY <1>1, TimesAreNumbers
<1>3. PICK T, choose, step :
        /\ T = 1..m
        /\ choose = [s \in SUBSET T |-> Max(s)]
        /\ step = [n \in T |-> [L \in Seq(Lanes) |-> AddEvent(L, history[n])]]
  OBVIOUS
<1>4. PICK g \in [SUBSET T -> Seq(Lanes)] : Folded(g, SUBSET T, <<RunLane>>, choose, step)
  <2>1. IsFiniteSet(T)
    BY <1>2, <1>3, FS_Interval
  <2>2. Chooses(choose, T)
    BY <1>2, <1>3, MaxOf DEF Chooses
  <2>3. step \in [T -> [Seq(Lanes) -> Seq(Lanes)]]
    BY <1>2, <1>3, AddEventTyped
  <2>4. <<RunLane>> \in Seq(Lanes)
    BY <1>2
  <2> QED BY <2>1, <2>2, <2>3, <2>4, FoldExists
<1>5. \A s \in SUBSET T : s # {} => Max(s) \in T /\ s \ {Max(s)} \in SUBSET T
  BY <1>2, <1>3, MaxOf
<1>6. g = [s \in SUBSET DOMAIN history |->
             IF s = {} THEN <<RunLane>> ELSE AddEvent(g[s \ {Max(s)}], history[Max(s)])]
  <2>1. ASSUME NEW s \in SUBSET T
        PROVE  g[s] = IF s = {} THEN <<RunLane>> ELSE AddEvent(g[s \ {Max(s)}], history[Max(s)])
    <3>1. g[s] = IF s = {} THEN <<RunLane>> ELSE step[choose[s]][g[s \ {choose[s]}]]
      BY <1>4 DEF Folded
    <3>2. choose[s] = Max(s)
      BY <1>3
    <3>3. s # {} => step[Max(s)][g[s \ {Max(s)}]] = AddEvent(g[s \ {Max(s)}], history[Max(s)])
      BY <1>3, <1>4, <1>5
    <3> QED BY <3>1, <3>2, <3>3
  <2> QED BY <1>2, <1>3, <1>4, <2>1
<1>7. PICK iter :
        /\ iter = CHOOSE i : i = [s \in SUBSET DOMAIN history |->
                    IF s = {} THEN <<RunLane>> ELSE AddEvent(i[s \ {Max(s)}], history[Max(s)])]
        /\ timelineLanes = iter[DOMAIN history]
  BY DEF timelineLanes, FoldLeft, MapThenFoldSet
<1>8. iter = [s \in SUBSET DOMAIN history |->
                IF s = {} THEN <<RunLane>> ELSE AddEvent(iter[s \ {Max(s)}], history[Max(s)])]
  BY <1>6, <1>7
<1>9. PICK f : f = [n \in 0..m |-> iter[1..n]]
  OBVIOUS
<1>10. f[0] = <<RunLane>>
  <2>1. 1..0 = {} /\ {} \in SUBSET DOMAIN history /\ 0 \in 0..m
    BY <1>2
  <2> QED BY <1>8, <1>9, <2>1
<1>11. ASSUME NEW n \in 1..m
       PROVE  f[n] = AddEvent(f[n - 1], history[n])
  <2>1. 1..n \in SUBSET DOMAIN history /\ 1..n # {} /\ n \in 0..m /\ n - 1 \in 0..m
    <3>1. n \in 0..m /\ n - 1 \in 0..m /\ n \in 1..n
      BY <1>2
    <3>2. \A i \in 1..n : i \in 1..m
      BY <1>2
    <3> QED BY <1>2, <3>1, <3>2
  <2>2. Max(1..n) = n
    BY <1>2, MaxOf
  <2>3. (1..n) \ {n} = 1..(n - 1)
    BY <1>2
  <2>4. iter[1..n] = AddEvent(iter[1..(n - 1)], history[n])
    BY <1>8, <2>1, <2>2, <2>3
  <2> QED BY <1>9, <2>1, <2>4
<1>12. timelineLanes = f[m]
  <2>1. m \in 0..m
    BY <1>2
  <2> QED BY <1>2, <1>7, <1>9, <2>1
<1> QED BY <1>1, <1>10, <1>11, <1>12 DEF Passes

\* After every event the lanes are those of the events so far.
LEMMA PassFollows ==
  ASSUME HistoryInv
  PROVE  LanesIn(history, TimelineLast, RunLane, timelineLanes) /\ OpenedOnce(history)
<1>1. PICK m, last, run : m = Len(history) /\ last = TimelineLast /\ run = RunLane
  OBVIOUS
<1>2. PICK f : Passes(f) /\ timelineLanes = f[m]
  BY <1>1, LanesArePassed
<1>3. /\ history \in Seq(Event) /\ m \in Nat /\ last \in Nat /\ run \in Lanes
      /\ \A n \in 1..m : history[n] \in Event
  BY <1>1, TimesAreNumbers
<1>4. PICK N :
        N = {n \in Nat : n <= m => /\ LanesIn(Before(history, n), last, run, f[n])
                                   /\ OpenedOnce(Before(history, n))}
  OBVIOUS
<1>5. 0 \in N
  <2>1. Before(history, 0) = <<>>
    BY DEF Before
  <2>2. PICK none : none = Among(<<>>, Openings)
    OBVIOUS
  <2>3. none = <<>> /\ Len(none) = 0
    BY <2>2, AmongEmpty
  <2>4. OpenedOnce(<<>>)
    BY <2>2, <2>3 DEF OpenedOnce
  <2>5. PICK L : L = <<run>>
    OBVIOUS
  <2>6. L \in Seq(Lanes) /\ Len(L) = 1 /\ L[1] = run
    BY <1>3, <2>5
  <2>7. LanesIn(<<>>, last, run, L)
    BY <2>2, <2>3, <2>6 DEF LanesIn
  <2>8. f[0] = L
    BY <1>1, <1>2, <2>5 DEF Passes
  <2> QED BY <1>4, <2>1, <2>4, <2>7, <2>8
<1>6. ASSUME NEW n \in Nat, n \in N
      PROVE  n + 1 \in N
  <2>1. SUFFICES ASSUME n + 1 <= m
                 PROVE  /\ LanesIn(Before(history, n + 1), last, run, f[n + 1])
                        /\ OpenedOnce(Before(history, n + 1))
    BY <1>4
  <2>2. PICK g, e, L : g = Before(history, n) /\ e = history[n + 1] /\ L = f[n]
    OBVIOUS
  <2>3. n \in 0..m /\ n + 1 \in 0..m /\ n + 1 \in 1..m /\ n + 1 - 1 = n
    BY <1>3, <2>1
  <2>4. g \in Seq(Event) /\ e \in Event
    BY <1>1, <1>3, <2>2, <2>3, BeforeTyped
  <2>5. Before(history, n + 1) = Append(g, e)
    BY <1>1, <1>3, <2>2, <2>3, BeforeNext
  <2>6. Follows(g, e)
    BY <1>1, <2>2, <2>3 DEF HistoryInv
  <2>7. f[n + 1] = AddEvent(L, e)
    BY <1>1, <1>2, <2>2, <2>3 DEF Passes
  <2>8. LanesIn(g, last, run, L) /\ OpenedOnce(g)
    BY <1>4, <1>6, <2>2, <2>3
  <2>9. run.kind = "workflow"
    BY <1>1 DEF RunLane, Lane
  <2>10. LanesIn(Append(g, e), last, run, AddEvent(L, e)) /\ OpenedOnce(Append(g, e))
    BY <1>1, <1>3, <2>4, <2>6, <2>8, <2>9, AddEventFollows
  <2> QED BY <2>5, <2>7, <2>10
<1>7. Nat \subseteq N
  BY <1>5, <1>6, SetInduction
<1>8. Before(history, m) = history
  BY <1>1, <1>3, BeforeAll
<1> QED BY <1>1, <1>2, <1>3, <1>4, <1>7, <1>8

\* What the history says of a lane.
LEMMA LaneForIs ==
  ASSUME HistoryInv, NEW e
  PROVE  LaneFor(e) = LaneIn(history, TimelineLast, e)
<1>1. PICK c : c = e.command
  OBVIOUS
<1>2. EventsOf(c) = Among(history, MarksOf(c))
  BY DEF EventsOf, Of, MarksOf
<1>3. MarkersOf(c) = MarkersIn(history, c)
  BY <1>2 DEF MarkersOf, MarkersIn
<1>4. Has(Ended, c) <=> EndedIn(history, c)
  BY DEF Has, EndedIn
<1>5. EndOf(c) = EndIn(history, TimelineLast, c)
  BY <1>2, <1>4 DEF EndOf, EndIn, Last, TimelineLast
<1> QED BY <1>1, <1>3, <1>5 DEF LaneFor, LaneIn

LEMMA LanesAreExpected ==
  ASSUME HistoryInv
  PROVE  LanesFollowHistory
<1>1. PICK opening, n, L :
        opening = Among(history, Openings) /\ n = Len(opening) /\ L = timelineLanes
  OBVIOUS
<1>2. history \in Seq(Event) /\ RunLane = Lane("workflow", NoCommand, 0, Last(history).at, <<>>)
  BY TimesAreNumbers DEF TimelineLast
<1>3. opening \in Seq(Event) /\ n \in Nat
  BY <1>1, <1>2, AmongTyped, LenProperties
<1>4. /\ L \in Seq(Lanes) /\ Len(L) = n + 1 /\ L[1] = RunLane
      /\ \A i \in 1..n : L[i + 1] = LaneFor(opening[i])
  BY <1>1, PassFollows, LaneForIs DEF LanesIn
<1>5. PICK rest : rest = [i \in 1..n |-> LaneFor(opening[i])]
  OBVIOUS
<1>6. \A i \in 1..n : rest[i] = L[i + 1] /\ L[i + 1] \in Lanes
  <2>1. SUFFICES ASSUME NEW i \in 1..n
                 PROVE  rest[i] = L[i + 1] /\ L[i + 1] \in Lanes
    OBVIOUS
  <2>2. i + 1 \in 1..Len(L)
    BY <1>3, <1>4
  <2> QED BY <1>4, <1>5, <2>2, ElementOfSeq
<1>7. rest \in Seq(Lanes) /\ Len(rest) = n
  BY <1>3, <1>5, <1>6
<1>8. PICK expected : expected = <<RunLane>> \o rest
  OBVIOUS
<1>9. /\ expected \in Seq(Lanes) /\ Len(expected) = n + 1 /\ expected[1] = RunLane
      /\ \A i \in 2..(n + 1) : expected[i] = rest[i - 1]
  <2>1. PICK first : first = <<RunLane>>
    OBVIOUS
  <2>2. first \in Seq(Lanes) /\ Len(first) = 1 /\ first[1] = RunLane
    BY <2>1, TimesAreNumbers
  <2>3. /\ expected \in Seq(Lanes) /\ Len(expected) = Len(first) + Len(rest)
        /\ \A i \in 1..(Len(first) + Len(rest)) :
             expected[i] = IF i <= Len(first) THEN first[i] ELSE rest[i - Len(first)]
    BY <1>7, <1>8, <2>1, <2>2, ConcatProperties
  <2> QED BY <1>3, <1>7, <2>2, <2>3
<1>10. ASSUME NEW i \in 1..(n + 1)
       PROVE  L[i] = expected[i]
  <2>1. CASE i = 1
    BY <1>4, <1>9, <2>1
  <2>2. CASE i # 1
    <3>1. i \in 2..(n + 1) /\ i - 1 \in 1..n /\ i - 1 + 1 = i
      BY <1>3, <2>2
    <3> QED BY <1>6, <1>9, <3>1
  <2> QED BY <2>1, <2>2
<1>11. L = expected
  BY <1>4, <1>9, <1>10, SeqEqual
<1>12. ExpectedLanes = <<RunLane>> \o rest
  <2>1. Of(Opening, Commands \cup {NoCommand}) = opening
    BY <1>1 DEF Of, Openings
  <2> QED BY <1>1, <1>2, <1>5, <2>1 DEF ExpectedLanes
<1> QED BY <1>1, <1>8, <1>11, <1>12 DEF LanesFollowHistory

-----------------------------------------------------------------------------
(* The chart *)

LEMMA Product ==
  ASSUME NEW q \in Int, NEW r \in Int, NEW s \in Nat, q <= r
  PROVE  q * s <= r * s
<1>1. PICK d \in Nat : r = q + d
  <2>1. r - q \in Nat /\ r = q + (r - q)
    OBVIOUS
  <2> QED BY <2>1
<1>2. (q + d) * s = q * s + d * s
  OBVIOUS
<1>3. d * s >= 0 /\ q * s \in Int
  OBVIOUS
<1> QED BY <1>1, <1>2, <1>3

LEMMA QuotientBounds ==
  ASSUME NEW a \in Nat, NEW s \in Nat \ {0}
  PROVE  a \div s \in Nat /\ (a \div s) * s <= a /\ a < (a \div s + 1) * s
<1>1. PICK q \in Nat : q = a \div s
  BY Quotient
<1>2. a = s * q + (a % s) /\ (a % s) \in 0..(s - 1)
  BY <1>1
<1>3. (q + 1) * s = q * s + s /\ s * q = q * s /\ q * s \in Int
  OBVIOUS
<1> QED BY <1>1, <1>2, <1>3

\* Division keeps order, and of k times what is at most the divisor it is at most k.
LEMMA QuotientGrows ==
  ASSUME NEW a \in Nat, NEW b \in Nat, NEW s \in Nat \ {0}, a <= b
  PROVE  a \div s <= b \div s
<1>1. PICK q \in Nat, r \in Nat : q = a \div s /\ r = b \div s
  BY QuotientBounds
<1>2. q * s <= a /\ b < (r + 1) * s
  BY <1>1, QuotientBounds
<1>3. SUFFICES ASSUME r + 1 <= q
               PROVE  FALSE
  BY <1>1
<1>4. (r + 1) * s <= q * s
  BY <1>3, Product
<1>5. q * s \in Int /\ (r + 1) * s \in Int
  OBVIOUS
<1> QED BY <1>2, <1>4, <1>5

LEMMA ShareIsBounded ==
  ASSUME NEW t \in Nat, NEW k \in Nat, NEW s \in Nat \ {0}, t <= s
  PROVE  (t * k) \div s \in 0..k
<1>1. PICK b \in Nat : b = t * k
  OBVIOUS
<1>2. PICK r \in Nat : r = b \div s
  BY QuotientBounds
<1>3. r * s <= b
  BY <1>2, QuotientBounds
<1>4. t * k <= s * k /\ s * k = k * s
  BY Product
<1>5. SUFFICES ASSUME k + 1 <= r
               PROVE  FALSE
  BY <1>1, <1>2
<1>6. (k + 1) * s <= r * s
  BY <1>5, Product
<1>7. (k + 1) * s = k * s + s /\ k * s \in Int /\ r * s \in Int
  OBVIOUS
<1> QED BY <1>1, <1>3, <1>4, <1>6, <1>7

\* The history in its order: its times do not fall, and an activity's marks are
\* behind its only scheduling.
LEMMA HistoryIsOrdered ==
  ASSUME HistoryInv
  PROVE  /\ \A i, j \in 1..Len(history) : i <= j => history[i].at <= history[j].at
         /\ \A i, j \in 1..Len(history) :
              /\ history[i].type = "ACTIVITY_SCHEDULED" /\ history[j].type \in Marking
              /\ history[i].command = history[j].command
              => i < j
<1>1. PICK m : m = Len(history)
  OBVIOUS
<1>2. history \in Seq(Event) /\ m \in Nat /\ \A n \in 1..m : history[n].at \in Nat
  BY <1>1, TimesAreNumbers
<1>3. ASSUME NEW n \in 1..m
      PROVE  /\ Follows(Before(history, n - 1), history[n])
             /\ Len(Before(history, n - 1)) = n - 1
             /\ \A i \in 1..(n - 1) : Before(history, n - 1)[i] = history[i]
  <2>1. n - 1 \in 0..m
    BY <1>2
  <2> QED BY <1>1, <1>2, <2>1, BeforeTyped DEF HistoryInv
<1>4. ASSUME NEW i \in 1..m, NEW j \in 1..m, i < j
      PROVE  /\ history[i].at <= history[j].at
             /\ history[j].type = "ACTIVITY_SCHEDULED" => history[i].command # history[j].command
  <2>1. i \in 1..(j - 1)
    BY <1>2, <1>4
  <2>2. PICK g : g = Before(history, j - 1)
    OBVIOUS
  <2>3. Follows(g, history[j]) /\ Len(g) = j - 1 /\ \A k \in 1..(j - 1) : g[k] = history[k]
    BY <1>3, <2>2
  <2>4. g[i].at <= history[j].at
    BY <2>1, <2>3 DEF Follows
  <2>5. history[j].type = "ACTIVITY_SCHEDULED" => g[i].command # history[j].command
    BY <2>1, <2>3 DEF Follows
  <2> QED BY <2>1, <2>3, <2>4, <2>5
<1>5. ASSUME NEW i \in 1..m, NEW j \in 1..m, i <= j
      PROVE  history[i].at <= history[j].at
  <2>1. i = j \/ i < j
    BY <1>2, <1>5
  <2> QED BY <1>2, <1>4, <2>1
<1>6. ASSUME NEW i \in 1..m, NEW j \in 1..m,
             history[i].type = "ACTIVITY_SCHEDULED", history[j].type \in Marking,
             history[i].command = history[j].command
      PROVE  i < j
  <2>1. PICK k \in 1..(j - 1) :
          history[k].type = "ACTIVITY_SCHEDULED" /\ history[k].command = history[j].command
    <3>1. PICK g : g = Before(history, j - 1)
      OBVIOUS
    <3>2. Follows(g, history[j]) /\ Len(g) = j - 1 /\ \A k \in 1..(j - 1) : g[k] = history[k]
      BY <1>3, <3>1
    <3>3. \E k \in 1..Len(g) : g[k].type = "ACTIVITY_SCHEDULED" /\ g[k].command = history[j].command
      BY <1>6, <3>2 DEF Follows
    <3> QED BY <3>2, <3>3
  <2>2. k \in 1..m /\ k < j
    BY <1>2
  <2>3. k = i
    <3>1. ~(k < i) /\ ~(i < k)
      BY <1>4, <1>6, <2>1, <2>2
    <3> QED BY <1>2, <2>2, <3>1
  <2> QED BY <2>2, <2>3
<1> QED BY <1>1, <1>5, <1>6

\* The events that Among keeps are of the history, where a mark of a command is.
LEMMA KeptAreOfHistory ==
  ASSUME HistoryInv, NEW S, NEW i \in 1..Len(Among(history, S))
  PROVE  /\ Among(history, S)[i] \in S
         /\ \E k \in 1..Len(history) : Among(history, S)[i] = history[k]
<1>1. history \in Seq(Event)
  BY TimesAreNumbers
<1>2. PICK kept : kept = Among(history, S)
  OBVIOUS
<1>3. kept[i] \in Elements(kept) /\ Elements(kept) = Elements(history) \cap S
  BY <1>1, <1>2, AmongElements DEF Elements
<1>4. kept[i] \in S /\ kept[i] \in Elements(history)
  BY <1>3
<1> QED BY <1>2, <1>4 DEF Elements

\* Every lane begins before it ends, within the run, and so do its marks.
Fits(lane, last) ==
  /\ lane.start \in 0..last /\ lane.end \in 0..last /\ lane.start <= lane.end
  /\ \A n \in 1..Len(lane.markers) : lane.markers[n].at \in 0..last

LEMMA ActivityFits ==
  ASSUME HistoryInv, NEW p \in 1..Len(history), history[p].type = "ACTIVITY_SCHEDULED"
  PROVE  Fits(LaneIn(history, TimelineLast, history[p]), TimelineLast)
<1>1. PICK m, d, c, last :
        m = Len(history) /\ d = history[p] /\ c = d.command /\ last = TimelineLast
  OBVIOUS
<1>2. PICK marks, n, end, drawn :
        /\ marks = Among(history, MarksOf(c)) /\ n = Len(marks)
        /\ end = EndIn(history, last, c) /\ drawn = MarkersIn(history, c)
  OBVIOUS
<1>3. /\ history \in Seq(Event) /\ m \in Nat /\ m >= 1 /\ last \in Nat /\ last = history[m].at
      /\ d.at \in Nat /\ d \in Event
  BY <1>1, TimesAreNumbers
<1>4. n \in Nat /\ drawn \in Seq(Mark) /\ Len(drawn) = n /\ \A i \in 1..n : drawn[i] = Marker(marks[i])
  BY <1>2, <1>3, MarksTyped, LenProperties DEF MarkersIn
<1>5. ASSUME NEW k \in 1..m
      PROVE  history[k].at \in 0..last
  <2>1. k <= m /\ m \in 1..m
    BY <1>3
  <2>2. history[k].at <= history[m].at
    BY <1>1, <2>1, HistoryIsOrdered
  <2>3. history[k].at \in Nat
    BY <1>1, TimesAreNumbers
  <2> QED BY <1>3, <2>2, <2>3
<1>6. ASSUME NEW i \in 1..n
      PROVE  marks[i].at \in 0..last /\ d.at <= marks[i].at /\ Marker(marks[i]).at = marks[i].at
  <2>1. PICK k \in 1..m : marks[i] = history[k]
    BY <1>1, <1>2, KeptAreOfHistory
  <2>2. marks[i] \in Event /\ marks[i].type \in Marking /\ marks[i].command = c
    BY <1>2, <1>3, MarksTyped
  <2>3. p < k
    BY <1>1, <2>1, <2>2, HistoryIsOrdered
  <2>4. p <= k
    BY <1>1, <1>3, <2>3
  <2>5. d.at <= history[k].at
    BY <1>1, <2>1, <2>4, HistoryIsOrdered
  <2>6. Marker(marks[i]).at = marks[i].at
    BY <2>2, MarkerTyped
  <2> QED BY <1>5, <2>1, <2>5, <2>6
<1>7. end \in 0..last /\ d.at <= end
  <2>1. CASE EndedIn(history, c)
    <3>1. PICK k \in 1..m : history[k].type \in Ended /\ history[k].command = c
      BY <1>1, <2>1 DEF EndedIn
    <3>2. history[k] \in Event
      BY <1>1, TimesAreNumbers
    <3>3. history[k] \in Elements(history) /\ history[k] \in MarksOf(c)
      BY <1>1, <3>1, <3>2, EventIs DEF Elements, Marking
    <3>4. history[k] \in Elements(marks)
      BY <1>2, <1>3, <3>3, AmongElements
    <3>5. PICK i \in 1..n : history[k] = marks[i]
      BY <1>2, <3>4 DEF Elements
    <3>6. n \in 1..n
      BY <1>4
    <3>7. end = marks[n].at
      BY <1>2, <2>1 DEF EndIn
    <3> QED BY <1>6, <3>6, <3>7
  <2>2. CASE ~EndedIn(history, c)
    <3>1. end = last
      BY <1>2, <2>2 DEF EndIn
    <3>2. d.at \in 0..last
      BY <1>1, <1>5
    <3> QED BY <1>3, <3>1, <3>2
  <2> QED BY <2>1, <2>2
<1>8. PICK lane : lane = LaneIn(history, last, d)
  OBVIOUS
<1>9. lane.start = d.at /\ lane.end = end /\ lane.markers = drawn
  BY <1>1, <1>2, <1>8 DEF LaneIn, Lane
<1>10. d.at \in 0..last
  BY <1>1, <1>5
<1>11. \A i \in 1..n : drawn[i].at \in 0..last
  BY <1>4, <1>6
<1>12. Fits(lane, last)
  BY <1>4, <1>7, <1>9, <1>10, <1>11 DEF Fits
<1> QED BY <1>1, <1>8, <1>12

LEMMA SignalFits ==
  ASSUME HistoryInv, NEW p \in 1..Len(history), history[p].type = "SIGNAL_RECEIVED"
  PROVE  Fits(LaneIn(history, TimelineLast, history[p]), TimelineLast)
<1>1. PICK m, d, last : m = Len(history) /\ d = history[p] /\ last = TimelineLast
  OBVIOUS
<1>2. /\ m \in Nat /\ m >= 1 /\ last \in Nat /\ last = history[m].at
      /\ d.at \in Nat /\ d \in Event
  BY <1>1, TimesAreNumbers
<1>3. d.at \in 0..last
  <2>1. p <= m /\ m \in 1..m /\ p \in 1..m
    BY <1>1, <1>2
  <2>2. history[p].at <= history[m].at
    BY <1>1, <2>1, HistoryIsOrdered
  <2> QED BY <1>1, <1>2, <2>2
<1>4. Marker(d).at = d.at
  BY <1>1, <1>2, MarkerTyped
<1>5. PICK lane, drawn : lane = LaneIn(history, last, d) /\ drawn = <<Marker(d)>>
  OBVIOUS
<1>6. lane.start = d.at /\ lane.end = d.at /\ lane.markers = drawn
  BY <1>1, <1>5 DEF LaneIn, Lane
<1>7. Len(drawn) = 1 /\ drawn[1] = Marker(d)
  BY <1>5
<1>8. Fits(lane, last)
  <2>1. \A n \in 1..Len(drawn) : drawn[n].at \in 0..last
    BY <1>3, <1>4, <1>7
  <2> QED BY <1>2, <1>3, <1>6, <2>1 DEF Fits
<1> QED BY <1>1, <1>5, <1>8

LEMMA LanesFit ==
  ASSUME HistoryInv, NEW i \in 1..Len(timelineLanes)
  PROVE  Fits(timelineLanes[i], TimelineLast)
<1>1. PICK op, n, L, last :
        op = Among(history, Openings) /\ n = Len(op) /\ L = timelineLanes /\ last = TimelineLast
  OBVIOUS
<1>2. history \in Seq(Event) /\ last \in Nat /\ RunLane = Lane("workflow", NoCommand, 0, last, <<>>)
  BY <1>1, TimesAreNumbers
<1>3. op \in Seq(Event) /\ n \in Nat
  BY <1>1, <1>2, AmongTyped, LenProperties
<1>4. /\ L \in Seq(Lanes) /\ Len(L) = n + 1 /\ L[1] = RunLane
      /\ \A k \in 1..n : L[k + 1] = LaneIn(history, last, op[k])
  BY <1>1, PassFollows DEF LanesIn
<1>5. CASE i = 1
  <2>1. PICK drawn : drawn = <<>>
    OBVIOUS
  <2>2. RunLane.start = 0 /\ RunLane.end = last /\ RunLane.markers = drawn
    BY <1>2, <2>1 DEF Lane
  <2>3. \A k \in 1..Len(drawn) : drawn[k].at \in 0..last
    BY <2>1
  <2>4. Fits(RunLane, last)
    BY <1>2, <2>2, <2>3 DEF Fits
  <2> QED BY <1>1, <1>4, <1>5, <2>4
<1>6. CASE i # 1
  <2>1. PICK k \in 1..n : i = k + 1
    <3>1. i - 1 \in 1..n /\ i = (i - 1) + 1
      BY <1>1, <1>3, <1>4, <1>6
    <3> QED BY <3>1
  <2>2. op[k] \in Openings /\ \E p \in 1..Len(history) : op[k] = history[p]
    BY <1>1, KeptAreOfHistory
  <2>3. PICK p \in 1..Len(history) : op[k] = history[p]
    BY <2>2
  <2>4. history[p].type = "ACTIVITY_SCHEDULED" \/ history[p].type = "SIGNAL_RECEIVED"
    BY <2>2, <2>3 DEF Openings, Opening
  <2>5. Fits(LaneIn(history, last, history[p]), last)
    BY <1>1, <2>4, ActivityFits, SignalFits
  <2>6. L[i] = LaneIn(history, last, history[p])
    BY <1>4, <2>1, <2>3
  <2> QED BY <1>1, <2>5, <2>6
<1> QED BY <1>5, <1>6

\* The chart's scale: from 0 to the run's end, on a width that is the chart's.
LEMMA Scale ==
  ASSUME HistoryInv
  PROVE  \E span \in Nat \ {0} :
           /\ TimelineLast <= span
           /\ \A t \in Nat : X(timelineLanes, t) = LabelWidth + (t * 886) \div span
<1>1. PICK L, m, last : L = timelineLanes /\ m = Len(L) /\ last = TimelineLast
  OBVIOUS
<1>2. /\ last \in Nat /\ L \in Seq(Lanes) /\ L[1] = RunLane /\ m \in Nat /\ m >= 1
      /\ RunLane.start = 0 /\ RunLane.end = last
  <2>1. RunLane.start = 0 /\ RunLane.end = last /\ last \in Nat
    BY <1>1, TimesAreNumbers DEF Lane
  <2>2. PICK n : n = Len(Among(history, Openings))
    OBVIOUS
  <2>3. n \in Nat
    BY <2>2, TimesAreNumbers, AmongTyped, LenProperties
  <2> QED BY <1>1, <2>1, <2>2, <2>3, PassFollows DEF LanesIn
<1>3. \A i \in 1..m : L[i].start \in 0..last /\ L[i].end \in 0..last
  BY <1>1, LanesFit DEF Fits
<1>4. 1 \in 1..m
  BY <1>2
<1>5. Minimum(L) = 0
  <2>1. PICK S : S = {L[i].start : i \in 1..m}
    OBVIOUS
  <2>2. 0 \in S /\ \A x \in S : x \in Nat
    BY <1>2, <1>3, <1>4, <2>1
  <2>3. Min(S) = 0
    BY <2>2 DEF Min
  <2> QED BY <1>1, <2>1, <2>3 DEF Minimum
<1>6. Maximum(L) = last
  <2>1. PICK S : S = {L[i].end : i \in 1..m}
    OBVIOUS
  <2>2. last \in S /\ \A x \in S : x \in 0..last
    BY <1>2, <1>3, <1>4, <2>1
  <2>3. Max(S) = last
    <3>1. \A x \in S : (\A y \in S : x >= y) <=> x = last
      BY <1>2, <2>2
    <3>2. PICK x : x = CHOOSE z \in S : \A y \in S : z >= y
      OBVIOUS
    <3>3. x \in S /\ \A y \in S : x >= y
      BY <2>2, <3>1, <3>2
    <3> QED BY <3>1, <3>2, <3>3 DEF Max
  <2> QED BY <1>1, <2>1, <2>3 DEF Maximum
<1>7. PICK span : span = Max({1, last})
  OBVIOUS
<1>8. span \in Nat \ {0} /\ last <= span
  <2>1. CASE last >= 1
    <3>1. Max({1, last}) = last
      BY <1>2, <2>1 DEF Max
    <3> QED BY <1>2, <1>7, <2>1, <3>1
  <2>2. CASE last < 1
    <3>1. Max({1, last}) = 1
      BY <1>2, <2>2 DEF Max
    <3> QED BY <1>2, <1>7, <2>2, <3>1
  <2> QED BY <1>2, <2>1, <2>2
<1>9. Width - LabelWidth - RightMargin = 886
  BY DEF Width, LabelWidth, RightMargin
<1>10. ASSUME NEW t \in Nat
       PROVE  X(L, t) = LabelWidth + (t * 886) \div span
  <2>1. last - 0 = last /\ t - 0 = t
    BY <1>2
  <2> QED BY <1>5, <1>6, <1>7, <1>9, <2>1 DEF X
<1> QED BY <1>1, <1>8, <1>10

LEMMA ChartFits ==
  ASSUME HistoryInv
  PROVE  ChartStaysInside
<1>1. PICK L, last : L = timelineLanes /\ last = TimelineLast
  OBVIOUS
<1>2. PICK span \in Nat \ {0} :
        /\ last <= span
        /\ \A t \in Nat : X(L, t) = LabelWidth + (t * 886) \div span
  BY <1>1, Scale
<1>3. last \in Nat
  BY <1>1, TimesAreNumbers
<1>4. ASSUME NEW t \in 0..last
      PROVE  X(L, t) \in LabelWidth .. Width - RightMargin
  <2>1. t \in Nat /\ t <= span
    BY <1>2, <1>3
  <2>2. (t * 886) \div span \in 0..886
    BY <2>1, ShareIsBounded
  <2>3. PICK q : q = (t * 886) \div span
    OBVIOUS
  <2>4. X(L, t) = LabelWidth + q /\ q \in 0..886
    BY <1>2, <2>1, <2>2, <2>3
  <2> QED BY <2>4 DEF LabelWidth, Width, RightMargin
<1>5. ASSUME NEW t \in 0..last, NEW u \in 0..last, t <= u
      PROVE  X(L, t) <= X(L, u)
  <2>1. PICK a \in Nat, b \in Nat : a = t * 886 /\ b = u * 886
    BY <1>3
  <2>2. a <= b
    BY <1>3, <1>5, <2>1
  <2>3. a \div span <= b \div span
    BY <2>2, QuotientGrows
  <2>4. PICK q \in Nat, r \in Nat : q = a \div span /\ r = b \div span
    BY QuotientBounds
  <2>5. X(L, t) = LabelWidth + q /\ X(L, u) = LabelWidth + r
    BY <1>2, <1>3, <2>1, <2>4
  <2> QED BY <2>3, <2>4, <2>5 DEF LabelWidth
<1>6. ASSUME NEW i \in 1..Len(L)
      PROVE  /\ X(L, L[i].start) <= X(L, L[i].end)
             /\ \A t \in {L[i].start, L[i].end} \cup {L[i].markers[n].at : n \in 1..Len(L[i].markers)} :
                  X(L, t) \in LabelWidth .. Width - RightMargin
  <2>1. Fits(L[i], last)
    BY <1>1, LanesFit
  <2> QED BY <1>4, <1>5, <2>1 DEF Fits
<1> QED BY <1>1, <1>6 DEF ChartStaysInside

-----------------------------------------------------------------------------
(* What is shown of a history *)

\* Each event of a run's history follows those before it, whatever is appended to it.
THEOREM HistoryInvariant == HistorySpec => []HistoryInv
<1> QED BY HistoryStarts, HistoryKept, PTL DEF HistorySpec

\* The one pass of timelineLanes draws a lane for the run, each activity and each
\* signal, with its own end and its own marks, however the events interleave.
THEOREM LanesCorrect == HistorySpec => []LanesFollowHistory
<1> QED BY HistoryInvariant, LanesAreExpected, PTL

\* The chart of TimelineSvg draws every lane and mark between its label and its
\* right edge, also when all events are of one millisecond.
THEOREM ChartCorrect == HistorySpec => []ChartStaysInside
<1> QED BY HistoryInvariant, ChartFits, PTL

-----------------------------------------------------------------------------
(* All parts together *)

\* The invariants of the parts, which share no state.
ConsoleInv == SessionInv /\ PagesInv /\ HistoryInv /\ LandingInv

THEOREM ConsoleInvariant == Spec => []ConsoleInv
<1>1. Init => ConsoleInv
  BY SessionInitially, PagesInitially, HistoryStarts, LandingInitially
     DEF Init, ConsoleInv
<1>2. ASSUME ConsoleInv, [Next]_vars
      PROVE  ConsoleInv'
  <2>1. /\ [SessionNext]_consoleVars /\ [PagesNext]_pagesVars
        /\ [HistoryNext]_historyVars /\ [LandingNext]_landingVars
    BY <1>2 DEF Next, vars
  <2> QED BY <1>2, <2>1, SessionStep, PagesStep, HistoryKept, LandingStep DEF ConsoleInv
<1> QED BY <1>1, <1>2, PTL DEF Spec

\* What the browser keeps has its type, whichever of the parts runs.
THEOREM ConsoleTypes == Spec => []TypeOK
<1>1. ConsoleInv => TypeOK
  BY DEF ConsoleInv, SessionInv, PagesInv, HistoryInv, LandingInv, TypeOK
<1> QED BY <1>1, ConsoleInvariant, PTL

=============================================================================
