----------------------------- MODULE LandingPage -----------------------------
(* The script of the landing page (landing/app.js): the order it gives to    *)
(* the sections, the mobile menu, whose state is spread over four places of  *)
(* the document, and the copy button with its overlapping timers. The links  *)
(* taken from the configuration and the header's shadow are left out.         *)
EXTENDS Integers, Sequences, Lists

CONSTANTS
  Documents,      \* the orders the sections may have in the document
  sectionOrder,   \* the order the script gives them
  MaxCopies       \* bound on copies, and on timers, at once

ASSUME LandingAssumption ==
  /\ MaxCopies \in Nat
  /\ Documents \subseteq Seq(STRING) /\ sectionOrder \in Seq(STRING)
  /\ \A i, k \in 1 .. Len(sectionOrder) : sectionOrder[i] = sectionOrder[k] => i = k

VARIABLES
  document,    \* the order of the sections in the page as served
  main,        \* their order now
  ready,       \* the script has run: its listeners are installed
  expanded, menuLabel, hidden, menuOpen,   \* button, its label, menu, body
  copyLabel,   \* what the copy button says
  copying,     \* clipboard calls in flight
  timers       \* timers that will reset the label

menu == <<expanded, menuLabel, hidden, menuOpen>>
copy == <<copyLabel, copying, timers>>
page == <<document, main, ready>>
landingVars == <<page, menu, copy>>

Named == Elements(sectionOrder)

(* append moves an element that is in the document to the end of main.       *)
MoveToEnd(order, id) ==
  IF id \in Elements(order) THEN Append(Among(order, Elements(order) \ {id}), id) ELSE order

OrderSections(order) ==
  LET moved[n \in 0 .. Len(sectionOrder)] ==
        IF n = 0 THEN order ELSE MoveToEnd(moved[n - 1], sectionOrder[n])
  IN  moved[Len(sectionOrder)]

LandingInit ==
  /\ document \in Documents /\ main = document /\ ready = FALSE
  /\ expanded = FALSE /\ menuLabel = "Open navigation" /\ hidden = TRUE /\ menuOpen = FALSE
  /\ copyLabel = "Copy" /\ copying = 0 /\ timers = 0

RunScript ==
  /\ ~ready
  /\ ready' = TRUE
  /\ main' = OrderSections(main)
  /\ UNCHANGED <<document, menu, copy>>

(* The button reads aria-expanded and sets the four places from it.          *)
ToggleMenu ==
  /\ ready
  /\ expanded' = ~expanded
  /\ menuLabel' = IF expanded THEN "Open navigation" ELSE "Close navigation"
  /\ hidden' = expanded
  /\ menuOpen' = ~expanded
  /\ UNCHANGED <<page, copy>>

CloseMenu ==
  /\ expanded' = FALSE
  /\ menuLabel' = "Open navigation"
  /\ hidden' = TRUE
  /\ menuOpen' = FALSE
  /\ UNCHANGED <<page, copy>>

(* A link of the menu can be followed only while the menu shows.             *)
FollowLink == ready /\ ~hidden /\ CloseMenu

(* Mutant: Escape hides the menu and leaves the page locked behind it. *)
PressEscapeKeepsBody ==
  /\ ready /\ ~hidden
  /\ expanded' = FALSE /\ menuLabel' = "Open navigation" /\ hidden' = TRUE
  /\ UNCHANGED <<page, menuOpen, copy>>

PressEscape == ready /\ ~hidden /\ CloseMenu

(* The copy button: every click starts a clipboard call, and every call that *)
(* returns, whatever it returns, starts a timer of its own.                   *)
ClickCopy ==
  /\ ready /\ copying + timers < MaxCopies
  /\ copying' = copying + 1
  /\ UNCHANGED <<page, menu, copyLabel, timers>>

Copied(label) ==
  /\ copying > 0
  /\ copying' = copying - 1
  /\ copyLabel' = label
  /\ timers' = timers + 1
  /\ UNCHANGED <<page, menu>>

CopySucceeds == Copied("Copied")

CopyFails == Copied("Select")

TimerFires ==
  /\ timers > 0
  /\ timers' = timers - 1
  /\ copyLabel' = "Copy"
  /\ UNCHANGED <<page, menu, copying>>

LandingNext ==
  \/ RunScript \/ ToggleMenu \/ FollowLink \/ PressEscape
  \/ ClickCopy \/ CopySucceeds \/ CopyFails \/ TimerFires

LandingSpec == LandingInit /\ [][LandingNext]_landingVars

--------------------------------------------------------------------------
LandingTypeOK ==
  /\ document \in Documents /\ main \in {document, OrderSections(document)}
  /\ ready \in BOOLEAN /\ expanded \in BOOLEAN /\ hidden \in BOOLEAN /\ menuOpen \in BOOLEAN
  /\ menuLabel \in {"Open navigation", "Close navigation"}
  /\ copyLabel \in {"Copy", "Copied", "Select"}
  /\ copying \in 0 .. MaxCopies /\ timers \in 0 .. MaxCopies

(* Three handlers write the menu's state in four places, and the next click  *)
(* reads one of them: whatever the order of clicks and keys, the four agree. *)
MenuAgrees ==
  /\ menuOpen = expanded
  /\ hidden = ~expanded
  /\ menuLabel = (IF expanded THEN "Close navigation" ELSE "Open navigation")

(* The copy button says Copied or Select only while a timer runs that will   *)
(* take it back, although the timers of several clicks overlap.              *)
CopyLabelReverts == copyLabel # "Copy" => timers > 0

(* Whatever the order of the document, and whichever sections it lacks, the  *)
(* script puts the sections it names in its order behind the others, and     *)
(* loses none.                                                                *)
SectionsOrdered ==
  ready => main = Among(document, Elements(document) \ Named)
                    \o Among(sectionOrder, Elements(document))

(* The script keeps what it spreads over the document together: menu, copy   *)
(* button and sections.                                                      *)
DocumentIsConsistent == MenuAgrees /\ CopyLabelReverts /\ SectionsOrdered
=============================================================================
