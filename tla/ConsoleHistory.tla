--------------------------- MODULE ConsoleHistory ---------------------------
(* The timeline of a run (timelineLanes, TimelineSvg in console/src/App.tsx):*)
(* a lane for the run, for each activity and for each signal, made from the  *)
(* run's history in one pass. The history grows here as the workflow engine  *)
(* writes it (crates/server/src/workflow.rs): commands are numbered, an      *)
(* activity is scheduled once, may be retried, and ends once; only signals   *)
(* and the end of a run touch the run's updated_at. Times are whole          *)
(* milliseconds, and one server's clock does not go back.                     *)
EXTENDS Integers, Sequences, SequencesExt, FiniteSetsExt, Lists

CONSTANTS
  Commands, NoCommand,   \* command_id of an event; undefined for a signal
  MaxEvents, MaxTime     \* bounds of the history

ASSUME HistoryAssumption ==
  NoCommand \notin Commands /\ MaxEvents \in Nat \ {0} /\ MaxTime \in Nat

VARIABLES history, updatedAt

historyVars == <<history, updatedAt>>

EventTimes == 0 .. MaxTime
EventTypes == {"WORKFLOW_STARTED", "ACTIVITY_SCHEDULED", "ACTIVITY_RETRY_SCHEDULED",
               "ACTIVITY_COMPLETED", "ACTIVITY_FAILED", "SIGNAL_RECEIVED"}
Event == [type : EventTypes, command : Commands \cup {NoCommand}, at : EventTimes]

Opening == {"ACTIVITY_SCHEDULED", "SIGNAL_RECEIVED"}
Ended == {"ACTIVITY_COMPLETED", "ACTIVITY_FAILED"}
Marking == Ended \cup {"ACTIVITY_RETRY_SCHEDULED"}
MarkerOf == [ACTIVITY_RETRY_SCHEDULED |-> "retry", ACTIVITY_COMPLETED |-> "completed",
             ACTIVITY_FAILED |-> "failed", SIGNAL_RECEIVED |-> "signal"]
Marker(e) == [at |-> e.at, kind |-> MarkerOf[e.type]]

--------------------------------------------------------------------------
(* The history.                                                              *)

Has(types, c) == \E i \in 1 .. Len(history) : history[i].type \in types /\ history[i].command = c

Append1(type, c, t) ==
  /\ Len(history) < MaxEvents
  /\ t >= Last(history).at
  /\ history' = Append(history, [type |-> type, command |-> c, at |-> t])

Schedule(c, t) ==
  /\ ~Has({"ACTIVITY_SCHEDULED"}, c)
  /\ Append1("ACTIVITY_SCHEDULED", c, t)
  /\ UNCHANGED updatedAt

Proceed(type, c, t) ==
  /\ type \in Marking
  /\ Has({"ACTIVITY_SCHEDULED"}, c) /\ ~Has(Ended, c)
  /\ Append1(type, c, t)
  /\ UNCHANGED updatedAt

Signal(t) ==
  /\ Append1("SIGNAL_RECEIVED", NoCommand, t)
  /\ updatedAt' = t

HistoryInit ==
  /\ history = <<[type |-> "WORKFLOW_STARTED", command |-> NoCommand, at |-> 0]>>
  /\ updatedAt = 0

HistoryNext ==
  \E t \in EventTimes :
    \/ Signal(t)
    \/ \E c \in Commands : Schedule(c, t) \/ \E type \in EventTypes : Proceed(type, c, t)

HistorySpec == HistoryInit /\ [][HistoryNext]_historyVars

HistoryTypeOK == history \in Seq(Event) /\ updatedAt \in EventTimes

--------------------------------------------------------------------------
(* timelineLanes.                                                            *)

Lane(kind, c, from, to, markers) ==
  [kind |-> kind, command |-> c, start |-> from, end |-> to, markers |-> markers]

TimelineFirst == history[1].at

TimelineLast == Last(history).at

Opened(lanes, e) ==
  CASE e.type = "ACTIVITY_SCHEDULED" ->
         Append(lanes, Lane("activity", e.command, e.at, TimelineLast, <<>>))
    [] e.type = "SIGNAL_RECEIVED" ->
         Append(lanes, Lane("signal", NoCommand, e.at, e.at, <<Marker(e)>>))
    [] OTHER -> lanes

OwnLanes(lanes, c) ==
  {i \in 1 .. Len(lanes) : lanes[i].kind = "activity" /\ lanes[i].command = c}

(* Mutant: a retry ends the lane of its activity. *)
MarkedEndingAtRetry(lane, e) ==
  [lane EXCEPT !.markers = Append(@, Marker(e)), !.end = e.at]

Marked(lane, e) ==
  [lane EXCEPT !.markers = Append(@, Marker(e)),
               !.end = IF e.type \in Ended THEN e.at ELSE @]

(* One event: it may open a lane, and is marked on the first activity lane   *)
(* of its command.                                                            *)
AddEvent(lanes, e) ==
  LET now == Opened(lanes, e)
      own == OwnLanes(now, e.command)
  IN  IF e.type \in Marking /\ own # {}
      THEN [now EXCEPT ![Min(own)] = Marked(@, e)]
      ELSE now

RunLane == Lane("workflow", NoCommand, TimelineFirst, TimelineLast, <<>>)

timelineLanes == FoldLeft(AddEvent, <<RunLane>>, history)

(* TimelineSvg: where a time is drawn.                                       *)
Width == 1100
LabelWidth == 190
RightMargin == 24

Minimum(lanes) == Min({lanes[i].start : i \in 1 .. Len(lanes)})
Maximum(lanes) == Max({lanes[i].end : i \in 1 .. Len(lanes)})

X(lanes, t) ==
  LET minimum == Minimum(lanes)
      span    == Max({1, Maximum(lanes) - minimum})
  IN  LabelWidth + ((t - minimum) * (Width - LabelWidth - RightMargin)) \div span

--------------------------------------------------------------------------
(* What the lanes should be, without a pass over the history: the run, then  *)
(* a lane for each event that opens one.                                      *)
Of(types, commands) == Among(history, [type : types, command : commands, at : EventTimes])

EventsOf(c) == Of(Marking, {c})
MarkersOf(c) == [i \in 1 .. Len(EventsOf(c)) |-> Marker(EventsOf(c)[i])]
EndOf(c) == IF Has(Ended, c) THEN Last(EventsOf(c)).at ELSE Last(history).at

LaneFor(e) ==
  IF e.type = "SIGNAL_RECEIVED"
  THEN Lane("signal", NoCommand, e.at, e.at, <<Marker(e)>>)
  ELSE Lane("activity", e.command, e.at, EndOf(e.command), MarkersOf(e.command))

ExpectedLanes ==
  LET opening == Of(Opening, Commands \cup {NoCommand})
  IN  <<Lane("workflow", NoCommand, 0, Last(history).at, <<>>)>>
        \o [i \in 1 .. Len(opening) |-> LaneFor(opening[i])]

(* However activities, retries and signals interleave, each lane spans its   *)
(* own activity or signal and carries the marks of no other.                 *)
LanesFollowHistory == timelineLanes = ExpectedLanes

(* The chart draws every lane and every mark between its label and its right *)
(* edge, left end first: also when all events are of one millisecond.         *)
ChartStaysInside ==
  LET lanes == timelineLanes
      Drawn(lane) == {lane.start, lane.end} \cup {lane.markers[n].at : n \in 1 .. Len(lane.markers)}
  IN  \A i \in 1 .. Len(lanes) :
        /\ X(lanes, lanes[i].start) <= X(lanes, lanes[i].end)
        /\ \A t \in Drawn(lanes[i]) : X(lanes, t) \in LabelWidth .. Width - RightMargin
=============================================================================
