------------------------------ MODULE Dashboard ------------------------------
(***************************************************************************)
(* The pages of src/Frontend in a browser: the load of the data, the       *)
(* refresh every 30 seconds, whose requests may overlap and be answered in *)
(* any order, and the room the user selects on the page of details.        *)
(*                                                                         *)
(* The data is the number of its version.  What a page shows is the        *)
(* version and the room of its cards or its table, and the version of its  *)
(* chart; how it looks is left out.                                        *)
(***************************************************************************)
EXTENDS Naturals, Sequences

CONSTANTS
  Rooms,      \* names of rooms
  Feed,       \* the rooms that have readings, version by version
  Fetches,    \* bound: requests in flight
  None,       \* no request
  MaxFailures \* bound: requests that fail

ASSUME FeedAssumption == Feed \in Seq(SUBSET Rooms) /\ Feed # <<>>
ASSUME RoomsAssumption == {"all", ""} \cap Rooms = {}
ASSUME BoundsAssumption == MaxFailures \in Nat

VARIABLES
  version,  \* of the data the server has
  page,     \* "index" or "details", the document that runs script.js
  url,      \* the room parameter of its address, "all" without one
  library,  \* Chart, which comes from another host, was loaded
  status,   \* "loading", "ready" (dataRefreshInterval is set) or "error"
  data,     \* what the listener of roomSelect closes over; 0 while there is none
  select,   \* elements.roomSelect.value
  shown,    \* what the cards, or the table, show
  chart,    \* what the chart shows
  fetches,  \* requests in flight
  failures  \* requests that may still fail

display == <<data, select, shown, chart>>
document == <<page, url, library>>
vars == <<version, document, status, display, fetches, failures>>

Versions == 1 .. Len(Feed)
Views == Rooms \cup {"all"}

\* alone: no other request was in flight at any time this one was.
Fetch == [got : {0} \cup Versions, alone : BOOLEAN]
Idle == [f \in Fetches |-> None]
InFlight == {f \in Fetches : fetches[f] # None}

\* The options of roomSelect, made of the data of the load and of no other.
Options == {"all"} \cup (IF data = 0 THEN {} ELSE Feed[data])

-----------------------------------------------------------------------------
\* A document is opened by its address, or by a link of the other one, and
\* asks for the data.
Opened(p, room, loaded, f) ==
  [page |-> p, url |-> room, library |-> loaded, status |-> "loading", data |-> 0,
   select |-> "all", shown |-> [version |-> 0, room |-> "all"], chart |-> 0,
   fetches |-> [Idle EXCEPT ![f] = [got |-> 0, alone |-> TRUE]]]

Init ==
  \E p \in {"index", "details"}, room \in Views, loaded \in BOOLEAN, f \in Fetches :
    LET new == Opened(p, room, loaded, f) IN
    /\ page = new.page /\ url = new.url /\ library = new.library
    /\ status = new.status /\ data = new.data /\ select = new.select
    /\ shown = new.shown /\ chart = new.chart /\ fetches = new.fetches
    /\ version = 1 /\ failures = MaxFailures

Open(p, room, loaded, f) ==
  LET new == Opened(p, room, loaded, f) IN
  /\ page' = new.page /\ url' = new.url /\ library' = new.library
  /\ status' = new.status /\ data' = new.data /\ select' = new.select
  /\ shown' = new.shown /\ chart' = new.chart /\ fetches' = new.fetches
  /\ UNCHANGED <<version, failures>>

\* The server gets new data.
Publish ==
  /\ version < Len(Feed)
  /\ version' = version + 1
  /\ UNCHANGED <<document, status, display, fetches, failures>>

\* Mutant of Serve: a cache on the way may answer with what the page loaded.
ServeCached(f) ==
  /\ fetches[f] # None /\ fetches[f].got = 0
  /\ \E v \in {version, data} \ {0} : fetches' = [fetches EXCEPT ![f].got = v]
  /\ UNCHANGED <<version, document, status, display, failures>>

\* The server answers; the answer may arrive after that of a later request.
Serve(f) ==
  /\ fetches[f] # None /\ fetches[f].got = 0
  /\ fetches' = [fetches EXCEPT ![f].got = version]
  /\ UNCHANGED <<version, document, status, display, failures>>

Answered(f) == fetches[f] # None /\ fetches[f].got # 0
Done(f) == fetches' = [fetches EXCEPT ![f] = None]

\* What a page draws: its cards, or the chart and then the table of a room.
updateRoomCards(v) == shown' = [shown EXCEPT !.version = v]
drawOverviewChart(v) == chart' = v
updateDetailsChart(v) == chart' = v
updateDetailsTable(v, room) == shown' = [version |-> v, room |-> room]
updateDetails(v, room) == updateDetailsChart(v) /\ updateDetailsTable(v, room)

\* init on the page of cards.  Without Chart drawOverviewChart raises.
LoadIndex(f) ==
  LET got == fetches[f].got IN
  /\ status = "loading" /\ page = "index" /\ Answered(f) /\ Done(f)
  /\ IF library THEN /\ status' = "ready"
                     /\ updateRoomCards(got) /\ drawOverviewChart(got)
                ELSE status' = "error" /\ UNCHANGED <<shown, chart>>
  /\ UNCHANGED <<version, document, data, select, failures>>

\* init on the page of details: populateRoomSelector.  A select takes no value
\* that is not among its options.
LoadDetails(f) ==
  LET got == fetches[f].got IN
  /\ status = "loading" /\ page = "details" /\ Answered(f) /\ Done(f)
  /\ data' = got
  /\ select' = IF url \in {"all"} \cup Feed[got] THEN url ELSE ""
  /\ IF library THEN /\ status' = "ready"
                     /\ updateDetails(got, url)
                ELSE status' = "error" /\ UNCHANGED <<shown, chart>>
  /\ UNCHANGED <<version, document, failures>>

\* The interval: the next request does not wait for the last.
Timer(f) ==
  /\ status = "ready" /\ f \notin InFlight
  /\ fetches' = [g \in Fetches |->
                   IF g = f THEN [got |-> 0, alone |-> InFlight = {}]
                   ELSE IF fetches[g] = None THEN None
                   ELSE [fetches[g] EXCEPT !.alone = FALSE]]
  /\ UNCHANGED <<version, document, status, display, failures>>

\* The refresh of the page of cards, which ends in the call of updateChart, a
\* function that is nowhere defined: the error is logged, the chart stays.
RefreshIndex(f) ==
  /\ status = "ready" /\ page = "index" /\ Answered(f) /\ Done(f)
  /\ updateRoomCards(fetches[f].got)
  /\ UNCHANGED <<version, document, status, data, select, chart, failures>>

\* Mutant of RefreshDetails: the room of the address, not the one selected.
RefreshDetailsUrl(f) ==
  /\ status = "ready" /\ page = "details" /\ Answered(f) /\ Done(f)
  /\ updateDetails(fetches[f].got, url)
  /\ UNCHANGED <<version, document, status, data, select, failures>>

\* The refresh of the page of details reads the selected room when it is drawn.
RefreshDetails(f) ==
  /\ status = "ready" /\ page = "details" /\ Answered(f) /\ Done(f)
  /\ updateDetails(fetches[f].got, IF select = "" THEN "all" ELSE select)
  /\ UNCHANGED <<version, document, status, data, select, failures>>

\* Mutant of FetchFail: an error stops the refresh, too.
FetchFailStops(f) ==
  /\ f \in InFlight /\ failures > 0 /\ failures' = failures - 1
  /\ Done(f)
  /\ status' = "error"
  /\ UNCHANGED <<version, document, display>>

\* The load that fails is shown and not tried again; a refresh that fails is
\* logged, and the next one is due.
FetchFail(f) ==
  /\ f \in InFlight /\ failures > 0 /\ failures' = failures - 1
  /\ Done(f)
  /\ status' = IF status = "loading" THEN "error" ELSE status
  /\ UNCHANGED <<version, document, display>>

\* The listener of roomSelect, there from the load on, draws the data of the
\* load; without Chart it raises.
Choose(room) ==
  /\ page = "details" /\ data # 0 /\ room \in Options \ {select}
  /\ select' = room
  /\ IF library THEN updateDetails(data, room)
                ELSE UNCHANGED <<shown, chart>>
  /\ UNCHANGED <<version, document, status, data, fetches, failures>>

Next ==
  \/ Publish
  \/ \E p \in {"index", "details"}, room \in Views, loaded \in BOOLEAN, f \in Fetches :
       Open(p, room, loaded, f)
  \/ \E f \in Fetches :
       \/ Serve(f) \/ LoadIndex(f) \/ LoadDetails(f)
       \/ Timer(f) \/ RefreshIndex(f) \/ RefreshDetails(f) \/ FetchFail(f)
  \/ \E room \in Views : Choose(room)

Spec == Init /\ [][Next]_vars

\* The browser keeps its interval, and answers come or fail.
FairSpec ==
  /\ Spec /\ WF_vars(\E f \in Fetches : Timer(f))
  /\ \A f \in Fetches : WF_vars(Serve(f)) /\ WF_vars(RefreshIndex(f) \/ RefreshDetails(f))

-----------------------------------------------------------------------------
(* Properties.                                                             *)

(* Types of every variable.                                                *)
TypeOK ==
  /\ version \in Versions
  /\ page \in {"index", "details"} /\ url \in Views /\ library \in BOOLEAN
  /\ status \in {"loading", "ready", "error"}
  /\ data \in {0} \cup Versions /\ select \in Views \cup {""}
  /\ shown \in [version : {0} \cup Versions, room : Views] /\ chart \in {0} \cup Versions
  /\ fetches \in [Fetches -> Fetch \cup {None}]
  /\ failures \in 0 .. MaxFailures

(* A refresh whose request was in flight with no other takes no page back  *)
(* to older data, whatever the user chose meanwhile: only a choice of      *)
(* room, which draws the data of the load, and answers slower than the     *)
(* interval do.                                                            *)
ForwardInTime ==
  [][\A f \in Fetches :
       fetches[f] # None /\ fetches[f].alone /\ (RefreshIndex(f) \/ RefreshDetails(f))
         => shown'.version >= shown.version]_vars

(* The page of details shows the room its selector tells, whatever was     *)
(* chosen while data was on its way, but for an address of a room without  *)
(* readings: the selector is blank, the page of that room at first and of  *)
(* all rooms after a refresh.                                              *)
RoomAsSelected ==
  status = "ready" /\ page = "details" =>
    \/ shown.room = select
    \/ select = "" /\ shown.room \in {url, "all"} /\ url \notin Options

(* A page that came up goes on to show every version the server has, or a  *)
(* later one, whatever requests fail, unless it is left: the cards of the  *)
(* one page, and the table and the chart of the other.                     *)
Shows(v) == shown.version >= v /\ (page = "details" => chart >= v)

StaysCurrent ==
  \A v \in Versions :
    (status = "ready" /\ version = v) ~> (Shows(v) \/ status = "loading")

=============================================================================
