--------------------------- MODULE Dashboard_proofs ---------------------------
(***************************************************************************)
(* Proofs about the pages, for any rooms, any sequence of data and any     *)
(* number of requests in flight.                                           *)
(***************************************************************************)
EXTENDS Dashboard, TLAPS

LEMMA Lengths ==
  /\ Len(Feed) \in Nat /\ 1 \in Versions
  /\ \A v \in Versions : v \in Nat /\ v # 0 /\ v <= Len(Feed) /\ Feed[v] \in SUBSET Rooms
  BY FeedAssumption DEF Versions

(* What a page and its requests hold, as numbers.                          *)
LEMMA Held ==
  ASSUME TypeOK
  PROVE  /\ version \in Nat /\ data \in Nat /\ shown.version \in Nat
         /\ shown.version \in {0} \cup Versions /\ shown.room \in Views
         /\ shown = [version |-> shown.version, room |-> shown.room]
<1>1. shown \in [version : {0} \cup Versions, room : Views] BY DEF TypeOK
<1>2. \A v \in {0} \cup Versions : v \in Nat BY Lengths
<1> QED BY <1>1, <1>2 DEF TypeOK

(* Nothing is of a version the server did not have yet. *)
NotAhead ==
  /\ data <= version /\ shown.version <= version
  /\ \A f \in InFlight : fetches[f].got <= version

(* A request alone is the only one, and a load is alone. *)
AloneIsAlone ==
  /\ \A f, g \in InFlight : fetches[f].alone => f = g
  /\ status = "loading" => \A f \in InFlight : fetches[f].alone

(* The answer to a request alone is as recent as what the page shows, or   *)
(* could show by a choice of room.                                         *)
AnswerIsRecent ==
  status = "ready" => \A f \in Fetches :
    Answered(f) /\ fetches[f].alone =>
      shown.version <= fetches[f].got /\ data <= fetches[f].got

(* A page that came up has Chart, and a blank selector its reason. *)
Drawn ==
  /\ status = "ready" => library
  /\ select = "" => url \notin Options

PageInv ==
  TypeOK /\ NotAhead /\ AloneIsAlone /\ AnswerIsRecent /\ Drawn /\ RoomAsSelected

(* A document that was just opened. *)
Fresh(f) ==
  /\ data = 0 /\ status = "loading" /\ select = "all" /\ shown = [version |-> 0, room |-> "all"]
  /\ chart = 0 /\ page \in {"index", "details"} /\ url \in Views /\ library \in BOOLEAN
  /\ fetches = [Idle EXCEPT ![f] = [got |-> 0, alone |-> TRUE]]

LEMMA FreshIsOK ==
  (\E f \in Fetches : Fresh(f)) /\ version \in Versions /\ failures \in 0 .. MaxFailures
    => PageInv
<1> SUFFICES ASSUME NEW f \in Fetches, Fresh(f), version \in Versions,
                    failures \in 0 .. MaxFailures
             PROVE  PageInv
  OBVIOUS
<1>1. fetches = [g \in Fetches |-> IF g = f THEN [got |-> 0, alone |-> TRUE] ELSE None]
  BY DEF Fresh, Idle
<1>2. TypeOK
  <2>1. fetches \in [Fetches -> Fetch \cup {None}] BY <1>1 DEF Fetch
  <2>2. "all" \in Views BY DEF Views
  <2> QED BY <2>1, <2>2 DEF Fresh, TypeOK
<1>3. NotAhead BY <1>1, Lengths DEF Fresh, NotAhead, InFlight
<1>4. AloneIsAlone BY <1>1 DEF AloneIsAlone, InFlight
<1>5. AnswerIsRecent /\ Drawn /\ RoomAsSelected
  BY DEF Fresh, AnswerIsRecent, Drawn, RoomAsSelected
<1> QED BY <1>2, <1>3, <1>4, <1>5 DEF PageInv

LEMMA FreshNext ==
  ((\E f \in Fetches : Fresh(f)) /\ version \in Versions /\ failures \in 0 .. MaxFailures
    => PageInv)'
  BY FreshIsOK, PTL

LEMMA PageInit == Init => PageInv
<1> SUFFICES ASSUME Init PROVE PageInv OBVIOUS
<1>1. PICK p \in {"index", "details"}, room \in Views, loaded \in BOOLEAN, f \in Fetches :
        LET new == Opened(p, room, loaded, f) IN
        /\ page = new.page /\ url = new.url /\ library = new.library
        /\ status = new.status /\ data = new.data /\ select = new.select
        /\ shown = new.shown /\ chart = new.chart /\ fetches = new.fetches
        /\ version = 1 /\ failures = MaxFailures
  BY DEF Init
<1>2. Fresh(f) BY <1>1 DEF Opened, Fresh
<1> QED BY <1>1, <1>2, Lengths, BoundsAssumption, FreshIsOK

(* Records of the requests in flight.                                      *)
LEMMA FetchTyped ==
  ASSUME TypeOK, NEW f \in Fetches, fetches[f] # None
  PROVE  fetches[f].got \in Nat /\ fetches[f].got \in {0} \cup Versions
         /\ fetches[f].alone \in BOOLEAN
<1>1. fetches[f] \in Fetch BY DEF TypeOK
<1> QED BY <1>1, Lengths DEF Fetch

LEMMA DoneFacts ==
  ASSUME TypeOK, NEW f \in Fetches, Done(f)
  PROVE  /\ fetches' \in [Fetches -> Fetch \cup {None}]
         /\ fetches'[f] = None /\ \A g \in Fetches \ {f} : fetches'[g] = fetches[g]
  BY DEF TypeOK, Done

(* The server's side of a request, and the interval.                       *)
LEMMA RequestStep ==
  ASSUME PageInv, NEW f \in Fetches, Serve(f) \/ Timer(f) \/ FetchFail(f)
  PROVE  PageInv'
<1> USE DEF PageInv, document, display
<1>0. /\ version \in Nat /\ data \in Nat /\ shown.version \in Nat
  BY Held
<1>1. CASE Serve(f)
  <2>1. fetches[f] \in Fetch BY <1>1 DEF Serve, TypeOK
  <2>2. fetches' = [fetches EXCEPT ![f] = [fetches[f] EXCEPT !.got = version]]
    BY <1>1 DEF Serve
  <2>3. /\ fetches'[f] \in Fetch /\ fetches'[f].got = version
        /\ fetches'[f].alone = fetches[f].alone
    BY <2>1, <2>2 DEF TypeOK, Fetch
  <2>4. /\ fetches' \in [Fetches -> Fetch \cup {None}]
        /\ \A g \in Fetches \ {f} : fetches'[g] = fetches[g]
    BY <2>2, <2>3 DEF TypeOK
  <2>5. TypeOK' BY <1>1, <2>4 DEF Serve, TypeOK
  <2>6. /\ version' = version /\ shown' = shown /\ data' = data /\ status' = status
        /\ url' = url /\ page' = page /\ select' = select /\ library' = library
    BY <1>1 DEF Serve
  <2>7. \A g \in Fetches : fetches'[g] # None =>
          fetches[g] # None /\ fetches'[g].alone = fetches[g].alone
    BY <1>1, <2>3, <2>4 DEF Serve
  <2>8. NotAhead' BY <1>0, <2>3, <2>4, <2>6 DEF NotAhead, InFlight
  <2>9. AloneIsAlone' BY <2>6, <2>7 DEF AloneIsAlone, InFlight
  <2>10. AnswerIsRecent' BY <2>3, <2>4, <2>6 DEF AnswerIsRecent, NotAhead, Answered
  <2>11. Drawn' /\ RoomAsSelected' BY <2>6 DEF Drawn, RoomAsSelected, Options
  <2> QED BY <2>5, <2>8, <2>9, <2>10, <2>11
<1>2. CASE Timer(f)
  <2>1. \A g \in Fetches \ {f} : fetches[g] # None =>
          /\ [fetches[g] EXCEPT !.alone = FALSE] \in Fetch
          /\ [fetches[g] EXCEPT !.alone = FALSE].got = fetches[g].got
          /\ [fetches[g] EXCEPT !.alone = FALSE].alone = FALSE
    BY DEF TypeOK, Fetch
  <2>2. /\ fetches'[f] = [got |-> 0, alone |-> InFlight = {}]
        /\ \A g \in Fetches \ {f} :
             fetches'[g] = IF fetches[g] = None THEN None ELSE [fetches[g] EXCEPT !.alone = FALSE]
        /\ fetches' = [g \in Fetches |-> fetches'[g]]
    BY <1>2 DEF Timer
  <2>n. [got |-> 0, alone |-> InFlight = {}] \in Fetch
    <3>1. (InFlight = {}) \in BOOLEAN OBVIOUS
    <3> HIDE DEF InFlight
    <3> QED BY <3>1 DEF Fetch
  <2>3. fetches' \in [Fetches -> Fetch \cup {None}] BY <2>1, <2>2, <2>n
  <2>4. TypeOK' BY <1>2, <2>3 DEF Timer, TypeOK
  <2>5. /\ version' = version /\ shown' = shown /\ data' = data /\ status' = status
        /\ url' = url /\ page' = page /\ select' = select /\ library' = library
        /\ status = "ready"
    BY <1>2 DEF Timer
  <2>6. fetches'[f].got = 0 /\ (fetches'[f].alone => InFlight = {})
    <3>1. fetches'[f].got = 0 BY <2>2
    <3>2. CASE InFlight = {} BY <3>1, <3>2
    <3>3. CASE ~(InFlight = {})
      <4>1. fetches'[f] = [got |-> 0, alone |-> FALSE] BY <2>2, <3>3
      <4> QED BY <3>1, <4>1
    <3> QED BY <3>2, <3>3
  <2>7. \A g \in Fetches \ {f} : fetches'[g] # None =>
          fetches[g] # None /\ fetches'[g].got = fetches[g].got /\ ~fetches'[g].alone
    BY <2>1, <2>2
  <2>8. NotAhead' BY <1>0, <2>5, <2>6, <2>7 DEF NotAhead, InFlight
  <2>9. AloneIsAlone' BY <2>5, <2>6, <2>7 DEF AloneIsAlone, InFlight
  <2>10. AnswerIsRecent' BY <2>6, <2>7 DEF AnswerIsRecent, Answered
  <2>11. Drawn' /\ RoomAsSelected' BY <2>5 DEF Drawn, RoomAsSelected, Options
  <2> QED BY <2>4, <2>8, <2>9, <2>10, <2>11
<1>3. CASE FetchFail(f)
  <2>1. /\ fetches' \in [Fetches -> Fetch \cup {None}]
        /\ fetches'[f] = None /\ \A g \in Fetches \ {f} : fetches'[g] = fetches[g]
    BY <1>3, DoneFacts DEF FetchFail
  <2>2. failures' \in 0 .. MaxFailures
    <3>1. failures \in 0 .. MaxFailures /\ failures > 0 /\ failures' = failures - 1
      BY <1>3 DEF FetchFail, TypeOK
    <3> QED BY <3>1, BoundsAssumption
  <2>3. status' \in {"error", status} /\ status' # "loading"
    BY <1>3 DEF FetchFail, TypeOK
  <2>4. /\ version' = version /\ shown' = shown /\ data' = data
        /\ url' = url /\ page' = page /\ select' = select /\ library' = library
        /\ chart' = chart
    BY <1>3 DEF FetchFail
  <2>5. TypeOK' BY <2>1, <2>2, <2>3, <2>4 DEF TypeOK
  <2>6. NotAhead' BY <2>1, <2>4 DEF NotAhead, InFlight
  <2>7. AloneIsAlone' BY <2>1, <2>3 DEF AloneIsAlone, InFlight
  <2>8. AnswerIsRecent' BY <2>1, <2>3, <2>4 DEF AnswerIsRecent, Answered
  <2>9. Drawn' /\ RoomAsSelected' BY <2>3, <2>4 DEF Drawn, RoomAsSelected, Options
  <2> QED BY <2>5, <2>6, <2>7, <2>8, <2>9
<1> QED BY <1>1, <1>2, <1>3

(* Answers: of the load, whose request was the only one, and of a refresh. *)
LEMMA AnswerStep ==
  ASSUME PageInv, NEW f \in Fetches,
         LoadIndex(f) \/ LoadDetails(f) \/ RefreshIndex(f) \/ RefreshDetails(f)
  PROVE  PageInv'
<1> USE DEF PageInv, document, updateRoomCards, drawOverviewChart, updateDetails,
            updateDetailsChart, updateDetailsTable
<1> DEFINE got == fetches[f].got
<1>0. got \in Versions /\ got \in Nat /\ got <= version /\ f \in InFlight
  BY FetchTyped
  DEF LoadIndex, LoadDetails, RefreshIndex, RefreshDetails, Answered, NotAhead, InFlight
<1>1. /\ fetches' \in [Fetches -> Fetch \cup {None}]
      /\ fetches'[f] = None /\ \A g \in Fetches \ {f} : fetches'[g] = fetches[g]
  BY DoneFacts DEF LoadIndex, LoadDetails, RefreshIndex, RefreshDetails
<1>2. /\ version' = version /\ url' = url /\ page' = page /\ library' = library
      /\ failures' = failures
  BY DEF LoadIndex, LoadDetails, RefreshIndex, RefreshDetails
<1>3. status' \in {"ready", "error"} /\ (status' = "ready" => library)
  BY DEF LoadIndex, LoadDetails, RefreshIndex, RefreshDetails, Drawn
<1>4. /\ data' \in {got, data} /\ chart' \in {got, chart} /\ shown'.version \in {got, shown.version}
      /\ shown' \in [version : {0} \cup Versions, room : Views]
      /\ select' \in Views \cup {""}
  <2>1. shown \in [version : {0} \cup Versions, room : Views] BY DEF TypeOK
  <2>2. [shown EXCEPT !.version = got] \in [version : {0} \cup Versions, room : Views]
        /\ [shown EXCEPT !.version = got].version = got
    BY <1>0, <2>1
  <2>3. CASE LoadIndex(f) \/ RefreshIndex(f)
    BY <2>1, <2>2, <2>3 DEF LoadIndex, RefreshIndex, TypeOK
  <2>4. CASE LoadDetails(f)
    <3>1. url \in Views /\ chart' \in {got, chart} /\ data' = got /\ select' \in {url, ""}
      BY <2>4 DEF LoadDetails, TypeOK
    <3>2. shown' = shown \/ shown' = [version |-> got, room |-> url] BY <2>4 DEF LoadDetails
    <3>3. [version |-> got, room |-> url] \in [version : {0} \cup Versions, room : Views]
      BY <1>0, <3>1
    <3> HIDE DEF got
    <3>4. shown' \in [version : {0} \cup Versions, room : Views]
          /\ shown'.version \in {got, shown.version}
      BY <2>1, <3>2, <3>3
    <3> QED BY <3>1, <3>4
  <2>5. CASE RefreshDetails(f)
    BY <1>0, <2>1, <2>5 DEF RefreshDetails, TypeOK, Views
  <2> QED BY <2>3, <2>4, <2>5
<1>5. TypeOK' BY <1>0, <1>1, <1>2, <1>3, <1>4 DEF TypeOK
<1>6. NotAhead' BY <1>0, <1>1, <1>2, <1>4 DEF NotAhead, InFlight
<1>7. AloneIsAlone' BY <1>1, <1>3 DEF AloneIsAlone, InFlight
<1>8. \A g \in Fetches \ {f} : fetches[g] # None => ~fetches[g].alone /\ status # "loading"
  BY <1>0 DEF AloneIsAlone, InFlight
<1>9. AnswerIsRecent' BY <1>1, <1>8 DEF AnswerIsRecent, Answered
<1>10. Drawn' /\ RoomAsSelected'
  <2>1. CASE LoadIndex(f) \/ RefreshIndex(f)
    BY <1>3, <2>1 DEF LoadIndex, RefreshIndex, Drawn, RoomAsSelected, Options
  <2>2. CASE LoadDetails(f)
    <3>1. data' = got /\ Options' = {"all"} \cup Feed[got]
      BY <1>0, <2>2, Lengths DEF LoadDetails, Options
    <3> HIDE DEF got
    <3>2. select' = IF url \in {"all"} \cup Feed[got] THEN url ELSE ""
      BY <2>2 DEF LoadDetails, got
    <3>3. "" \notin Views BY RoomsAssumption DEF Views
    <3>4. select' = "" => url \notin Options' BY <3>1, <3>2, <3>3 DEF TypeOK
    <3>5. status' = "ready" => shown'.room = url
      <4>1. status' = "ready" => library BY <1>3
      <4>2. library => shown' = [version |-> fetches[f].got, room |-> url]
        BY <2>2 DEF LoadDetails
      <4> QED BY <4>1, <4>2
    <3> QED BY <1>2, <1>3, <3>1, <3>2, <3>4, <3>5 DEF Drawn, RoomAsSelected
  <2>3. CASE RefreshDetails(f)
    <3>1. data' = data /\ select' = select /\ Options' = Options
      BY <2>3 DEF RefreshDetails, Options
    <3>2. shown'.room = IF select = "" THEN "all" ELSE select BY <2>3 DEF RefreshDetails
    <3> QED BY <1>2, <1>3, <3>1, <3>2 DEF Drawn, RoomAsSelected
  <2> QED BY <2>1, <2>2, <2>3
<1> QED BY <1>5, <1>6, <1>7, <1>9, <1>10

(* What the user does, and the server's data.                              *)
LEMMA UserStep ==
  ASSUME PageInv,
         \/ Publish \/ UNCHANGED vars
         \/ \E p \in {"index", "details"}, room \in Views, loaded \in BOOLEAN, f \in Fetches :
              Open(p, room, loaded, f)
         \/ \E room \in Views : Choose(room)
  PROVE  PageInv'
<1> USE DEF PageInv, document, display, updateDetails, updateDetailsChart, updateDetailsTable
<1>0. /\ version \in Nat /\ data \in Nat /\ shown.version \in Nat
      /\ \A f \in InFlight : fetches[f].got \in Nat
  BY Held, FetchTyped DEF InFlight
<1>1. CASE Publish
  <2>1. version' \in Versions /\ version <= version'
    <3>1. version \in 1 .. Len(Feed) /\ version < Len(Feed) /\ version' = version + 1
      BY <1>1 DEF Publish, TypeOK, Versions
    <3> QED BY <3>1, Lengths DEF Versions
  <2>2. /\ shown' = shown /\ data' = data /\ status' = status /\ fetches' = fetches
        /\ url' = url /\ page' = page /\ select' = select /\ library' = library
        /\ chart' = chart /\ failures' = failures
    BY <1>1 DEF Publish
  <2>3. TypeOK' BY <2>1, <2>2 DEF TypeOK
  <2>4. version' \in Nat BY <2>1, Lengths
  <2>5. NotAhead' BY <1>0, <2>1, <2>2, <2>4 DEF NotAhead, InFlight
  <2>6. AloneIsAlone' /\ AnswerIsRecent' /\ Drawn' /\ RoomAsSelected'
    BY <2>2 DEF AloneIsAlone, AnswerIsRecent, Drawn, RoomAsSelected, InFlight, Answered, Options
  <2> QED BY <2>3, <2>5, <2>6
<1>2. CASE UNCHANGED vars
  BY <1>2 DEF vars, TypeOK, NotAhead, AloneIsAlone, AnswerIsRecent, Drawn, RoomAsSelected,
     InFlight, Answered, Options
<1>3. ASSUME NEW p \in {"index", "details"}, NEW room \in Views, NEW loaded \in BOOLEAN,
             NEW f \in Fetches, Open(p, room, loaded, f)
      PROVE  PageInv'
  <2>1. Fresh(f)' BY <1>3 DEF Open, Opened, Fresh, Idle
  <2>2. version' \in Versions /\ failures' \in 0 .. MaxFailures BY <1>3 DEF Open, TypeOK
  <2> QED BY <2>1, <2>2, FreshNext
<1>4. ASSUME NEW room \in Views, Choose(room) PROVE PageInv'
  <2>1. /\ version' = version /\ data' = data /\ status' = status /\ fetches' = fetches
        /\ url' = url /\ page' = page /\ library' = library /\ failures' = failures
        /\ select' = room /\ data \in Versions
    BY <1>4 DEF Choose, TypeOK
  <2>2. \/ shown' = [version |-> data, room |-> room] /\ chart' = data
        \/ ~library /\ shown' = shown /\ chart' = chart
    BY <1>4 DEF Choose
  <2>3. TypeOK'
    <3>1. shown' \in [version : {0} \cup Versions, room : Views]
          /\ chart' \in {0} \cup Versions
      <4>1. [version |-> data, room |-> room] \in [version : {0} \cup Versions, room : Views]
        BY <2>1
      <4> QED BY <2>1, <2>2, <4>1 DEF TypeOK
    <3> QED BY <2>1, <3>1 DEF TypeOK
  <2>4. NotAhead' BY <2>1, <2>2 DEF NotAhead, InFlight
  <2>5. AloneIsAlone' BY <2>1 DEF AloneIsAlone, InFlight
  <2>6. AnswerIsRecent' BY <2>1, <2>2 DEF AnswerIsRecent, Answered
  <2>7. room # "" BY RoomsAssumption DEF Views
  <2>8. Drawn' BY <2>1, <2>7 DEF Drawn
  <2>9. RoomAsSelected'
    <3>1. status = "ready" => library BY DEF Drawn
    <3>2. library => shown'.room = select' BY <2>1, <2>2
    <3> QED BY <2>1, <3>1, <3>2 DEF RoomAsSelected
  <2> QED BY <2>3, <2>4, <2>5, <2>6, <2>8, <2>9
<1> QED BY <1>1, <1>2, <1>3, <1>4

LEMMA PageStep == ASSUME PageInv, [Next]_vars PROVE PageInv'
  BY RequestStep, AnswerStep, UserStep DEF Next

LEMMA PageInvariant == Spec => []PageInv
  BY PageInit, PageStep, PTL DEF Spec

(* Pages hold what they should through any loads, refreshes and choices.   *)
THEOREM TypeCorrect == Spec => []TypeOK
<1>1. PageInv => TypeOK BY DEF PageInv
<1> QED BY <1>1, PageInvariant, PTL

(* The page of details shows the room its selector tells.                  *)
THEOREM SelectedRoomShown == Spec => []RoomAsSelected
<1>1. PageInv => RoomAsSelected BY DEF PageInv
<1> QED BY <1>1, PageInvariant, PTL

(* Only overlapping requests and choices of room take a page back.         *)
THEOREM GoesForward == Spec => ForwardInTime
<1>1. ASSUME PageInv, NEW f \in Fetches, fetches[f] # None, fetches[f].alone,
             RefreshIndex(f) \/ RefreshDetails(f)
      PROVE  shown'.version >= shown.version
  <2>1. shown.version <= fetches[f].got
    BY <1>1 DEF PageInv, AnswerIsRecent, RefreshIndex, RefreshDetails
  <2>2. shown'.version = fetches[f].got
    <3>1. shown = [version |-> shown.version, room |-> shown.room]
      BY <1>1, Held DEF PageInv
    <3>2. CASE RefreshIndex(f)
      <4>1. shown' = [shown EXCEPT !.version = fetches[f].got]
        BY <3>2 DEF RefreshIndex, updateRoomCards
      <4>2. [shown EXCEPT !.version = fetches[f].got].version = fetches[f].got BY <3>1
      <4> QED BY <4>1, <4>2
    <3>3. CASE RefreshDetails(f) BY <3>3 DEF RefreshDetails, updateDetails, updateDetailsTable
    <3> QED BY <1>1, <3>2, <3>3
  <2>3. shown.version \in Nat /\ fetches[f].got \in Nat
    BY <1>1, FetchTyped, Held DEF PageInv
  <2> QED BY <2>1, <2>2, <2>3
<1>2. PageInv /\ [Next]_vars =>
        [\A f \in Fetches :
           fetches[f] # None /\ fetches[f].alone /\ (RefreshIndex(f) \/ RefreshDetails(f))
             => shown'.version >= shown.version]_vars
  BY <1>1
<1> QED BY <1>2, PageInvariant, PTL DEF Spec, ForwardInTime

=============================================================================
