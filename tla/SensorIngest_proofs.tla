------------------------- MODULE SensorIngest_proofs -------------------------
(***************************************************************************)
(* Proofs of the safety properties of SensorIngest, and that it implements *)
(* ReadingPipeline, for any devices and requests and any bounds.           *)
(***************************************************************************)
EXTENDS SensorIngest, TLAPS

(* While the listener handles a message, it is one of a known device and of *)
(* the kind the handler is for.                                            *)
HandlingOK ==
  lpc \notin {"down", "idle"} =>
    /\ current \in [sensor : Sensors, msg : Messages]
    /\ current.msg.kind # "malformed"
    /\ lpc \in {"load", "commit", "announce"} => current.msg.kind = "status"
    /\ lpc \in {"create", "created", "insert", "notify", "alert", "count"}
         => current.msg.kind = "data"

TypeInv == TypeOK /\ HandlingOK

(* What a message is, field by field. *)
LEMMA MessageKinds ==
  \A m \in Messages :
    /\ m.kind \in {"status", "data", "malformed"}
    /\ m.kind = "status" => m.value \in Statuses
    /\ m.kind = "data" => m.value \in Readings
  BY SMT DEF Messages, Status, Reading, Malformed

LEMMA StatusIsMessage == \A v \in Statuses : Status(v) \in Messages
  BY DEF Messages

LEMMA ReadingIsMessage ==
  \A n \in Readings : Reading(n) \in Messages /\ Malformed(n) \in Messages
  BY DEF Messages

LEMMA TargetIsFlag == \A v : Target(v) \in {"active", "inactive"}
  BY DEF Target

(* A write of a flag keeps the table a table. *)
LEMMA WriteFlagType ==
  ASSUME sensors \in [Sensors -> Rows], NEW s \in Sensors, NEW read,
         NEW flag \in {"active", "inactive"}
  PROVE  WriteFlag(s, read, flag) \in [Sensors -> Rows]
  BY DEF WriteFlag, Rows

(* Delivery appends at most one message to one queue. *)
LEMMA DeliverType ==
  ASSUME inbox \in [Sensors -> Seq(Messages)], NEW s \in Sensors,
         NEW m \in Messages, Deliver(s, m)
  PROVE  inbox' \in [Sensors -> Seq(Messages)]
  BY DEF Deliver

(* Spending from a budget that is not used up keeps it one. *)
LEMMA BudgetType ==
  ASSUME NEW b \in [drops : Nat, restarts : Nat, failures : Nat]
  PROVE  LET Budgets == [drops : Nat, restarts : Nat, failures : Nat] IN
         /\ b.drops > 0 => [b EXCEPT !.drops = @ - 1] \in Budgets
         /\ b.restarts > 0 => [b EXCEPT !.restarts = @ - 1] \in Budgets
         /\ b.failures > 0 => [b EXCEPT !.failures = @ - 1] \in Budgets
  OBVIOUS

LEMMA InitTypeInv == Init => TypeInv
<1> SUFFICES ASSUME Init PROVE TypeInv OBVIOUS
<1>1. /\ deviceUp \in [Sensors -> BOOLEAN]
      /\ published \in [Sensors -> 0 .. MaxReadings]
      /\ sessions \in [Sensors -> 0 .. MaxSessions]
      /\ retained \in [Sensors -> Statuses \cup {"none"}]
  BY ParametersAssumption DEF Init
<1>2. inbox \in [Sensors -> Seq(Messages)]
  BY DEF Init
<1>3. /\ lpc \in ListenerSteps /\ HandlingOK
      /\ current \in {NoMessage} \cup [sensor : Sensors, msg : Messages]
      /\ seen \in Rows /\ sensors \in [Sensors -> Rows]
  BY DEF Init, ListenerSteps, HandlingOK, Rows
<1>4. requests \in [Requests -> RequestStates]
  BY DEF Init, RequestStates
<1>5. budget \in [drops : Nat, restarts : Nat, failures : Nat]
  BY ParametersAssumption DEF Init
<1> QED BY <1>1, <1>2, <1>3, <1>4, <1>5 DEF Init, TypeInv, TypeOK

(* The devices and the broker. *)
LEMMA DeviceTypeInv ==
  ASSUME TypeInv, NEW s \in Sensors,
         DeviceConnect(s) \/ DeviceLost(s) \/ DeviceFlap(s) \/ DevicePublish(s) \/ Overtake(s)
  PROVE  TypeInv'
<1> USE DEF TypeInv, HandlingOK, device, listener, tables, mqttState, history
<1>1. CASE DeviceConnect(s)
  <2>1. inbox' \in [Sensors -> Seq(Messages)]
    BY <1>1, DeliverType, StatusIsMessage DEF DeviceConnect, Seen!Announce, TypeOK, Statuses
  <2>2. sessions' \in [Sensors -> 0 .. MaxSessions]
    BY <1>1, ParametersAssumption DEF DeviceConnect, Seen!Announce, TypeOK
  <2> QED BY <1>1, <2>1, <2>2 DEF DeviceConnect, Seen!Announce, TypeOK, Statuses
<1>2. CASE DeviceLost(s)
  <2>1. inbox' \in [Sensors -> Seq(Messages)]
    BY <1>2, DeliverType, StatusIsMessage DEF DeviceLost, Seen!LastWill, TypeOK, Statuses
  <2> QED BY <1>2, <2>1 DEF DeviceLost, Seen!LastWill, TypeOK, Statuses
<1>5. CASE DeviceFlap(s)
  <2>1. inbox' \in [Sensors -> Seq(Messages)]
    BY <1>5, DeliverType, StatusIsMessage DEF DeviceFlap, Seen!LastWill, TypeOK, Statuses
  <2>2. sessions' \in [Sensors -> 0 .. MaxSessions]
    BY <1>5, ParametersAssumption DEF DeviceFlap, Seen!LastWill, TypeOK
  <2> QED BY <1>5, <2>1, <2>2 DEF DeviceFlap, Seen!LastWill, TypeOK, Statuses
<1>3. CASE DevicePublish(s)
  <2>1. published[s] + 1 \in Readings
    BY <1>3, ParametersAssumption DEF DevicePublish, Seen!Publish, TypeOK, Readings
  <2>2. inbox' \in [Sensors -> Seq(Messages)]
    BY <1>3, <2>1, DeliverType, ReadingIsMessage DEF DevicePublish, Seen!Publish, TypeOK
  <2>3. published' \in [Sensors -> 0 .. MaxReadings]
    BY <1>3, <2>1, ParametersAssumption DEF DevicePublish, Seen!Publish, TypeOK, Readings
  <2> QED BY <1>3, <2>2, <2>3 DEF DevicePublish, Seen!Publish, TypeOK
<1>4. CASE Overtake(s)
  <2>1. PICK i \in 1 .. Len(inbox[s]) - 1 : inbox' = [inbox EXCEPT ![s] = Swapped(@, i)]
    BY <1>4 DEF Overtake
  <2>2. inbox' \in [Sensors -> Seq(Messages)]
    <3>1. inbox[s] \in Seq(Messages) BY DEF TypeOK
    <3>2. i \in 1 .. Len(inbox[s]) /\ i + 1 \in 1 .. Len(inbox[s]) BY <3>1
    <3>3. inbox[s][i] \in Messages /\ inbox[s][i + 1] \in Messages BY <3>1, <3>2
    <3>4. Swapped(inbox[s], i) \in Seq(Messages) BY <3>1, <3>2, <3>3 DEF Swapped
    <3> QED BY <2>1, <3>4 DEF TypeOK
  <2> QED BY <1>4, <2>2 DEF Overtake, TypeOK
<1> QED BY <1>1, <1>2, <1>3, <1>4, <1>5

(* listen_to_mqtt: (re)connection, and taking a message. *)
LEMMA ConnectionTypeInv ==
  ASSUME TypeInv, Subscribe \/ LinkError \/ (\E s \in Sensors : Receive(s))
  PROVE  TypeInv'
<1> USE DEF TypeInv, HandlingOK, device, listener, tables, mqttState, history
<1>1. CASE Subscribe
  <2>1. inbox' \in [Sensors -> Seq(Messages)]
    <3>1. ASSUME NEW s \in Sensors, retained[s] # "none"
          PROVE  <<Status(retained[s])>> \in Seq(Messages)
      BY <3>1, StatusIsMessage DEF TypeOK
    <3> QED BY <1>1, <3>1 DEF Subscribe
  <2>2. excused' \in SUBSET Sensors BY <1>1 DEF Subscribe, TypeOK
  <2> QED BY <1>1, <2>1, <2>2 DEF Subscribe, TypeOK, ListenerSteps
<1>2. CASE LinkError
  <2>1. inbox' \in [Sensors -> Seq(Messages)] BY <1>2 DEF LinkError
  <2> QED BY <1>2, <2>1 DEF LinkError, TypeOK, ListenerSteps
<1>3. ASSUME NEW s \in Sensors, Receive(s) PROVE TypeInv'
  <2>1. Head(inbox[s]) \in Messages /\ Tail(inbox[s]) \in Seq(Messages)
    BY <1>3 DEF Receive, TypeOK
  <2>2. inbox' \in [Sensors -> Seq(Messages)]
    BY <1>3, <2>1 DEF Receive, TypeOK
  <2>3. CASE Head(inbox[s]).kind = "malformed"
    BY <1>3, <2>2, <2>3 DEF Receive, TypeOK
  <2>4. CASE Head(inbox[s]).kind # "malformed"
    <3>1. /\ lpc' = "lookup" /\ seen' = seen
          /\ current' = [sensor |-> s, msg |-> Head(inbox[s])]
      BY <1>3, <2>4 DEF Receive
    <3>2. HandlingOK' BY <2>1, <2>4, <3>1
    <3>3. current' \in {NoMessage} \cup [sensor : Sensors, msg : Messages]
      BY <2>1, <3>1
    <3> QED BY <1>3, <2>2, <3>1, <3>2, <3>3 DEF Receive, TypeOK, ListenerSteps
  <2> QED BY <2>3, <2>4
<1> QED BY <1>1, <1>2, <1>3

(* What the locals of the handler are after a step to a later call. *)
LEMMA GotoType ==
  ASSUME TypeInv, lpc \notin {"down", "idle"}, NEW step \in ListenerSteps \ {"down"},
         ListenerGoto(step),
         step \in {"load", "commit", "announce"} => current.msg.kind = "status",
         step \in {"create", "created", "insert", "notify", "alert", "count"}
           => current.msg.kind = "data"
  PROVE  /\ lpc' \in ListenerSteps /\ seen' \in Rows /\ HandlingOK'
         /\ current' \in {NoMessage} \cup [sensor : Sensors, msg : Messages]
  BY DEF TypeInv, TypeOK, HandlingOK, ListenerGoto, ListenerSteps, Rows

(* The reading being handled is one of a known device. *)
LEMMA HandledType ==
  ASSUME TypeInv, lpc \in {"insert", "notify", "alert", "count"}
  PROVE  Handled \in Sensors \X Readings
  BY MessageKinds DEF TypeInv, HandlingOK, Handled

(* process_status_message. *)
LEMMA StatusTypeInv ==
  ASSUME TypeInv, StatusLookup \/ StatusLoad \/ StatusCommit \/ StatusAnnounce
  PROVE  TypeInv'
<1> USE DEF device, listener, tables, mqttState, history
<1> DEFINE GotoOK == /\ lpc' \in ListenerSteps /\ seen' \in Rows /\ HandlingOK'
                     /\ current' \in {NoMessage} \cup [sensor : Sensors, msg : Messages]
<1>0. lpc \in {"lookup", "load", "commit", "announce"} => current.sensor \in Sensors
  BY DEF TypeInv, HandlingOK
<1>1. CASE StatusLookup
  <2>1. GotoOK BY <1>1, GotoType DEF StatusLookup, ListenerSteps
  <2> QED BY <1>1, <2>1 DEF StatusLookup, TypeInv, TypeOK
<1>2. CASE StatusLoad
  <2>1. current.msg.kind = "status" BY <1>2 DEF StatusLoad, TypeInv, HandlingOK
  <2>2. GotoOK
    <3>1. CASE sensors[current.sensor] = "absent"
      BY <1>2, <2>1, <3>1, GotoType DEF StatusLoad, ListenerSteps
    <3>2. CASE sensors[current.sensor] # "absent"
      BY <1>0, <1>2, <2>1, <3>2 DEF StatusLoad, ListenerSteps, TypeInv, TypeOK, HandlingOK
    <3> QED BY <3>1, <3>2
  <2> QED BY <1>0, <1>2, <2>2 DEF StatusLoad, TypeInv, TypeOK
<1>3. CASE StatusCommit
  <2>1. GotoOK BY <1>3, GotoType DEF StatusCommit, ListenerSteps, TypeInv, HandlingOK
  <2>2. sensors' \in [Sensors -> Rows]
    BY <1>0, <1>3, WriteFlagType, TargetIsFlag DEF StatusCommit, TypeInv, TypeOK
  <2> QED BY <1>3, <2>1, <2>2 DEF StatusCommit, TypeInv, TypeOK
<1>4. CASE StatusAnnounce
  <2>1. GotoOK BY <1>4, GotoType DEF StatusAnnounce, ListenerSteps
  <2>2. announced' \in [Sensors -> {"none", "active", "inactive"}]
    BY <1>0, <1>4, TargetIsFlag DEF StatusAnnounce, TypeInv, TypeOK
  <2> QED BY <1>4, <2>1, <2>2 DEF StatusAnnounce, TypeInv, TypeOK
<1> QED BY <1>1, <1>2, <1>3, <1>4

(* process_sensor_data. *)
LEMMA DataTypeInv ==
  ASSUME TypeInv,
         \/ DataLookup \/ CreatePlaceholder \/ CreatedDispatch \/ InsertReading
         \/ DispatchReceived \/ DispatchAlert \/ CountReading
  PROVE  TypeInv'
<1> USE DEF device, listener, tables, mqttState, history
<1> DEFINE GotoOK == /\ lpc' \in ListenerSteps /\ seen' \in Rows /\ HandlingOK'
                     /\ current' \in {NoMessage} \cup [sensor : Sensors, msg : Messages]
<1>1. CASE DataLookup
  <2>1. GotoOK BY <1>1, GotoType DEF DataLookup, ListenerSteps
  <2> QED BY <1>1, <2>1 DEF DataLookup, TypeInv, TypeOK
<1>2. CASE CreatePlaceholder
  <2>1. current.sensor \in Sensors /\ current.msg.kind = "data"
    BY <1>2 DEF CreatePlaceholder, TypeInv, HandlingOK
  <2>2. GotoOK BY <1>2, <2>1, GotoType DEF CreatePlaceholder, ListenerSteps
  <2>3. /\ sensors' \in [Sensors -> Rows]
        /\ announced' \in [Sensors -> {"none", "active", "inactive"}]
    BY <1>2, <2>1 DEF CreatePlaceholder, TypeInv, TypeOK, Rows
  <2> QED BY <1>2, <2>1, <2>2, <2>3 DEF CreatePlaceholder, TypeInv, TypeOK
<1>3. CASE CreatedDispatch
  <2>1. GotoOK BY <1>3, GotoType DEF CreatedDispatch, ListenerSteps, TypeInv, HandlingOK
  <2> QED BY <1>3, <2>1 DEF CreatedDispatch, TypeInv, TypeOK
<1>4. CASE InsertReading
  <2>1. GotoOK BY <1>4, GotoType DEF InsertReading, ListenerSteps, TypeInv, HandlingOK
  <2>2. Handled \in Sensors \X Readings BY <1>4, HandledType DEF InsertReading
  <2> QED BY <1>4, <2>1, <2>2 DEF InsertReading, TypeInv, TypeOK
<1>5. CASE DispatchReceived
  <2>1. GotoOK BY <1>5, GotoType DEF DispatchReceived, ListenerSteps, TypeInv, HandlingOK
  <2>2. Handled \in Sensors \X Readings BY <1>5, HandledType DEF DispatchReceived
  <2> QED BY <1>5, <2>1, <2>2 DEF DispatchReceived, TypeInv, TypeOK
<1>6. CASE DispatchAlert
  <2>1. GotoOK BY <1>6, GotoType DEF DispatchAlert, ListenerSteps, TypeInv, HandlingOK
  <2>2. Handled \in Sensors \X Readings BY <1>6, HandledType DEF DispatchAlert
  <2> QED BY <1>6, <2>1, <2>2 DEF DispatchAlert, TypeInv, TypeOK
<1>7. CASE CountReading
  <2>1. GotoOK BY <1>7, GotoType DEF CountReading, ListenerSteps
  <2>2. Handled \in Sensors \X Readings BY <1>7, HandledType DEF CountReading
  <2> QED BY <1>7, <2>1, <2>2 DEF CountReading, TypeInv, TypeOK
<1> QED BY <1>1, <1>2, <1>3, <1>4, <1>5, <1>6, <1>7

LEMMA ListenerTypeInv == TypeInv /\ Listener => TypeInv'
  BY ConnectionTypeInv, StatusTypeInv, DataTypeInv DEF Listener

LEMMA ListenerFailTypeInv ==
  ASSUME TypeInv, ListenerFail
  PROVE  TypeInv'
<1> USE DEF device, listener, tables, mqttState, history
<1>1. current.sensor \in Sensors BY DEF TypeInv, HandlingOK, ListenerFail
<1>2. /\ lpc' \in ListenerSteps /\ seen' \in Rows /\ HandlingOK'
      /\ current' \in {NoMessage} \cup [sensor : Sensors, msg : Messages]
  BY GotoType DEF ListenerFail, ListenerSteps
<1>3. budget' \in [drops : Nat, restarts : Nat, failures : Nat]
  BY BudgetType DEF ListenerFail, TypeInv, TypeOK
<1>4. excused' \in SUBSET Sensors /\ raced' \in SUBSET Sensors
  BY <1>1 DEF ListenerFail, TypeInv, TypeOK
<1> QED BY <1>2, <1>3, <1>4 DEF ListenerFail, TypeInv, TypeOK

(* The fields of a request in progress, by the call it is at. *)
LEMMA RequestFields ==
  \A q \in RequestStates :
    /\ q # NoRequest => q.sensor \in Sensors
    /\ q.pc \in {"none", "loaded", "updated", "deleting", "removed"}
    /\ q.pc \in {"loaded", "updated"} =>
         q \in [pc : {"loaded", "updated"}, sensor : Sensors, kind : UpdateKinds,
                row : {"active", "inactive"}]
    /\ q.pc \in {"deleting", "removed"} =>
         q \in [pc : {"deleting", "removed"}, sensor : Sensors]
    /\ q.pc # "none" => q # NoRequest
  BY SMT DEF RequestStates, NoRequest

LEMMA WantedIsFlag ==
  ASSUME NEW q \in RequestStates, q.pc \in {"loaded", "updated"}
  PROVE  Wanted(q) \in {"active", "inactive"}
  BY RequestFields, ParametersAssumption DEF Wanted

LEMMA SetRequestType ==
  ASSUME TypeInv, NEW r \in Requests, NEW q \in RequestStates, SetRequest(r, q)
  PROVE  requests' \in [Requests -> RequestStates]
  BY DEF TypeInv, TypeOK, SetRequest

(* update_sensor. *)
LEMMA UpdateTypeInv ==
  ASSUME TypeInv, NEW r \in Requests,
         \/ \E s \in Sensors, kind \in UpdateKinds : UpdateLoad(r, s, kind)
         \/ UpdateCommit(r) \/ UpdateAnnounce(r)
  PROVE  TypeInv'
<1> USE DEF device, listener, tables, mqttState, history
<1>0. requests[r] \in RequestStates BY DEF TypeInv, TypeOK
<1>1. ASSUME NEW s \in Sensors, NEW kind \in UpdateKinds, UpdateLoad(r, s, kind)
      PROVE  TypeInv'
  <2>1. sensors[s] \in {"active", "inactive"}
    BY <1>1 DEF UpdateLoad, TypeInv, TypeOK, Rows
  <2>2. [pc |-> "loaded", sensor |-> s, kind |-> kind, row |-> sensors[s]] \in RequestStates
    BY <2>1 DEF RequestStates
  <2>3. requests' \in [Requests -> RequestStates]
    BY <1>1, <2>2, SetRequestType DEF UpdateLoad
  <2>4. raced' \in SUBSET Sensors BY <1>1 DEF UpdateLoad, TypeInv, TypeOK
  <2> QED BY <1>1, <2>3, <2>4 DEF UpdateLoad, TypeInv, TypeOK, HandlingOK
<1>2. CASE UpdateCommit(r)
  <2> DEFINE q == requests[r]
  <2>1. q.pc = "loaded" /\ q.sensor \in Sensors
    BY <1>0, <1>2, RequestFields DEF UpdateCommit
  <2>2. sensors' \in [Sensors -> Rows]
    BY <1>0, <1>2, <2>1, WantedIsFlag, WriteFlagType DEF UpdateCommit, TypeInv, TypeOK
  <2>3. NoRequest \in RequestStates /\ [q EXCEPT !.pc = "updated"] \in RequestStates
    BY <1>0, <2>1, RequestFields DEF RequestStates
  <2>4. requests' \in [Requests -> RequestStates]
    BY <1>2, <2>3, SetRequestType DEF UpdateCommit
  <2>5. excused' \in SUBSET Sensors BY <1>2, <2>1 DEF UpdateCommit, TypeInv, TypeOK
  <2> QED BY <1>2, <2>2, <2>4, <2>5 DEF UpdateCommit, TypeInv, TypeOK, HandlingOK
<1>3. CASE UpdateAnnounce(r)
  <2>1. requests[r].sensor \in Sensors /\ Wanted(requests[r]) \in {"active", "inactive"}
    BY <1>0, <1>3, RequestFields, WantedIsFlag DEF UpdateAnnounce
  <2>2. announced' \in [Sensors -> {"none", "active", "inactive"}]
    BY <1>3, <2>1 DEF UpdateAnnounce, TypeInv, TypeOK
  <2>3. requests' \in [Requests -> RequestStates]
    BY <1>3, SetRequestType DEF UpdateAnnounce, RequestStates
  <2> QED BY <1>3, <2>2, <2>3 DEF UpdateAnnounce, TypeInv, TypeOK, HandlingOK
<1> QED BY <1>1, <1>2, <1>3

(* delete_sensor, and a request that fails. *)
LEMMA DeleteTypeInv ==
  ASSUME TypeInv, NEW r \in Requests,
         \/ \E s \in Sensors : DeleteLoad(r, s)
         \/ DeleteCommit(r) \/ DeleteAnnounce(r) \/ RequestFail(r)
  PROVE  TypeInv'
<1> USE DEF device, listener, tables, mqttState, history
<1>0. requests[r] \in RequestStates /\ NoRequest \in RequestStates
  BY DEF TypeInv, TypeOK, RequestStates
<1>1. ASSUME NEW s \in Sensors, DeleteLoad(r, s) PROVE TypeInv'
  <2>1. requests' \in [Requests -> RequestStates]
    BY <1>1, SetRequestType DEF DeleteLoad, RequestStates
  <2> QED BY <1>1, <2>1 DEF DeleteLoad, TypeInv, TypeOK, HandlingOK
<1>2. CASE DeleteCommit(r)
  <2>1. /\ requests[r].sensor \in Sensors
        /\ requests[r] \in [pc : {"deleting", "removed"}, sensor : Sensors]
    BY <1>0, <1>2, RequestFields DEF DeleteCommit
  <2>2. [requests[r] EXCEPT !.pc = "removed"] \in RequestStates
    BY <2>1 DEF RequestStates
  <2>3. requests' \in [Requests -> RequestStates]
    BY <1>2, <2>2, SetRequestType DEF DeleteCommit
  <2>4. sensors' \in [Sensors -> Rows] /\ deleted' \in SUBSET Sensors
    BY <1>2, <2>1 DEF DeleteCommit, TypeInv, TypeOK, Rows
  <2> QED BY <1>2, <2>3, <2>4 DEF DeleteCommit, TypeInv, TypeOK, HandlingOK
<1>3. CASE DeleteAnnounce(r)
  <2>1. requests' \in [Requests -> RequestStates]
    BY <1>0, <1>3, SetRequestType DEF DeleteAnnounce
  <2> QED BY <1>3, <2>1 DEF DeleteAnnounce, TypeInv, TypeOK, HandlingOK
<1>4. CASE RequestFail(r)
  <2>1. requests' \in [Requests -> RequestStates]
    BY <1>0, <1>4, SetRequestType DEF RequestFail
  <2>2. raced' \in SUBSET Sensors
    BY <1>0, <1>4, RequestFields DEF RequestFail, TypeInv, TypeOK
  <2>3. budget' \in [drops : Nat, restarts : Nat, failures : Nat]
    BY <1>4, BudgetType DEF RequestFail, TypeInv, TypeOK
  <2> QED BY <1>4, <2>1, <2>2, <2>3 DEF RequestFail, TypeInv, TypeOK, HandlingOK
<1> QED BY <1>1, <1>2, <1>3, <1>4

LEMMA RestartTypeInv ==
  ASSUME TypeInv, Restart
  PROVE  TypeInv'
<1> USE DEF device, listener, tables, mqttState, history
<1>1. requests' \in [Requests -> RequestStates] BY DEF Restart, RequestStates
<1>2. inbox' \in [Sensors -> Seq(Messages)] BY DEF Restart
<1>3. budget' \in [drops : Nat, restarts : Nat, failures : Nat]
  BY BudgetType DEF Restart, TypeInv, TypeOK
<1>4. raced' \in SUBSET Sensors BY DEF Restart, TypeInv, TypeOK
<1>5. lpc' = "down" /\ current' = NoMessage /\ seen' = "absent" BY DEF Restart
<1>6. HandlingOK' BY <1>5 DEF HandlingOK
<1> QED BY <1>1, <1>2, <1>3, <1>4, <1>5, <1>6
        DEF Restart, TypeInv, TypeOK, ListenerSteps, Rows

LEMMA NextTypeInv == TypeInv /\ [Next]_vars => TypeInv'
<1> SUFFICES ASSUME TypeInv, [Next]_vars PROVE TypeInv'
  OBVIOUS
<1>1. CASE UNCHANGED vars
  BY <1>1 DEF vars, device, listener, tables, mqttState, history, TypeInv, TypeOK, HandlingOK
<1>2. ASSUME NEW r \in Requests, Rest(r) \/ RequestFail(r) PROVE TypeInv'
  BY <1>2, UpdateTypeInv, DeleteTypeInv DEF Rest
<1>3. CASE LinkDrop
  <2>1. budget' \in [drops : Nat, restarts : Nat, failures : Nat]
    BY <1>3, BudgetType DEF LinkDrop, TypeInv, TypeOK
  <2> QED BY <1>3, <2>1 DEF LinkDrop, TypeInv, TypeOK, HandlingOK, device, listener,
                            tables, mqttState, history
<1> QED BY <1>1, <1>2, <1>3, DeviceTypeInv, ListenerTypeInv, ListenerFailTypeInv,
           RestartTypeInv DEF Next

(* Every reachable state of the ingestion path has the types of TypeOK, for *)
(* any devices, requests and bounds.                                       *)
THEOREM TypeCorrect == Spec => []TypeOK
<1>1. Init => TypeInv BY InitTypeInv
<1>2. TypeInv /\ [Next]_vars => TypeInv' BY NextTypeInv
<1>3. TypeInv => TypeOK BY DEF TypeInv
<1> QED BY <1>1, <1>2, <1>3, PTL DEF Spec

-----------------------------------------------------------------------------
(* PipelineOrder is inductive once the position of the handler says what it *)
(* has done already for the reading in its hands.                          *)

PipelineInv ==
  /\ PipelineOrder
  /\ lpc \in {"notify", "alert", "count"} => Handled \in stored
  /\ lpc \in {"alert", "count"} => Handled \in notified
  /\ lpc = "count" => Handled \in alerted

(* A step of the pipeline: each set grows only by the reading in hand.      *)
LEMMA PipelineSteps ==
  ASSUME PipelineInv,
         DataLookup \/ CreatedDispatch \/ InsertReading \/ DispatchReceived
           \/ DispatchAlert \/ CountReading
  PROVE  PipelineInv'
<1> USE DEF PipelineInv, PipelineOrder, ListenerGoto, tables, mqttState
<1>1. CASE DataLookup BY <1>1 DEF DataLookup
<1>2. CASE CreatedDispatch BY <1>2 DEF CreatedDispatch
<1>3. CASE InsertReading BY <1>3 DEF InsertReading, Handled
<1>4. CASE DispatchReceived BY <1>4 DEF DispatchReceived, Handled
<1>5. CASE DispatchAlert BY <1>5 DEF DispatchAlert, Handled
<1>6. CASE CountReading BY <1>6 DEF CountReading
<1> QED BY <1>1, <1>2, <1>3, <1>4, <1>5, <1>6

(* A step that changes none of the sets and leaves the handler, or brings   *)
(* it to a call before the pipeline's, or does not touch it.               *)
LEMMA PipelineUntouched ==
  ASSUME PipelineInv, UNCHANGED <<stored, notified, alerted>>,
         counted' \in {counted, {}},
         lpc' \notin {"notify", "alert", "count"} \/ UNCHANGED listener
  PROVE  PipelineInv'
  BY DEF PipelineInv, PipelineOrder, Handled, listener

LEMMA NextPipelineInv == PipelineInv /\ [Next]_vars => PipelineInv'
<1> SUFFICES ASSUME PipelineInv, [Next]_vars PROVE PipelineInv'
  OBVIOUS
<1> USE DEF tables, mqttState
<1>1. CASE UNCHANGED vars BY <1>1, PipelineUntouched DEF vars
<1>2. ASSUME NEW s \in Sensors,
             DeviceConnect(s) \/ DeviceLost(s) \/ DeviceFlap(s) \/ DevicePublish(s) \/ Overtake(s)
      PROVE  PipelineInv'
  BY <1>2, PipelineUntouched DEF DeviceConnect, DeviceLost, DeviceFlap, DevicePublish,
     Seen!Announce, Seen!LastWill, Seen!Publish, Overtake
<1>3. CASE LinkDrop BY <1>3, PipelineUntouched DEF LinkDrop
<1>4. CASE Listener
  <2>1. CASE Subscribe \/ LinkError
    BY <2>1, PipelineUntouched DEF Subscribe, LinkError
  <2>2. ASSUME NEW s \in Sensors, Receive(s) PROVE PipelineInv'
    BY <2>2, PipelineUntouched DEF Receive
  <2>3. CASE StatusLookup \/ StatusLoad \/ StatusCommit \/ StatusAnnounce
    BY <2>3, PipelineUntouched
    DEF StatusLookup, StatusLoad, StatusCommit, StatusAnnounce, ListenerGoto
  <2>4. CASE CreatePlaceholder
    BY <2>4, PipelineUntouched DEF CreatePlaceholder, ListenerGoto
  <2> QED BY <1>4, <2>1, <2>2, <2>3, <2>4, PipelineSteps DEF Listener
<1>5. CASE ListenerFail
  BY <1>5, PipelineUntouched DEF ListenerFail, ListenerGoto
<1>6. ASSUME NEW r \in Requests, Rest(r) \/ RequestFail(r) PROVE PipelineInv'
  BY <1>6, PipelineUntouched DEF Rest, UpdateLoad, UpdateCommit, UpdateAnnounce,
     DeleteLoad, DeleteCommit, DeleteAnnounce, RequestFail
<1>7. CASE Restart BY <1>7, PipelineUntouched DEF Restart
<1> QED BY <1>1, <1>2, <1>3, <1>4, <1>5, <1>6, <1>7 DEF Next

(* process_sensor_data: no alert before the data event, no data event       *)
(* before the commit, no count before both, whatever fails in between.     *)
THEOREM PipelineOrdered == Spec => []PipelineOrder
<1>1. Init => PipelineInv BY DEF Init, PipelineInv, PipelineOrder
<1>2. PipelineInv => PipelineOrder BY DEF PipelineInv
<1> QED BY <1>1, <1>2, NextPipelineInv, PTL DEF Spec

-----------------------------------------------------------------------------
(* A reading never loses its sensor but to a delete: when the listener is   *)
(* about to insert, ensure_sensor_exists has found or created the row.     *)

OrphanInv ==
  /\ OrphansOnlyAfterDelete
  /\ lpc \in {"created", "insert"} =>
       sensors[current.sensor] # "absent" \/ current.sensor \in deleted

(* No write of a flag removes a row or brings one back. *)
LEMMA WriteFlagRows ==
  ASSUME sensors \in [Sensors -> Rows], NEW s \in Sensors, NEW read,
         NEW flag \in {"active", "inactive"}
  PROVE  \A x \in Sensors :
           WriteFlag(s, read, flag)[x] = "absent" <=> sensors[x] = "absent"
  BY DEF WriteFlag, Rows

(* Every step keeps, creates or deletes rows; only deletes remove one, and  *)
(* only the listener's placeholder makes one.                              *)
LEMMA RowSteps ==
  ASSUME TypeInv, [Next]_vars, NEW s \in Sensors
  PROVE  /\ sensors[s] = "absent" /\ sensors'[s] # "absent"
              => lpc = "create" /\ current.sensor = s
         /\ sensors[s] # "absent" /\ sensors'[s] = "absent" => s \in deleted'
<1> USE DEF tables, history
<1>1. CASE UNCHANGED sensors
  BY <1>1
<1>2. CASE StatusCommit
  <2>1. current.sensor \in Sensors BY <1>2 DEF StatusCommit, TypeInv, HandlingOK
  <2>2. sensors' = WriteFlag(current.sensor, seen, Target(current.msg.value))
    BY <1>2 DEF StatusCommit
  <2>3. sensors \in [Sensors -> Rows] /\ Target(current.msg.value) \in {"active", "inactive"}
    BY TargetIsFlag DEF TypeInv, TypeOK
  <2> QED BY <2>1, <2>2, <2>3, WriteFlagRows
<1>3. CASE CreatePlaceholder
  BY <1>3 DEF CreatePlaceholder, TypeInv, TypeOK
<1>4. ASSUME NEW r \in Requests, UpdateCommit(r)
      PROVE  sensors[s] = "absent" <=> sensors'[s] = "absent"
  <2>1. requests[r] \in RequestStates BY DEF TypeInv, TypeOK
  <2>2. requests[r].sensor \in Sensors /\ Wanted(requests[r]) \in {"active", "inactive"}
    BY <1>4, <2>1, RequestFields, WantedIsFlag DEF UpdateCommit
  <2> QED BY <1>4, <2>2, WriteFlagRows DEF UpdateCommit, TypeInv, TypeOK
<1>5. ASSUME NEW r \in Requests, DeleteCommit(r)
      PROVE  sensors'[s] = sensors[s] \/ (sensors'[s] = "absent" /\ s \in deleted')
  BY <1>5 DEF DeleteCommit, TypeInv, TypeOK
<1>6. \/ UNCHANGED sensors \/ StatusCommit \/ CreatePlaceholder
      \/ \E r \in Requests : UpdateCommit(r) \/ DeleteCommit(r)
  <2>1. CASE UNCHANGED vars BY <2>1 DEF vars
  <2>2. ASSUME NEW x \in Sensors,
               DeviceConnect(x) \/ DeviceLost(x) \/ DeviceFlap(x) \/ DevicePublish(x) \/ Overtake(x)
        PROVE  UNCHANGED sensors
    BY <2>2 DEF DeviceConnect, DeviceLost, DeviceFlap, DevicePublish,
       Seen!Announce, Seen!LastWill, Seen!Publish, Overtake
  <2>3. CASE LinkDrop \/ ListenerFail \/ Restart
    BY <2>3 DEF LinkDrop, ListenerFail, Restart
  <2>4. CASE Listener
    BY <2>4 DEF Listener, Subscribe, LinkError, Receive, StatusLookup, StatusLoad,
       StatusAnnounce, DataLookup, CreatedDispatch, InsertReading, DispatchReceived,
       DispatchAlert, CountReading
  <2>5. ASSUME NEW r \in Requests, Rest(r) \/ RequestFail(r)
        PROVE  UNCHANGED sensors \/ UpdateCommit(r) \/ DeleteCommit(r)
    BY <2>5 DEF Rest, UpdateLoad, UpdateAnnounce, DeleteLoad, DeleteAnnounce, RequestFail
  <2> QED BY <2>1, <2>2, <2>3, <2>4, <2>5 DEF Next
<1> QED BY <1>1, <1>2, <1>3, <1>4, <1>5, <1>6

LEMMA DeletedGrows == [Next]_vars => deleted \subseteq deleted'
  BY
     DEF Next, vars, history, DeviceConnect, DeviceLost, DeviceFlap, DevicePublish,
         Seen!Announce, Seen!LastWill, Seen!Publish, Overtake,
         LinkDrop,
     Listener, Subscribe, LinkError, Receive, StatusLookup, StatusLoad, StatusCommit,
     StatusAnnounce, DataLookup, CreatePlaceholder, CreatedDispatch, InsertReading,
     DispatchReceived, DispatchAlert, CountReading, ListenerFail, Rest, UpdateLoad,
     UpdateCommit, UpdateAnnounce, DeleteLoad, DeleteCommit, DeleteAnnounce, RequestFail,
     Restart

(* Only InsertReading adds a reading, and only three steps bring the        *)
(* listener to a call at which the row must exist.                         *)
LEMMA InsertSteps ==
  ASSUME [Next]_vars
  PROVE  /\ UNCHANGED stored \/ InsertReading
         /\ \/ lpc' \notin {"created", "insert"}
            \/ UNCHANGED listener
            \/ DataLookup /\ sensors[current.sensor] # "absent" /\ UNCHANGED current
            \/ CreatePlaceholder /\ sensors[current.sensor] = "absent" /\ UNCHANGED current
            \/ CreatedDispatch /\ UNCHANGED current
<1> USE DEF tables
<1>1. CASE UNCHANGED vars BY <1>1 DEF vars
<1>2. ASSUME NEW x \in Sensors,
             DeviceConnect(x) \/ DeviceLost(x) \/ DeviceFlap(x) \/ DevicePublish(x) \/ Overtake(x)
      PROVE  UNCHANGED <<stored, listener>>
  BY <1>2 DEF DeviceConnect, DeviceLost, DeviceFlap, DevicePublish,
     Seen!Announce, Seen!LastWill, Seen!Publish, Overtake
<1>3. CASE LinkDrop \/ ListenerFail \/ Restart
  BY <1>3 DEF LinkDrop, ListenerFail, Restart, ListenerGoto
<1>4. CASE Listener
  <2>1. CASE Subscribe \/ LinkError \/ \E s \in Sensors : Receive(s)
    BY <2>1 DEF Subscribe, LinkError, Receive
  <2>2. CASE StatusLookup \/ StatusLoad \/ StatusCommit \/ StatusAnnounce
    BY <2>2 DEF StatusLookup, StatusLoad, StatusCommit, StatusAnnounce, ListenerGoto
  <2>3. CASE DataLookup \/ CreatePlaceholder \/ CreatedDispatch
    BY <2>3 DEF DataLookup, CreatePlaceholder, CreatedDispatch, ListenerGoto
  <2>4. CASE InsertReading \/ DispatchReceived \/ DispatchAlert \/ CountReading
    BY <2>4 DEF InsertReading, DispatchReceived, DispatchAlert, CountReading, ListenerGoto
  <2> QED BY <1>4, <2>1, <2>2, <2>3, <2>4 DEF Listener
<1>5. ASSUME NEW r \in Requests, Rest(r) \/ RequestFail(r)
      PROVE  UNCHANGED <<stored, listener>>
  BY <1>5 DEF Rest, UpdateLoad, UpdateCommit, UpdateAnnounce, DeleteLoad, DeleteCommit,
     DeleteAnnounce, RequestFail
<1> QED BY <1>1, <1>2, <1>3, <1>4, <1>5 DEF Next

LEMMA NextOrphanInv == TypeInv /\ OrphanInv /\ [Next]_vars => OrphanInv'
<1> SUFFICES ASSUME TypeInv, OrphanInv, [Next]_vars PROVE OrphanInv'
  OBVIOUS
<1> DEFINE Housed(s) == sensors[s] # "absent" \/ s \in deleted
<1>1. \A s \in Sensors : Housed(s) => Housed(s)'
  BY RowSteps, DeletedGrows
<1>2. lpc \in {"lookup", "create", "created", "insert"} => current.sensor \in Sensors
  BY DEF TypeInv, HandlingOK
<1>3. \A sr \in stored' : Housed(sr[1])'
  <2>1. \A sr \in stored : sr[1] \in Sensors /\ Housed(sr[1])
    BY DEF TypeInv, TypeOK, OrphanInv, OrphansOnlyAfterDelete
  <2>2. CASE UNCHANGED stored BY <1>1, <2>1, <2>2
  <2>3. CASE InsertReading
    <3>1. current.sensor \in Sensors /\ Housed(current.sensor)
      BY <1>2, <2>3 DEF InsertReading, OrphanInv
    <3>2. \A sr \in stored' : sr \in stored \/ sr[1] = current.sensor
      BY <2>3 DEF InsertReading, Handled
    <3> QED BY <1>1, <2>1, <3>1, <3>2
  <2> QED BY <2>2, <2>3, InsertSteps
<1>4. lpc' \in {"created", "insert"} => Housed(current.sensor)'
  <2>1. CASE UNCHANGED listener BY <1>1, <1>2, <2>1 DEF OrphanInv, listener
  <2>2. CASE DataLookup /\ sensors[current.sensor] # "absent" /\ UNCHANGED current
    BY <1>1, <1>2, <2>2 DEF DataLookup
  <2>3. CASE CreatePlaceholder /\ sensors[current.sensor] = "absent" /\ UNCHANGED current
    BY <1>2, <2>3 DEF CreatePlaceholder, TypeInv, TypeOK
  <2>4. CASE CreatedDispatch /\ UNCHANGED current
    BY <1>1, <1>2, <2>4 DEF CreatedDispatch, OrphanInv
  <2> QED BY <2>1, <2>2, <2>3, <2>4, InsertSteps
<1> QED BY <1>3, <1>4 DEF OrphanInv, OrphansOnlyAfterDelete

(* sensor_data.device_id is no foreign key; the listener's placeholder is   *)
(* enough to keep every reading's sensor until a REST request deletes it.  *)
THEOREM OrphansOnlyByDelete == Spec => []OrphansOnlyAfterDelete
<1>1. Init => TypeInv /\ OrphanInv
  BY InitTypeInv DEF Init, OrphanInv, OrphansOnlyAfterDelete
<1>2. TypeInv /\ OrphanInv /\ [Next]_vars => (TypeInv /\ OrphanInv)'
  BY NextTypeInv, NextOrphanInv
<1>3. OrphanInv => OrphansOnlyAfterDelete BY DEF OrphanInv
<1> QED BY <1>1, <1>2, <1>3, PTL DEF Spec

-----------------------------------------------------------------------------
(* Action properties.                                                      *)

(* modify_sensor's UPDATE names only the attributes that changed, so an     *)
(* edit of other fields leaves is_active to whoever wrote it last.         *)
THEOREM MetadataEditSafe == Spec => MetadataEditKeepsStatus
<1>1. [Next]_vars =>
        [\A r \in Requests :
           UpdateCommit(r) /\ requests[r].kind = "meta" => sensors' = sensors]_vars
  BY DEF UpdateCommit, WriteFlag, Wanted
<1> QED BY <1>1, PTL DEF Spec, MetadataEditKeepsStatus

(* An UPDATE of a deleted row never inserts it: rows come back only with    *)
(* the listener's placeholder for a new reading.                           *)
THEOREM RowsOnlyForReadings == Spec => NoResurrection
<1>1. TypeInv /\ [Next]_vars =>
        [\A s \in Sensors :
           sensors[s] = "absent" /\ sensors'[s] # "absent"
             => lpc = "create" /\ current.sensor = s]_vars
  BY RowSteps
<1>2. Spec => []TypeInv
  BY InitTypeInv, NextTypeInv, PTL DEF Spec
<1> QED BY <1>1, <1>2, PTL DEF Spec, NoResurrection

-----------------------------------------------------------------------------
(* StatusInSync.  The flag of a sensor is right when nothing is pending     *)
(* because of what is queued and in hand before: no message for a sensor   *)
(* contradicts the broker's retained status unless a later one follows it. *)

HasStatus(q) == \E i \in 1 .. Len(q) : q[i].kind = "status"

(* The i-th message of q is not the last word on the status. *)
Superseded(q, i) == \E j \in 1 .. Len(q) : j > i /\ q[j].kind = "status"

Handling(s) == lpc \notin {"down", "idle"} /\ current.sensor = s

(* m agrees with the retained status v: a reading was sent while online. *)
Agrees(m, v) ==
  /\ m.kind = "status" => m.value = v
  /\ m.kind = "data" => v = "online"

QueueInv(s) ==
  \A i \in 1 .. Len(inbox[s]) : Superseded(inbox[s], i) \/ Agrees(inbox[s][i], retained[s])

HandInv(s) ==
  Handling(s) => HasStatus(inbox[s]) \/ Agrees(current.msg, retained[s])

FlagInv(s) ==
  /\ \/ HasStatus(inbox[s])
     \/ Handling(s) /\ current.msg.kind = "status"
     \/ sensors[s] \in {"absent", Target(retained[s])}
  /\ Handling(s) /\ lpc = "commit" => sensors[s] \in {"absent", seen}
  /\ Handling(s) /\ lpc = "announce" => sensors[s] \in {"absent", Target(current.msg.value)}

SyncFor(s) == linkUp /\ s \notin excused => QueueInv(s) /\ HandInv(s) /\ FlagInv(s)

(* A device the broker retains nothing of has never said anything. *)
SilentFor(s) ==
  /\ deviceUp[s] => retained[s] = "online"
  /\ retained[s] = "none" => sensors[s] = "absent" /\ inbox[s] = <<>> /\ ~Handling(s)

SyncInv == \A s \in Sensors : SilentFor(s) /\ SyncFor(s)

LEMMA AppendFacts ==
  ASSUME NEW q \in Seq(Messages), NEW m \in Messages
  PROVE  /\ Len(Append(q, m)) = Len(q) + 1
         /\ \A i \in 1 .. Len(q) : Append(q, m)[i] = q[i]
         /\ Append(q, m)[Len(q) + 1] = m
  OBVIOUS

LEMMA TailFacts ==
  ASSUME NEW q \in Seq(Messages), q # <<>>
  PROVE  /\ Len(Tail(q)) = Len(q) - 1 /\ Len(q) \in Nat \ {0}
         /\ \A i \in 1 .. Len(q) - 1 : Tail(q)[i] = q[i + 1]
         /\ Head(q) = q[1]
  OBVIOUS

(* A step that leaves alone what SilentFor and SyncFor say of sensor s, or  *)
(* deletes its row.                                                        *)
LEMMA SyncFrame ==
  ASSUME NEW s \in Sensors, SilentFor(s), SyncFor(s),
         inbox'[s] = inbox[s], retained'[s] = retained[s], deviceUp'[s] = deviceUp[s],
         sensors'[s] \in {sensors[s], "absent"}, linkUp' => linkUp,
         s \in excused => s \in excused',
         UNCHANGED listener \/ (~Handling(s) /\ ~Handling(s)')
  PROVE  SilentFor(s)' /\ SyncFor(s)'
<1>1. SilentFor(s)' BY DEF SilentFor, Handling, listener
<1>2. SyncFor(s)'
  BY DEF SyncFor, QueueInv, HandInv, FlagInv, Handling, listener, HasStatus, Superseded
<1> QED BY <1>1, <1>2

(* The device side: a status is the last word when it is sent; a reading is *)
(* sent while the device is online; an overtaken reading is excused.       *)
LEMMA DeviceSync ==
  ASSUME TypeInv, SyncInv, NEW x \in Sensors, NEW s \in Sensors,
         DeviceConnect(x) \/ DeviceLost(x) \/ DeviceFlap(x) \/ DevicePublish(x) \/ Overtake(x)
  PROVE  SilentFor(s)' /\ SyncFor(s)'
<1> USE DEF device, listener, tables, history
<1>0. inbox[s] \in Seq(Messages) /\ SilentFor(s) /\ SyncFor(s)
  BY DEF TypeInv, TypeOK, SyncInv
<1>1. CASE s # x
  <2>1. /\ inbox'[s] = inbox[s] /\ retained'[s] = retained[s] /\ deviceUp'[s] = deviceUp[s]
        /\ UNCHANGED <<sensors, linkUp, listener>> /\ excused \subseteq excused'
    BY <1>1
       DEF DeviceConnect, DeviceLost, DeviceFlap, DevicePublish,
           Seen!Announce, Seen!LastWill, Seen!Publish, Overtake, Deliver, TypeInv,
           TypeOK
  <2> QED BY <1>0, <2>1, SyncFrame
<1>2. ASSUME NEW v \in Statuses, s = x,
             DeviceConnect(x) \/ DeviceLost(x) \/ DeviceFlap(x),
             retained'[s] = v, deviceUp'[s] = (v = "online"), Deliver(s, Status(v))
      PROVE  SilentFor(s)' /\ SyncFor(s)'
  <2>1. SilentFor(s)' BY <1>2 DEF SilentFor, Statuses
  <2>2. CASE linkUp
    <3>1. inbox'[s] = Append(inbox[s], Status(v))
      BY <1>2, <2>2 DEF Deliver, TypeInv, TypeOK
    <3>2. /\ Len(inbox'[s]) = Len(inbox[s]) + 1 /\ Len(inbox[s]) \in Nat
          /\ inbox'[s][Len(inbox[s]) + 1] = Status(v)
      BY <1>0, <3>1, AppendFacts, StatusIsMessage
    <3>3. Status(v).kind = "status" /\ Status(v).value = v BY DEF Status
    <3>4. HasStatus(inbox'[s]) BY <3>2, <3>3 DEF HasStatus
    <3>5. QueueInv(s)'
      <4>1. ASSUME NEW i \in 1 .. Len(inbox[s])
            PROVE  Superseded(inbox'[s], i)
        BY <3>2, <3>3 DEF Superseded
      <4>2. Agrees(inbox'[s][Len(inbox[s]) + 1], retained'[s])
        BY <1>2, <3>2, <3>3 DEF Agrees
      <4> QED BY <3>2, <4>1, <4>2 DEF QueueInv
    <3>6. UNCHANGED <<listener, sensors>> BY <1>2 DEF DeviceConnect, DeviceLost, DeviceFlap,
       Seen!Announce, Seen!LastWill
    <3>7. Handling(s)' /\ lpc' = "commit" => sensors'[s] \in {"absent", seen'}
                                               \/ ~(linkUp /\ s \notin excused)
      BY <1>0, <3>6 DEF SyncFor, FlagInv, Handling
    <3>8. Handling(s)' /\ lpc' = "announce" =>
            sensors'[s] \in {"absent", Target(current'.msg.value)}
              \/ ~(linkUp /\ s \notin excused)
      BY <1>0, <3>6 DEF SyncFor, FlagInv, Handling
    <3>9. UNCHANGED <<linkUp, excused>> BY <1>2 DEF DeviceConnect, DeviceLost, DeviceFlap,
       Seen!Announce, Seen!LastWill
    <3> QED BY <2>1, <3>4, <3>5, <3>7, <3>8, <3>9 DEF SyncFor, HandInv, FlagInv
  <2>3. CASE ~linkUp
    BY <1>2, <2>1, <2>3 DEF SyncFor, DeviceConnect, DeviceLost, DeviceFlap,
       Seen!Announce, Seen!LastWill
  <2> QED BY <2>2, <2>3
<1>3. CASE s = x /\ DeviceConnect(x)
  BY <1>2, <1>3 DEF DeviceConnect, Seen!Announce, TypeInv, TypeOK, Statuses
<1>4. CASE s = x /\ DeviceLost(x)
  BY <1>2, <1>4 DEF DeviceLost, Seen!LastWill, TypeInv, TypeOK, Statuses
<1>7. CASE s = x /\ DeviceFlap(x)
  BY <1>2, <1>7 DEF DeviceFlap, Seen!LastWill, TypeInv, TypeOK, Statuses
<1>5. CASE s = x /\ DevicePublish(x)
  <2>1. PICK m \in {Reading(published[s] + 1), Malformed(published[s] + 1)} : Deliver(s, m)
    BY <1>5 DEF DevicePublish, Seen!Publish
  <2>2. m \in Messages /\ m.kind # "status"
    <3>1. published[s] + 1 \in Readings
      BY <1>5, ParametersAssumption DEF DevicePublish,
         Seen!Publish, TypeInv, TypeOK, Readings
    <3>2. m \in Messages BY <3>1, ReadingIsMessage
    <3>3. m.kind # "status" BY DEF Reading, Malformed
    <3> QED BY <3>2, <3>3
  <2>3. retained[s] = "online" BY <1>0, <1>5 DEF DevicePublish, Seen!Publish, SilentFor
  <2>4. UNCHANGED <<deviceUp, retained, linkUp, listener, sensors, excused>>
    BY <1>5 DEF DevicePublish, Seen!Publish
  <2>5. SilentFor(s)' BY <2>3, <2>4, <1>0 DEF SilentFor
  <2>6. CASE linkUp
    <3>1. inbox'[s] = Append(inbox[s], m) BY <2>1, <2>6 DEF Deliver, TypeInv, TypeOK
    <3>2. /\ Len(inbox'[s]) = Len(inbox[s]) + 1 /\ Len(inbox[s]) \in Nat
          /\ inbox'[s][Len(inbox[s]) + 1] = m
          /\ \A i \in 1 .. Len(inbox[s]) : inbox'[s][i] = inbox[s][i]
      BY <1>0, <2>2, <3>1, AppendFacts
    <3>3. /\ \A i \in 1 .. Len(inbox[s]) :
               Superseded(inbox[s], i) => Superseded(inbox'[s], i)
          /\ HasStatus(inbox'[s]) <=> HasStatus(inbox[s])
      <4>1. \A i : i \in 1 .. Len(inbox[s]) + 1 <=> i \in 1 .. Len(inbox[s])
                                                     \/ i = Len(inbox[s]) + 1
        BY <3>2
      <4>2. inbox'[s][Len(inbox[s]) + 1].kind # "status" BY <2>2, <3>2
      <4>3. \A i \in 1 .. Len(inbox[s]) : Superseded(inbox[s], i) => Superseded(inbox'[s], i)
        BY <3>2, <4>1 DEF Superseded
      <4>4. HasStatus(inbox'[s]) <=> HasStatus(inbox[s])
        BY <3>2, <4>1, <4>2 DEF HasStatus
      <4> QED BY <4>3, <4>4
    <3>4. Agrees(m, retained'[s]) BY <2>2, <2>3, <2>4 DEF Agrees
    <3>5. QueueInv(s) => QueueInv(s)'
      BY <2>4, <3>2, <3>3, <3>4 DEF QueueInv
    <3> QED BY <1>0, <2>4, <2>5, <3>3, <3>5 DEF SyncFor, HandInv, FlagInv, Handling
  <2>7. CASE ~linkUp BY <2>4, <2>5, <2>7 DEF SyncFor
  <2> QED BY <2>6, <2>7
<1>6. CASE s = x /\ Overtake(x)
  <2>1. inbox[s] # <<>> BY <1>0, <1>6 DEF Overtake
  <2>2. SilentFor(s)' BY <1>0, <1>6, <2>1 DEF SilentFor, Overtake, Handling
  <2> QED BY <1>6, <2>2 DEF SyncFor, Overtake
<1> QED BY <1>1, <1>3, <1>4, <1>5, <1>6, <1>7

(* A subscription starts from the retained status alone; a lost one ends    *)
(* every claim.                                                            *)
LEMMA ConnectionSync ==
  ASSUME TypeInv, SyncInv, NEW s \in Sensors, Subscribe \/ LinkError \/ LinkDrop \/ Restart
  PROVE  SilentFor(s)' /\ SyncFor(s)'
<1> USE DEF device, listener, tables, history
<1>0. SilentFor(s) BY DEF SyncInv
<1>1. CASE Subscribe
  <2>1. ~Handling(s)' BY <1>1 DEF Subscribe, Handling
  <2>2. CASE retained[s] = "none"
    <3>1. inbox'[s] = <<>> /\ UNCHANGED <<deviceUp, retained, sensors>>
      BY <1>1, <2>2 DEF Subscribe
    <3>2. SilentFor(s)' BY <1>0, <2>1, <3>1 DEF SilentFor
    <3>3. QueueInv(s)' BY <3>1 DEF QueueInv
    <3>4. HandInv(s)' /\ FlagInv(s)'
      BY <1>0, <2>1, <2>2, <3>1 DEF HandInv, FlagInv, SilentFor
    <3> QED BY <3>2, <3>3, <3>4 DEF SyncFor
  <2>3. CASE retained[s] # "none"
    <3>1. inbox'[s] = <<Status(retained[s])>> /\ UNCHANGED <<deviceUp, retained, sensors>>
      BY <1>1, <2>3 DEF Subscribe
    <3>2. Len(inbox'[s]) = 1 /\ inbox'[s][1] = Status(retained[s]) BY <3>1
    <3>3. HasStatus(inbox'[s]) BY <3>2 DEF HasStatus, Status
    <3>4. Agrees(inbox'[s][1], retained'[s]) BY <3>1, <3>2 DEF Agrees, Status
    <3>5. QueueInv(s)' BY <3>2, <3>4 DEF QueueInv
    <3>6. SilentFor(s)' BY <1>0, <2>3, <3>1 DEF SilentFor
    <3> QED BY <2>1, <3>3, <3>5, <3>6 DEF SyncFor, HandInv, FlagInv
  <2> QED BY <2>2, <2>3
<1>2. CASE LinkError \/ Restart
  <2>1. ~linkUp' /\ inbox'[s] = <<>> /\ ~Handling(s)' /\ UNCHANGED <<deviceUp, retained, sensors>>
    BY <1>2 DEF LinkError, Restart, Handling
  <2> QED BY <1>0, <2>1 DEF SilentFor, SyncFor
<1>3. CASE LinkDrop
  BY <1>0, <1>3 DEF LinkDrop, SilentFor, SyncFor, Handling
<1> QED BY <1>1, <1>2, <1>3

(* Taking a message moves it from the head of the queue to the hand.        *)
LEMMA ReceiveSync ==
  ASSUME TypeInv, SyncInv, NEW x \in Sensors, NEW s \in Sensors, Receive(x)
  PROVE  SilentFor(s)' /\ SyncFor(s)'
<1> USE DEF device, listener, tables, history
<1>0. /\ inbox[s] \in Seq(Messages) /\ SilentFor(s) /\ SyncFor(s) /\ lpc = "idle"
      /\ UNCHANGED <<device, linkUp, sensors, excused>>
  BY DEF TypeInv, TypeOK, SyncInv, Receive
<1>1. CASE s # x
  <2>1. inbox'[s] = inbox[s] BY <1>1 DEF Receive, TypeInv, TypeOK
  <2>2. ~Handling(s) BY <1>0 DEF Handling
  <2>3. ~Handling(s)' BY <1>0, <1>1 DEF Handling, Receive
  <2> QED BY <1>0, <2>1, <2>2, <2>3, SyncFrame
<1>2. CASE s = x
  <2>1. inbox[s] # <<>> /\ inbox'[s] = Tail(inbox[s])
    BY <1>2 DEF Receive, TypeInv, TypeOK
  <2> DEFINE q == inbox[s]
             h == q[1]
  <2>2. /\ Len(q) \in Nat \ {0} /\ Len(inbox'[s]) = Len(q) - 1 /\ Head(q) = h
        /\ \A i \in 1 .. Len(q) - 1 : inbox'[s][i] = q[i + 1]
    BY <1>0, <2>1, TailFacts
  <2>3. \A i \in 1 .. Len(q) - 1 : Superseded(q, i + 1) => Superseded(inbox'[s], i)
    <3>1. ASSUME NEW i \in 1 .. Len(q) - 1, Superseded(q, i + 1)
          PROVE  Superseded(inbox'[s], i)
      <4>1. PICK j \in 1 .. Len(q) : j > i + 1 /\ q[j].kind = "status"
        BY <3>1 DEF Superseded
      <4>2. j - 1 \in 1 .. Len(inbox'[s]) /\ j - 1 > i /\ inbox'[s][j - 1] = q[j]
        BY <2>2, <4>1
      <4> QED BY <4>1, <4>2 DEF Superseded
    <3> QED BY <3>1
  <2>4. Superseded(q, 1) => HasStatus(inbox'[s])
    <3>1. ASSUME NEW j \in 1 .. Len(q), j > 1, q[j].kind = "status"
          PROVE  HasStatus(inbox'[s])
      <4>1. j - 1 \in 1 .. Len(inbox'[s]) /\ inbox'[s][j - 1] = q[j]
        BY <2>2, <3>1
      <4> QED BY <3>1, <4>1 DEF HasStatus
    <3> QED BY <3>1 DEF Superseded
  <2>5. HasStatus(q) => h.kind = "status" \/ HasStatus(inbox'[s])
    <3>1. ASSUME NEW j \in 1 .. Len(q), q[j].kind = "status", h.kind # "status"
          PROVE  Superseded(q, 1)
      BY <3>1 DEF Superseded
    <3> QED BY <2>4, <3>1 DEF HasStatus
  <2>6. retained[s] # "none" BY <1>0, <2>1 DEF SilentFor
  <2>7. SilentFor(s)' BY <1>0, <2>6 DEF SilentFor
  <2>8. ASSUME linkUp, s \notin excused PROVE QueueInv(s)' /\ HandInv(s)' /\ FlagInv(s)'
    <3>1. QueueInv(s) /\ FlagInv(s) BY <1>0, <2>8 DEF SyncFor
    <3>2. QueueInv(s)'
      <4>1. ASSUME NEW i \in 1 .. Len(q) - 1
            PROVE  Superseded(inbox'[s], i) \/ Agrees(inbox'[s][i], retained'[s])
        <5>1. Superseded(q, i + 1) \/ Agrees(q[i + 1], retained[s])
          BY <2>2, <3>1 DEF QueueInv
        <5> QED BY <1>0, <2>2, <2>3, <5>1
      <4> QED BY <2>2, <4>1 DEF QueueInv
    <3>3. Superseded(q, 1) \/ Agrees(h, retained[s])
      BY <2>2, <3>1 DEF QueueInv
    <3>4. CASE h.kind = "malformed"
      <4>1. UNCHANGED listener BY <1>2, <2>2, <3>4 DEF Receive
      <4>2. ~Handling(s)' BY <1>0, <4>1 DEF Handling
      <4>3. HasStatus(inbox'[s]) \/ sensors[s] \in {"absent", Target(retained[s])}
        BY <1>0, <2>5, <3>1, <3>4 DEF FlagInv, Handling
      <4> QED BY <1>0, <3>2, <4>2, <4>3 DEF HandInv, FlagInv
    <3>5. CASE h.kind # "malformed"
      <4>1. lpc' = "lookup" /\ current' = [sensor |-> s, msg |-> h]
        BY <1>2, <2>2, <3>5 DEF Receive
      <4>2. Handling(s)' /\ current'.msg = h BY <4>1 DEF Handling
      <4>3. HasStatus(inbox'[s]) \/ h.kind = "status"
              \/ sensors[s] \in {"absent", Target(retained[s])}
        BY <1>0, <2>5, <3>1 DEF FlagInv, Handling
      <4> QED BY <1>0, <2>4, <3>2, <3>3, <4>1, <4>2, <4>3 DEF HandInv, FlagInv
    <3> QED BY <3>4, <3>5
  <2> QED BY <1>0, <2>7, <2>8 DEF SyncFor
<1> QED BY <1>1, <1>2

(* The handler.  What it finishes with a status leaves the flag as that     *)
(* status says; what it does with a reading leaves the flag alone but for  *)
(* the placeholder, made while the device is online.                       *)
LEMMA HandlerSync ==
  ASSUME TypeInv, SyncInv, NEW s \in Sensors,
         \/ StatusLookup \/ StatusLoad \/ StatusCommit \/ StatusAnnounce
         \/ DataLookup \/ CreatePlaceholder \/ CreatedDispatch \/ InsertReading
         \/ DispatchReceived \/ DispatchAlert \/ CountReading \/ ListenerFail
  PROVE  SilentFor(s)' /\ SyncFor(s)'
<1> USE DEF device, listener, tables, mqttState, history
<1>0. /\ SilentFor(s) /\ SyncFor(s)
      /\ UNCHANGED <<deviceUp, retained, inbox, linkUp>>
      /\ s \in excused => s \in excused'
      /\ lpc \notin {"down", "idle"} /\ lpc' # "down"
      /\ current' = IF lpc' = "idle" THEN NoMessage ELSE current
  BY DEF SyncInv, StatusLookup, StatusLoad, StatusCommit, StatusAnnounce, DataLookup,
     CreatePlaceholder, CreatedDispatch, InsertReading, DispatchReceived, DispatchAlert,
     CountReading, ListenerFail, ListenerGoto
<1>1. CASE current.sensor # s
  <2>1. ~Handling(s) /\ ~Handling(s)' BY <1>0, <1>1 DEF Handling
  <2>2. sensors'[s] = sensors[s]
    <3>1. CASE UNCHANGED sensors BY <3>1
    <3>2. CASE StatusCommit
      BY <1>1, <3>2 DEF StatusCommit, WriteFlag, TypeInv, TypeOK
    <3>3. CASE CreatePlaceholder
      BY <1>1, <3>3 DEF CreatePlaceholder, TypeInv, TypeOK
    <3> QED BY <3>1, <3>2, <3>3 DEF StatusLookup, StatusLoad, StatusAnnounce, DataLookup,
          CreatedDispatch, InsertReading, DispatchReceived, DispatchAlert, CountReading,
          ListenerFail
  <2> QED BY <1>0, <2>1, <2>2, SyncFrame
<1>2. CASE current.sensor = s
  <2>0. Handling(s) /\ retained[s] # "none" BY <1>0, <1>2 DEF Handling, SilentFor
  <2>1. SilentFor(s)' BY <1>0, <2>0 DEF SilentFor
  <2>2. Handling(s)' <=> lpc' # "idle" BY <1>0, <1>2 DEF Handling
  <2>3. SUFFICES ASSUME linkUp, s \notin excused, s \notin excused'
                 PROVE  FlagInv(s)'
    BY <1>0, <2>0, <2>1, <2>2 DEF SyncFor, QueueInv, HandInv
  <2>4. /\ HasStatus(inbox[s]) \/ Agrees(current.msg, retained[s])
        /\ FlagInv(s)
    BY <1>0, <2>0, <2>3 DEF SyncFor, HandInv
  <2>5. CASE StatusLookup
    <3>1. sensors' = sensors /\ lpc' \in {"idle", "load"} BY <2>5 DEF StatusLookup, ListenerGoto
    <3>2. lpc' = "idle" => sensors[s] = Target(current.msg.value) /\ current.msg.kind = "status"
      BY <1>2, <2>5 DEF StatusLookup, ListenerGoto
    <3>3. lpc' = "load" => current'.msg.kind = "status" BY <1>0, <2>5 DEF StatusLookup
    <3> QED BY <1>0, <2>2, <2>4, <3>1, <3>2, <3>3 DEF FlagInv, Agrees
  <2>6. CASE StatusLoad
    <3>1. current.msg.kind = "status" BY <2>6 DEF StatusLoad, TypeInv, HandlingOK
    <3>2. \/ lpc' = "idle" /\ sensors'[s] = "absent"
          \/ lpc' = "commit" /\ current' = current /\ seen' = sensors'[s]
      BY <1>2, <2>6 DEF StatusLoad, ListenerGoto
    <3> QED BY <2>2, <3>1, <3>2 DEF FlagInv
  <2>7. CASE StatusCommit
    <3>1. current.msg.kind = "status" BY <2>7 DEF StatusCommit, TypeInv, HandlingOK
    <3>2. sensors[s] \in {"absent", seen} BY <2>0, <2>4, <2>7 DEF StatusCommit, FlagInv
    <3>3. sensors' = WriteFlag(s, seen, Target(current.msg.value))
      BY <1>2, <2>7 DEF StatusCommit
    <3>4. sensors'[s] \in {"absent", Target(current.msg.value)}
      <4>1. sensors \in [Sensors -> Rows] BY DEF TypeInv, TypeOK
      <4> QED BY <3>2, <3>3, <4>1 DEF WriteFlag
    <3>5. \/ lpc' = "idle" /\ sensors'[s] = "absent"
          \/ lpc' = "announce" /\ current' = current
      <4>1. CASE sensors[s] = "absent"
        BY <1>2, <2>7, <3>3, <4>1 DEF StatusCommit, ListenerGoto, WriteFlag
      <4>2. CASE sensors[s] # "absent"
        BY <1>2, <2>7, <4>2 DEF StatusCommit, ListenerGoto
      <4> QED BY <4>1, <4>2
    <3> QED BY <2>2, <3>1, <3>4, <3>5 DEF FlagInv
  <2>8. CASE StatusAnnounce \/ (ListenerFail /\ lpc = "announce")
    <3>1. current.msg.kind = "status" /\ lpc = "announce"
      BY <2>8 DEF StatusAnnounce, TypeInv, HandlingOK
    <3>2. lpc' = "idle" /\ sensors' = sensors
      BY <2>8 DEF StatusAnnounce, ListenerFail, ListenerGoto
    <3>3. sensors[s] \in {"absent", Target(current.msg.value)}
      BY <2>0, <2>4, <3>1 DEF FlagInv
    <3> QED BY <1>0, <2>2, <2>4, <3>1, <3>2, <3>3 DEF FlagInv, Agrees
  <2>9. CASE ListenerFail /\ lpc # "announce"
    <3>1. current.msg.kind # "status" BY <1>2, <2>3, <2>9 DEF ListenerFail
    <3>2. lpc' = "idle" /\ sensors' = sensors BY <2>9 DEF ListenerFail, ListenerGoto
    <3> QED BY <1>0, <2>2, <2>4, <3>1, <3>2 DEF FlagInv
  <2>10. CASE CreatePlaceholder
    <3>1. current.msg.kind = "data" BY <2>10 DEF CreatePlaceholder, TypeInv, HandlingOK
    <3>2. lpc' \in {"idle", "created"} /\ sensors'[s] \in {sensors[s], "active"}
      BY <1>2, <2>10 DEF CreatePlaceholder, ListenerGoto, TypeInv, TypeOK
    <3>3. HasStatus(inbox[s]) \/ retained[s] = "online" BY <2>4, <3>1 DEF Agrees
    <3> QED BY <1>0, <2>2, <2>4, <3>1, <3>2, <3>3 DEF FlagInv, Target
  <2>11. CASE \/ DataLookup \/ CreatedDispatch \/ InsertReading \/ DispatchReceived
              \/ DispatchAlert \/ CountReading
    <3>1. current.msg.kind = "data"
      BY <2>11 DEF DataLookup, CreatedDispatch, InsertReading, DispatchReceived,
         DispatchAlert, CountReading, TypeInv, HandlingOK
    <3>2. sensors' = sensors /\ lpc' \notin {"commit", "announce"}
      BY <2>11 DEF DataLookup, CreatedDispatch, InsertReading, DispatchReceived,
         DispatchAlert, CountReading, ListenerGoto
    <3> QED BY <1>0, <2>2, <2>4, <3>1, <3>2 DEF FlagInv
  <2> QED BY <2>5, <2>6, <2>7, <2>8, <2>9, <2>10, <2>11
<1> QED BY <1>1, <1>2

(* REST: an edit that changes a flag excuses its sensor, any other leaves    *)
(* the flag alone, and a delete removes the row.                           *)
LEMMA RestSync ==
  ASSUME TypeInv, SyncInv, NEW r \in Requests, NEW s \in Sensors, Rest(r) \/ RequestFail(r)
  PROVE  SilentFor(s)' /\ SyncFor(s)'
<1> USE DEF device, listener, tables, mqttState, history
<1>0. /\ SilentFor(s) /\ SyncFor(s)
      /\ UNCHANGED <<device, inbox, linkUp, listener>>
      /\ s \in excused => s \in excused'
  BY DEF SyncInv, Rest, UpdateLoad, UpdateCommit, UpdateAnnounce, DeleteLoad,
     DeleteCommit, DeleteAnnounce, RequestFail
<1>1. CASE sensors'[s] \in {sensors[s], "absent"}
  BY <1>0, <1>1, SyncFrame
<1>2. CASE UpdateCommit(r) /\ sensors'[s] # sensors[s]
  <2>1. s \in excused'
    BY <1>2 DEF UpdateCommit, WriteFlag, TypeInv, TypeOK
  <2>2. sensors[s] # "absent" BY <1>2 DEF UpdateCommit, WriteFlag, TypeInv, TypeOK
  <2> QED BY <1>0, <2>1, <2>2 DEF SilentFor, SyncFor
<1>3. UpdateCommit(r) \/ sensors'[s] \in {sensors[s], "absent"}
  BY DEF Rest, UpdateLoad, UpdateAnnounce, DeleteLoad, DeleteCommit, DeleteAnnounce,
     RequestFail, TypeInv, TypeOK
<1> QED BY <1>1, <1>2, <1>3

LEMMA NextSyncInv == TypeInv /\ SyncInv /\ [Next]_vars => SyncInv'
<1> SUFFICES ASSUME TypeInv, SyncInv, [Next]_vars, NEW s \in Sensors
             PROVE  SilentFor(s)' /\ SyncFor(s)'
  BY DEF SyncInv
<1>1. CASE UNCHANGED vars
  <2>1. SilentFor(s) /\ SyncFor(s) BY DEF SyncInv
  <2> QED BY <1>1, <2>1, SyncFrame DEF vars, device, listener, tables, history
<1>2. CASE Next
  BY <1>2, DeviceSync, ConnectionSync, ReceiveSync, HandlerSync, RestSync DEF Next, Listener
<1> QED BY <1>1, <1>2

(* While the listener is subscribed and has handled every status of a       *)
(* sensor, the table says what the broker's retained status says, but for  *)
(* the excuses StatusInSync names.                                         *)
THEOREM StatusFollowsBroker == Spec => []StatusInSync
<1>1. Init => TypeInv /\ SyncInv
  <2>1. Init => SyncInv
    BY DEF Init, SyncInv, SilentFor, SyncFor, Handling
  <2> QED BY <2>1, InitTypeInv
<1>2. TypeInv /\ SyncInv /\ [Next]_vars => (TypeInv /\ SyncInv)'
  BY NextTypeInv, NextSyncInv
<1>3. SyncInv => StatusInSync
  BY DEF SyncInv, SyncFor, FlagInv, StatusInSync, StatusPending, HasStatus, Handling
<1> QED BY <1>1, <1>2, <1>3, PTL DEF Spec

-----------------------------------------------------------------------------
(* The events of status changes.                                           *)

(* Sensor s while its writers never overlapped: there is at most one, what *)
(* it read is still the row, what it wrote stays the row until its event,  *)
(* and with no event due the last one told the row.                        *)
OneWriter(s) ==
  \A q, r \in Requests :
    RequestWriting(q, s) => ~ListenerWriting(s) /\ (RequestWriting(r, s) => q = r)

ListenerView(s) ==
  /\ lpc = "commit" /\ current.sensor = s => seen = sensors[s]
  /\ lpc = "announce" /\ current.sensor = s => sensors[s] = Target(current.msg.value)

RequestView(r, s) ==
  /\ requests[r].pc = "loaded" /\ requests[r].sensor = s => requests[r].row = sensors[s]
  /\ requests[r].pc = "updated" /\ requests[r].sensor = s => sensors[s] = Wanted(requests[r])

AnnouncedFor(s) ==
  s \notin raced =>
    /\ OneWriter(s)
    /\ sensors[s] # "absent" =>
         /\ ListenerView(s)
         /\ \A r \in Requests : RequestView(r, s)
         /\ Unannounced(s) \/ announced[s] \in {"none", sensors[s]}

AnnouncedInv == \A s \in Sensors : AnnouncedFor(s)

(* A step that starts no writer of s, finishes none with its event, and    *)
(* leaves the row and the last event alone or removes the row.             *)
LEMMA AnnouncedFrame ==
  ASSUME NEW s \in Sensors, AnnouncedFor(s), raced \subseteq raced',
         sensors'[s] = "absent" \/ (sensors'[s] = sensors[s] /\ announced'[s] = announced[s]),
         lpc' \in {"commit", "announce"} /\ current'.sensor = s
           => lpc' = lpc /\ current' = current /\ seen' = seen,
         \A r \in Requests : RequestWriting(r, s)' => requests'[r] = requests[r],
         Unannounced(s) => Unannounced(s)' \/ s \in raced' \/ sensors'[s] = "absent"
  PROVE  AnnouncedFor(s)'
<1> SUFFICES ASSUME s \notin raced' PROVE AnnouncedFor(s)' BY DEF AnnouncedFor
<1>0. s \notin raced OBVIOUS
<1>1. \A r \in Requests : RequestWriting(r, s)' => RequestWriting(r, s)
  BY DEF RequestWriting
<1>2. ListenerWriting(s)' => ListenerWriting(s) BY DEF ListenerWriting
<1>3. OneWriter(s)' BY <1>0, <1>1, <1>2 DEF AnnouncedFor, OneWriter
<1>4. ASSUME sensors'[s] # "absent"
      PROVE  ListenerView(s)' /\ (\A r \in Requests : RequestView(r, s)')
             /\ (Unannounced(s)' \/ announced'[s] \in {"none", sensors'[s]})
  <2>1. /\ ListenerView(s) /\ \A r \in Requests : RequestView(r, s)
        /\ Unannounced(s) \/ announced[s] \in {"none", sensors[s]}
    BY <1>0, <1>4 DEF AnnouncedFor
  <2>2. ListenerView(s)' BY <1>4, <2>1 DEF ListenerView
  <2>3. ASSUME NEW r \in Requests PROVE RequestView(r, s)'
    BY <1>4, <2>1 DEF RequestView, RequestWriting, Wanted
  <2> QED BY <1>4, <2>1, <2>2, <2>3
<1> QED BY <1>3, <1>4 DEF AnnouncedFor

(* What SetRequest leaves. *)
LEMMA SetRequestEffect ==
  ASSUME TypeInv, NEW r \in Requests, NEW q, SetRequest(r, q)
  PROVE  requests'[r] = q /\ \A x \in Requests \ {r} : requests'[x] = requests[x]
  BY DEF TypeInv, TypeOK, SetRequest

(* The devices, the broker, the connection and the restart: no writer of   *)
(* these, and a restart notes the events it drops.                         *)
LEMMA SurroundingsAnnounced ==
  ASSUME TypeInv, NEW s \in Sensors, AnnouncedFor(s),
         \/ \E x \in Sensors : DeviceConnect(x) \/ DeviceLost(x) \/ DeviceFlap(x)
                                 \/ DevicePublish(x) \/ Overtake(x) \/ Receive(x)
         \/ LinkDrop \/ Subscribe \/ LinkError \/ Restart \/ UNCHANGED vars
  PROVE  AnnouncedFor(s)'
<1> USE DEF device, listener, tables, mqttState, history
<1>1. CASE Restart
  <2>1. /\ \A r \in Requests : requests'[r].pc = "none"
        /\ lpc' = "down" /\ UNCHANGED <<sensors, announced>>
        /\ raced' = raced \cup {x \in Sensors : Unannounced(x)}
    BY <1>1 DEF Restart, NoRequest
  <2> QED BY <2>1, AnnouncedFrame DEF RequestWriting
<1>2. CASE ~Restart
  <2>1. UNCHANGED <<sensors, announced, requests, raced>>
    BY <1>2 DEF DeviceConnect, DeviceLost, DeviceFlap, DevicePublish,
       Seen!Announce, Seen!LastWill, Seen!Publish, Overtake, Receive,
       LinkDrop, Subscribe, LinkError, vars
  <2>2. UNCHANGED listener \/ (lpc \in {"idle", "down"} /\ lpc' \in {"idle", "down", "lookup"})
    BY <1>2 DEF DeviceConnect, DeviceLost, DeviceFlap, DevicePublish,
       Seen!Announce, Seen!LastWill, Seen!Publish, Overtake, Receive,
       LinkDrop, Subscribe, LinkError, vars
  <2>3. Unannounced(s) => Unannounced(s)' BY <2>1, <2>2 DEF Unannounced
  <2> QED BY <2>1, <2>2, <2>3, AnnouncedFrame
<1> QED BY <1>1, <1>2

(* The listener's writer: it notes a request that is at work on the sensor *)
(* when it reads the row, and later requests note it.                      *)
LEMMA ListenerAnnounced ==
  ASSUME TypeInv, NEW s \in Sensors, AnnouncedFor(s),
         \/ StatusLookup \/ StatusLoad \/ StatusCommit \/ StatusAnnounce
         \/ DataLookup \/ CreatePlaceholder \/ CreatedDispatch \/ InsertReading
         \/ DispatchReceived \/ DispatchAlert \/ CountReading \/ ListenerFail
  PROVE  AnnouncedFor(s)'
<1> USE DEF device, listener, tables, mqttState, history
<1> DEFINE c == current.sensor
<1>0. /\ lpc \notin {"down", "idle"} /\ UNCHANGED requests /\ raced \subseteq raced'
      /\ c \in Sensors /\ sensors \in [Sensors -> Rows]
      /\ announced \in [Sensors -> {"none", "active", "inactive"}]
      /\ current' = IF lpc' = "idle" THEN NoMessage ELSE current
  BY DEF StatusLookup, StatusLoad, StatusCommit, StatusAnnounce, DataLookup,
     CreatePlaceholder, CreatedDispatch, InsertReading, DispatchReceived, DispatchAlert,
     CountReading, ListenerFail, ListenerGoto, TypeInv, TypeOK, HandlingOK
<1>1. CASE c # s
  <2>1. sensors'[s] = sensors[s] /\ announced'[s] = announced[s]
    BY <1>0, <1>1 DEF StatusLookup, StatusLoad, StatusCommit, StatusAnnounce, DataLookup,
     CreatePlaceholder, CreatedDispatch, InsertReading, DispatchReceived, DispatchAlert,
     CountReading, ListenerFail, WriteFlag
  <2>2. lpc' \in {"commit", "announce"} => current'.sensor # s BY <1>0, <1>1
  <2>3. Unannounced(s) => Unannounced(s)' BY <1>0, <1>1 DEF Unannounced
  <2> QED BY <1>0, <2>1, <2>2, <2>3, AnnouncedFrame
<1>2. CASE c = s /\ (\/ StatusLookup \/ DataLookup \/ CreatedDispatch \/ InsertReading
                     \/ DispatchReceived \/ DispatchAlert \/ CountReading \/ ListenerFail)
  <2>1. /\ UNCHANGED <<sensors, announced>> /\ lpc' \notin {"commit", "announce"}
        /\ lpc = "announce" => s \in raced'
    BY <1>2 DEF StatusLookup, DataLookup, CreatedDispatch, InsertReading, DispatchReceived,
       DispatchAlert, CountReading, ListenerFail, ListenerGoto
  <2>2. Unannounced(s) => Unannounced(s)' \/ s \in raced' BY <1>0, <2>1 DEF Unannounced
  <2> QED BY <1>0, <2>1, <2>2, AnnouncedFrame
<1>3. CASE c = s /\ StatusLoad
  <2> SUFFICES ASSUME s \notin raced' PROVE AnnouncedFor(s)' BY DEF AnnouncedFor
  <2>0. lpc = "load" /\ UNCHANGED <<sensors, announced, requests>> BY <1>3 DEF StatusLoad
  <2>1. \A r \in Requests : ~RequestWriting(r, s)
    BY <1>3 DEF StatusLoad
  <2>2. s \notin raced BY <1>0
  <2>3. \A r \in Requests : ~RequestWriting(r, s)' BY <2>0, <2>1 DEF RequestWriting
  <2>4. OneWriter(s)' BY <2>3 DEF OneWriter
  <2>5. \A r \in Requests : RequestView(r, s)' BY <2>3 DEF RequestView, RequestWriting
  <2>6. CASE sensors[s] = "absent" BY <2>0, <2>4, <2>6 DEF AnnouncedFor
  <2>7. CASE sensors[s] # "absent"
    <3>1. lpc' = "commit" /\ seen' = sensors'[s] BY <1>3, <2>0, <2>7 DEF StatusLoad
    <3>2. ~Unannounced(s) BY <2>0, <2>1 DEF Unannounced, RequestWriting
    <3>3. announced'[s] \in {"none", sensors'[s]}
      BY <2>0, <2>2, <2>7, <3>2 DEF AnnouncedFor
    <3> QED BY <2>4, <2>5, <3>1, <3>3 DEF AnnouncedFor, ListenerView
  <2> QED BY <2>6, <2>7
<1>4. CASE c = s /\ StatusCommit
  <2> SUFFICES ASSUME s \notin raced', sensors[s] # "absent" PROVE AnnouncedFor(s)'
    <3>1. ASSUME sensors[s] = "absent" PROVE AnnouncedFor(s)'
      <4>1. sensors'[s] = "absent" /\ lpc' = "idle"
        BY <1>4, <3>1 DEF StatusCommit, WriteFlag, ListenerGoto
      <4> QED BY <1>0, <4>1, AnnouncedFrame
    <3> QED BY <3>1 DEF AnnouncedFor
  <2>0. /\ lpc = "commit" /\ lpc' = "announce" /\ UNCHANGED raced
        /\ sensors' = WriteFlag(s, seen, Target(current.msg.value))
    BY <1>4 DEF StatusCommit, ListenerGoto
  <2>1. OneWriter(s) /\ ListenerView(s) BY <2>0 DEF AnnouncedFor
  <2>2. \A r \in Requests : ~RequestWriting(r, s)
    BY <1>4, <2>0, <2>1 DEF OneWriter, ListenerWriting
  <2>3. \A r \in Requests : ~RequestWriting(r, s)' BY <1>0, <2>2 DEF RequestWriting
  <2>4. sensors'[s] = Target(current.msg.value)
    BY <1>0, <1>4, <2>0, <2>1 DEF WriteFlag, ListenerView
  <2>5. current' = current BY <1>0, <2>0
  <2>6. Unannounced(s)' BY <1>4, <2>0, <2>5 DEF Unannounced
  <2> QED BY <2>0, <2>3, <2>4, <2>5, <2>6
          DEF AnnouncedFor, OneWriter, ListenerView, RequestView, RequestWriting
<1>5. CASE c = s /\ StatusAnnounce
  <2> SUFFICES ASSUME s \notin raced', sensors[s] # "absent" PROVE AnnouncedFor(s)'
    <3>1. ASSUME sensors[s] = "absent" PROVE AnnouncedFor(s)'
      <4>1. sensors'[s] = "absent" /\ lpc' = "idle"
        BY <1>5, <3>1 DEF StatusAnnounce, ListenerGoto
      <4> QED BY <1>0, <4>1, AnnouncedFrame
    <3> QED BY <3>1 DEF AnnouncedFor
  <2>0. /\ lpc = "announce" /\ lpc' = "idle" /\ UNCHANGED <<raced, sensors>>
        /\ announced' = [announced EXCEPT ![s] = Target(current.msg.value)]
    BY <1>5 DEF StatusAnnounce, ListenerGoto
  <2>1. OneWriter(s) /\ ListenerView(s) BY <2>0 DEF AnnouncedFor
  <2>2. \A r \in Requests : ~RequestWriting(r, s)
    BY <1>5, <2>0, <2>1 DEF OneWriter, ListenerWriting
  <2>3. \A r \in Requests : ~RequestWriting(r, s)' BY <1>0, <2>2 DEF RequestWriting
  <2>4. announced'[s] = sensors'[s]
    BY <1>0, <1>5, <2>0, <2>1 DEF ListenerView
  <2> QED BY <2>0, <2>3, <2>4
          DEF AnnouncedFor, OneWriter, ListenerView, RequestView, RequestWriting
<1>6. CASE c = s /\ CreatePlaceholder
  <2>0. lpc = "create" /\ lpc' \in {"created", "idle"}
    BY <1>6 DEF CreatePlaceholder, ListenerGoto
  <2>1. CASE sensors[s] # "absent"
    <3>1. UNCHANGED <<sensors, announced>> BY <1>6, <2>1 DEF CreatePlaceholder
    <3>2. Unannounced(s) => Unannounced(s)' BY <1>0, <2>0 DEF Unannounced
    <3> QED BY <1>0, <2>0, <3>1, <3>2, AnnouncedFrame
  <2>2. CASE sensors[s] = "absent"
    <3> SUFFICES ASSUME s \notin raced' PROVE AnnouncedFor(s)' BY DEF AnnouncedFor
    <3>1. \A r \in Requests : ~RequestWriting(r, s) BY <1>6 DEF CreatePlaceholder
    <3>2. \A r \in Requests : ~RequestWriting(r, s)' BY <1>0, <3>1 DEF RequestWriting
    <3>3. announced'[s] = "none" BY <1>0, <1>6, <2>2 DEF CreatePlaceholder
    <3> QED BY <2>0, <3>2, <3>3
            DEF AnnouncedFor, OneWriter, ListenerView, RequestView, RequestWriting
  <2> QED BY <2>1, <2>2
<1> QED BY <1>1, <1>2, <1>3, <1>4, <1>5, <1>6

(* A request's writer, the same way. *)
LEMMA RequestAnnounced ==
  ASSUME TypeInv, NEW s \in Sensors, AnnouncedFor(s), NEW r \in Requests,
         Rest(r) \/ RequestFail(r)
  PROVE  AnnouncedFor(s)'
<1> USE DEF device, listener, tables, mqttState, history
<1>0. /\ UNCHANGED listener /\ raced \subseteq raced'
      /\ \A x \in Requests \ {r} : requests'[x] = requests[x]
      /\ sensors \in [Sensors -> Rows] /\ requests[r] \in RequestStates
      /\ announced \in [Sensors -> {"none", "active", "inactive"}]
  <2>1. \E q : SetRequest(r, q)
    BY DEF Rest, UpdateLoad, UpdateCommit, UpdateAnnounce, DeleteLoad, DeleteCommit,
       DeleteAnnounce, RequestFail
  <2>2. \A x \in Requests \ {r} : requests'[x] = requests[x] BY <2>1, SetRequestEffect
  <2> QED BY <2>2 DEF Rest, UpdateLoad, UpdateCommit, UpdateAnnounce, DeleteLoad, DeleteCommit,
       DeleteAnnounce, RequestFail, TypeInv, TypeOK
<1>1. CASE \/ \E x \in Sensors : DeleteLoad(r, x)
           \/ DeleteCommit(r) \/ DeleteAnnounce(r) \/ RequestFail(r)
  <2>1. requests'[r].pc \in {"none", "deleting", "removed"}
    <3>1. CASE \E x \in Sensors : DeleteLoad(r, x)
      BY <3>1, SetRequestEffect DEF DeleteLoad
    <3>2. CASE DeleteCommit(r)
      <4>1. [requests[r] EXCEPT !.pc = "removed"].pc = "removed"
        BY <1>0, <3>2, RequestFields DEF DeleteCommit
      <4> QED BY <3>2, <4>1, SetRequestEffect DEF DeleteCommit
    <3>3. CASE DeleteAnnounce(r) \/ RequestFail(r)
      BY <3>3, SetRequestEffect DEF DeleteAnnounce, RequestFail, NoRequest
    <3> QED BY <1>1, <3>1, <3>2, <3>3
  <2>2. sensors'[s] = "absent" \/ (sensors'[s] = sensors[s] /\ announced'[s] = announced[s])
    BY <1>0, <1>1 DEF DeleteLoad, DeleteCommit, DeleteAnnounce, RequestFail
  <2>3. requests[r].pc = "updated" /\ requests[r].sensor = s => s \in raced'
    <3>1. CASE RequestFail(r) BY <3>1 DEF RequestFail
    <3>2. CASE \E x \in Sensors : DeleteLoad(r, x)
      <4>1. requests[r].pc = "none" BY <3>2 DEF DeleteLoad, NoRequest
      <4> QED BY <4>1
    <3>3. CASE DeleteCommit(r) \/ DeleteAnnounce(r)
      BY <3>3 DEF DeleteCommit, DeleteAnnounce
    <3> QED BY <1>1, <3>1, <3>2, <3>3
  <2>4. Unannounced(s) => Unannounced(s)' \/ s \in raced' BY <1>0, <2>3 DEF Unannounced
  <2> QED BY <1>0, <2>1, <2>2, <2>4, AnnouncedFrame DEF RequestWriting
<1>2. ASSUME NEW x \in Sensors, NEW kind \in UpdateKinds, UpdateLoad(r, x, kind)
      PROVE  AnnouncedFor(s)'
  <2> DEFINE q == [pc |-> "loaded", sensor |-> x, kind |-> kind, row |-> sensors[x]]
  <2>0. requests'[r] = q /\ requests[r].pc = "none" /\ UNCHANGED <<sensors, announced>>
    BY <1>2, SetRequestEffect DEF UpdateLoad, NoRequest
  <2>1. Unannounced(s) <=> Unannounced(s)' BY <1>0, <2>0 DEF Unannounced
  <2>2. CASE x # s
    BY <1>0, <2>0, <2>1, <2>2, AnnouncedFrame DEF RequestWriting
  <2>3. CASE x = s
    <3> SUFFICES ASSUME s \notin raced' PROVE AnnouncedFor(s)' BY DEF AnnouncedFor
    <3>1. ~ListenerWriting(s) /\ \A y \in Requests : ~RequestWriting(y, s)
      BY <1>2, <2>3 DEF UpdateLoad
    <3>2. ~ListenerWriting(s)' BY <1>0, <3>1 DEF ListenerWriting
    <3>3. \A y \in Requests \ {r} : ~RequestWriting(y, s)'
      BY <1>0, <3>1 DEF RequestWriting
    <3>4. OneWriter(s)' BY <3>2, <3>3 DEF OneWriter
    <3>5. ~Unannounced(s) BY <3>1 DEF Unannounced, ListenerWriting, RequestWriting
    <3>6. announced'[s] \in {"none", sensors'[s]} \/ sensors'[s] = "absent"
      BY <1>0, <2>0, <3>5 DEF AnnouncedFor
    <3>7. ListenerView(s)' BY <3>2 DEF ListenerView, ListenerWriting
    <3>8. \A y \in Requests : RequestView(y, s)'
      <4>1. RequestView(r, s)' BY <2>0, <2>3 DEF RequestView
      <4> QED BY <3>3, <4>1 DEF RequestView, RequestWriting
    <3> QED BY <3>4, <3>6, <3>7, <3>8 DEF AnnouncedFor
  <2> QED BY <2>2, <2>3
<1>3. CASE UpdateCommit(r)
  <2> DEFINE q == requests[r]
  <2>0. /\ q.pc = "loaded" /\ q.sensor \in Sensors
        /\ sensors' = WriteFlag(q.sensor, q.row, Wanted(q))
        /\ UNCHANGED <<announced, raced>>
    BY <1>0, <1>3, RequestFields DEF UpdateCommit, NoRequest
  <2>1. CASE sensors[q.sensor] = "absent"
    <3>1. requests'[r].pc = "none" /\ UNCHANGED sensors
      BY <1>3, <2>0, <2>1, SetRequestEffect DEF UpdateCommit, NoRequest, WriteFlag
    <3>2. Unannounced(s) => Unannounced(s)' BY <1>0, <2>0, <3>1 DEF Unannounced
    <3> QED BY <1>0, <2>0, <3>1, <3>2, AnnouncedFrame DEF RequestWriting
  <2>2. CASE sensors[q.sensor] # "absent"
    <3>1. requests'[r] = [q EXCEPT !.pc = "updated"]
      BY <1>3, <2>2, SetRequestEffect DEF UpdateCommit
    <3>2. /\ requests'[r].pc = "updated" /\ requests'[r].sensor = q.sensor
          /\ Wanted(requests'[r]) = Wanted(q)
      BY <1>0, <2>0, <3>1, RequestFields DEF Wanted
    <3>3. Unannounced(s) => Unannounced(s)' BY <1>0, <2>0 DEF Unannounced
    <3>4. CASE q.sensor # s
      BY <1>0, <2>0, <3>2, <3>3, <3>4, AnnouncedFrame DEF RequestWriting, WriteFlag
    <3>5. CASE q.sensor = s
      <4> SUFFICES ASSUME s \notin raced' PROVE AnnouncedFor(s)' BY DEF AnnouncedFor
      <4>1. OneWriter(s) /\ RequestView(r, s) BY <2>0, <2>2, <3>5 DEF AnnouncedFor
      <4>2. ~ListenerWriting(s) /\ \A y \in Requests \ {r} : ~RequestWriting(y, s)
        BY <2>0, <3>5, <4>1 DEF OneWriter, RequestWriting
      <4>3. ~ListenerWriting(s)' BY <1>0, <4>2 DEF ListenerWriting
      <4>4. \A y \in Requests \ {r} : ~RequestWriting(y, s)'
        BY <1>0, <4>2 DEF RequestWriting
      <4>5. OneWriter(s)' BY <4>3, <4>4 DEF OneWriter
      <4>6. sensors'[s] = Wanted(q)
        BY <1>0, <2>0, <2>2, <3>5, <4>1 DEF WriteFlag, RequestView
      <4>7. RequestView(r, s)' BY <3>2, <4>6 DEF RequestView
      <4>8. ListenerView(s)' BY <4>3 DEF ListenerView, ListenerWriting
      <4>9. Unannounced(s)' BY <3>2, <3>5 DEF Unannounced
      <4> QED BY <4>4, <4>5, <4>7, <4>8, <4>9 DEF AnnouncedFor, RequestView, RequestWriting
    <3> QED BY <3>4, <3>5
  <2> QED BY <2>1, <2>2
<1>4. CASE UpdateAnnounce(r)
  <2> DEFINE q == requests[r]
  <2>0. /\ q.pc = "updated" /\ requests'[r].pc = "none" /\ UNCHANGED <<sensors, raced>>
        /\ announced' = [announced EXCEPT ![q.sensor] = Wanted(q)]
    BY <1>4, SetRequestEffect DEF UpdateAnnounce, NoRequest
  <2>1. CASE q.sensor # s
    <3>1. Unannounced(s) => Unannounced(s)' BY <1>0, <2>0, <2>1 DEF Unannounced
    <3> QED BY <1>0, <2>0, <2>1, <3>1, AnnouncedFrame DEF RequestWriting
  <2>2. CASE q.sensor = s /\ sensors[s] = "absent"
    BY <1>0, <2>0, <2>2, AnnouncedFrame DEF RequestWriting
  <2>3. CASE q.sensor = s /\ sensors[s] # "absent"
    <3> SUFFICES ASSUME s \notin raced' PROVE AnnouncedFor(s)' BY DEF AnnouncedFor
    <3>1. OneWriter(s) /\ RequestView(r, s) BY <2>0, <2>3 DEF AnnouncedFor
    <3>2. ~ListenerWriting(s) /\ \A y \in Requests \ {r} : ~RequestWriting(y, s)
      BY <2>0, <2>3, <3>1 DEF OneWriter, RequestWriting
    <3>3. ~ListenerWriting(s)' BY <1>0, <3>2 DEF ListenerWriting
    <3>4. \A y \in Requests : ~RequestWriting(y, s)'
      BY <1>0, <2>0, <3>2 DEF RequestWriting
    <3>5. announced'[s] = sensors'[s] BY <1>0, <2>0, <2>3, <3>1 DEF RequestView
    <3> QED BY <3>3, <3>4, <3>5 DEF AnnouncedFor, OneWriter, ListenerView, ListenerWriting,
               RequestView, RequestWriting
  <2> QED BY <2>1, <2>2, <2>3
<1> QED BY <1>1, <1>2, <1>3, <1>4 DEF Rest

(* While nobody is writing a sensor, the last SENSOR_STATUS_CHANGED told    *)
(* what the table holds, unless two writers overlapped or an event was     *)
(* lost.                                                                   *)
THEOREM EventsTellTheTable == Spec => []AnnouncedStatusIsCurrent
<1>1. Init => TypeInv /\ AnnouncedInv
  <2>1. ASSUME Init, NEW s \in Sensors PROVE AnnouncedFor(s)
    BY <2>1 DEF Init, AnnouncedFor, OneWriter, RequestWriting, NoRequest
  <2> QED BY <2>1, InitTypeInv DEF AnnouncedInv
<1>2. TypeInv /\ AnnouncedInv /\ [Next]_vars => (TypeInv /\ AnnouncedInv)'
  <2>1. ASSUME TypeInv, AnnouncedInv, [Next]_vars, NEW s \in Sensors PROVE AnnouncedFor(s)'
    <3>1. AnnouncedFor(s) BY <2>1 DEF AnnouncedInv
    <3> QED BY <2>1, <3>1, SurroundingsAnnounced, ListenerAnnounced, RequestAnnounced
            DEF Next, Listener
  <2> QED BY <2>1, NextTypeInv DEF AnnouncedInv
<1>3. AnnouncedInv => AnnouncedStatusIsCurrent
  BY DEF AnnouncedInv, AnnouncedFor, AnnouncedStatusIsCurrent, Unannounced, ListenerWriting,
     RequestWriting
<1> QED BY <1>1, <1>2, <1>3, PTL DEF Spec

-----------------------------------------------------------------------------
(* No reading is stored twice: each is in one place, the queue, the hands   *)
(* of the listener or the table, and a device numbers them upwards.        *)

Carries(m, n) == m.kind # "status" /\ m.value = n

\* Readings that are in s's queue are old enough, not stored, and there once.
QueueFresh(s) ==
  \A i \in 1 .. Len(inbox[s]), n \in Readings :
    Carries(inbox[s][i], n) =>
      /\ n <= published[s] /\ <<s, n>> \notin stored
      /\ \A j \in 1 .. Len(inbox[s]) : Carries(inbox[s][j], n) => j = i

InHand(s, n) ==
  /\ lpc \in {"lookup", "create", "created", "insert"}
  /\ current.sensor = s /\ Carries(current.msg, n)

HandFresh(s) ==
  \A n \in Readings : InHand(s, n) =>
    /\ n <= published[s] /\ <<s, n>> \notin stored
    /\ \A i \in 1 .. Len(inbox[s]) : ~Carries(inbox[s][i], n)

TableFresh(s) == \A n \in Readings : <<s, n>> \in stored => n <= published[s]

FreshFor(s) == QueueFresh(s) /\ HandFresh(s) /\ TableFresh(s)

FreshInv == \A s \in Sensors : FreshFor(s)

LEMMA StatusCarriesNothing == \A v, n : ~Carries(Status(v), n)
  BY DEF Carries, Status

(* A step that adds nothing to the table, takes nothing into the hand and  *)
(* leaves the queue alone.                                                 *)
LEMMA FreshFrame ==
  ASSUME NEW s \in Sensors, FreshFor(s), inbox'[s] = inbox[s], stored' = stored,
         published'[s] = published[s],
         \A n \in Readings : InHand(s, n)' => InHand(s, n)
  PROVE  FreshFor(s)'
  BY DEF FreshFor, QueueFresh, HandFresh, TableFresh

(* A status appended to a queue changes nothing about its readings.         *)
LEMMA FreshStatus ==
  ASSUME TypeInv, FreshInv, NEW x \in Sensors, NEW s \in Sensors, NEW v \in Statuses,
         Deliver(x, Status(v)), UNCHANGED <<published, listener, stored>>
  PROVE  FreshFor(s)'
<1>0. FreshFor(s) /\ inbox[s] \in Seq(Messages)
  BY DEF FreshInv, TypeInv, TypeOK
<1>1. CASE inbox'[s] = inbox[s]
  BY <1>0, <1>1, FreshFrame DEF InHand, listener
<1>2. CASE inbox'[s] = Append(inbox[s], Status(v))
  <2>1. /\ Len(inbox'[s]) = Len(inbox[s]) + 1 /\ Len(inbox[s]) \in Nat
        /\ \A i \in 1 .. Len(inbox[s]) : inbox'[s][i] = inbox[s][i]
        /\ inbox'[s][Len(inbox[s]) + 1] = Status(v)
    BY <1>0, <1>2, AppendFacts, StatusIsMessage
  <2>2. \A i \in 1 .. Len(inbox'[s]), n \in Readings :
          Carries(inbox'[s][i], n) => i \in 1 .. Len(inbox[s]) /\ Carries(inbox[s][i], n)
    BY <2>1, StatusCarriesNothing
  <2>3. QueueFresh(s)' BY <1>0, <2>2 DEF FreshFor, QueueFresh
  <2>4. HandFresh(s)' BY <1>0, <2>2 DEF FreshFor, HandFresh, InHand, listener
  <2> QED BY <1>0, <2>3, <2>4 DEF FreshFor, TableFresh
<1> QED BY <1>1, <1>2 DEF Deliver, TypeInv, TypeOK

(* The next reading of a device is younger than all of it that is anywhere. *)
LEMMA FreshPublish ==
  ASSUME TypeInv, FreshInv, NEW x \in Sensors, NEW s \in Sensors, DevicePublish(x)
  PROVE  FreshFor(s)'
<1> USE DEF listener, tables
<1>0. /\ FreshFor(s) /\ inbox[s] \in Seq(Messages)
      /\ published[s] \in Nat /\ published[s] + 1 \in Nat
      /\ stored' = stored /\ lpc' = lpc /\ current' = current
      /\ \A n \in Readings : n \in Nat
  BY ParametersAssumption DEF FreshInv, TypeInv, TypeOK, DevicePublish,
     Seen!Publish, Readings
<1>1. CASE s # x
  BY <1>0, <1>1, FreshFrame DEF DevicePublish,
     Seen!Publish, Deliver, TypeInv, TypeOK, InHand
<1>2. CASE s = x
  <2>1. PICK m \in {Reading(published[s] + 1), Malformed(published[s] + 1)} : Deliver(s, m)
    BY <1>2 DEF DevicePublish, Seen!Publish
  <2>2. m \in Messages
    BY <1>2, ParametersAssumption, ReadingIsMessage DEF DevicePublish,
       Seen!Publish, TypeInv, TypeOK, Readings
  <2>3. \A n \in Readings : Carries(m, n) => n = published[s] + 1
    BY DEF Carries, Reading, Malformed
  <2>4. published'[s] = published[s] + 1
    BY <1>2 DEF DevicePublish, Seen!Publish, TypeInv, TypeOK
  <2>5. TableFresh(s)' BY <1>0, <2>4 DEF FreshFor, TableFresh
  <2>6. CASE ~linkUp
    <3>1. inbox' = inbox BY <2>1, <2>6 DEF Deliver
    <3> QED BY <1>0, <2>4, <2>5, <3>1 DEF FreshFor, QueueFresh, HandFresh, InHand
  <2>7. CASE linkUp
    <3>1. inbox'[s] = Append(inbox[s], m) BY <2>1, <2>7 DEF Deliver, TypeInv, TypeOK
    <3>2. /\ Len(inbox'[s]) = Len(inbox[s]) + 1 /\ Len(inbox[s]) \in Nat
          /\ \A i \in 1 .. Len(inbox[s]) : inbox'[s][i] = inbox[s][i]
          /\ inbox'[s][Len(inbox[s]) + 1] = m
      BY <1>0, <2>2, <3>1, AppendFacts
    <3>3. \A i \in 1 .. Len(inbox'[s]), n \in Readings : Carries(inbox'[s][i], n) =>
            \/ i \in 1 .. Len(inbox[s]) /\ Carries(inbox[s][i], n) /\ n <= published[s]
            \/ i = Len(inbox[s]) + 1 /\ n = published[s] + 1
      <4> TAKE i \in 1 .. Len(inbox'[s]), n \in Readings
      <4> HAVE Carries(inbox'[s][i], n)
      <4>1. CASE i = Len(inbox[s]) + 1 BY <2>3, <3>2, <4>1
      <4>2. CASE i \in 1 .. Len(inbox[s])
        <5>1. Carries(inbox[s][i], n) BY <3>2, <4>2
        <5> QED BY <1>0, <4>2, <5>1 DEF FreshFor, QueueFresh
      <4> QED BY <3>2, <4>1, <4>2
    <3>4. QueueFresh(s)'
      <4> SUFFICES ASSUME NEW i \in 1 .. Len(inbox'[s]), NEW n \in Readings,
                          Carries(inbox'[s][i], n)
                   PROVE  /\ n <= published'[s] /\ <<s, n>> \notin stored'
                          /\ \A j \in 1 .. Len(inbox'[s]) : Carries(inbox'[s][j], n) => j = i
        BY DEF QueueFresh
      <4>1. CASE i \in 1 .. Len(inbox[s]) /\ Carries(inbox[s][i], n) /\ n <= published[s]
        <5>1. \A j \in 1 .. Len(inbox'[s]) : Carries(inbox'[s][j], n) =>
                j \in 1 .. Len(inbox[s]) /\ Carries(inbox[s][j], n)
          <6>1. n # published[s] + 1 BY <1>0, <4>1
          <6> QED BY <3>3, <6>1
        <5>2. /\ <<s, n>> \notin stored
              /\ \A j \in 1 .. Len(inbox[s]) : Carries(inbox[s][j], n) => j = i
          BY <1>0, <4>1 DEF FreshFor, QueueFresh
        <5>3. n <= published'[s] BY <1>0, <2>4, <4>1
        <5> QED BY <1>0, <5>1, <5>2, <5>3
      <4>2. CASE i = Len(inbox[s]) + 1 /\ n = published[s] + 1
        <5>1. \A j \in 1 .. Len(inbox'[s]) : Carries(inbox'[s][j], n) => j = i
          BY <1>0, <3>3, <4>2
        <5> QED BY <1>0, <2>4, <4>2, <5>1 DEF FreshFor, TableFresh
      <4> QED BY <3>3, <4>1, <4>2
    <3>5. HandFresh(s)'
      BY <1>0, <2>4, <3>3 DEF FreshFor, HandFresh, InHand
    <3> QED BY <2>5, <3>4, <3>5 DEF FreshFor
  <2> QED BY <2>6, <2>7
<1> QED BY <1>1, <1>2

(* A reading that a status overtakes is in the queue as before.              *)
LEMMA FreshOvertake ==
  ASSUME TypeInv, FreshInv, NEW x \in Sensors, NEW s \in Sensors, Overtake(x)
  PROVE  FreshFor(s)'
<1> USE DEF listener, tables, device
<1>0. /\ FreshFor(s) /\ inbox[s] \in Seq(Messages)
      /\ stored' = stored /\ lpc' = lpc /\ current' = current /\ published' = published
  BY DEF FreshInv, TypeInv, TypeOK, Overtake
<1>1. CASE s # x
  BY <1>0, <1>1, FreshFrame DEF Overtake, TypeInv, TypeOK, InHand
<1>2. CASE s = x
  <2> DEFINE q == inbox[s]
  <2>1. PICK i \in 1 .. Len(q) - 1 :
          q[i + 1].kind = "status" /\ inbox' = [inbox EXCEPT ![s] = Swapped(@, i)]
    BY <1>2 DEF Overtake
  <2>2. /\ i \in 1 .. Len(q) /\ i + 1 \in 1 .. Len(q) /\ Len(q) \in Nat /\ i \in Nat
        /\ \A n : ~Carries(q[i + 1], n)
    BY <1>0, <2>1 DEF Carries
  <2>3. inbox'[s] = [q EXCEPT ![i] = q[i + 1], ![i + 1] = q[i]]
    BY <2>1 DEF Swapped, TypeInv, TypeOK
  <2>4. /\ Len(inbox'[s]) = Len(q)
        /\ inbox'[s][i] = q[i + 1] /\ inbox'[s][i + 1] = q[i]
        /\ \A j \in 1 .. Len(q) : j # i /\ j # i + 1 => inbox'[s][j] = q[j]
    BY <1>0, <2>2, <2>3
  <2>5. \A j \in 1 .. Len(q), n \in Readings : Carries(inbox'[s][j], n) =>
          \/ j = i + 1 /\ Carries(q[i], n)
          \/ j # i /\ j # i + 1 /\ Carries(q[j], n)
    BY <2>2, <2>4
  <2>6. QueueFresh(s)'
    <3> SUFFICES ASSUME NEW j \in 1 .. Len(q), NEW n \in Readings, Carries(inbox'[s][j], n)
                 PROVE  /\ n <= published[s] /\ <<s, n>> \notin stored
                        /\ \A k \in 1 .. Len(q) : Carries(inbox'[s][k], n) => k = j
      BY <1>0, <2>4 DEF QueueFresh
    <3> DEFINE o == IF j = i + 1 THEN i ELSE j
    <3>1. o \in 1 .. Len(q) /\ Carries(q[o], n) /\ j # i
      BY <2>2, <2>5
    <3>2. /\ n <= published[s] /\ <<s, n>> \notin stored
          /\ \A k \in 1 .. Len(q) : Carries(q[k], n) => k = o
      BY <1>0, <3>1 DEF FreshFor, QueueFresh
    <3>3. \A k \in 1 .. Len(q) : Carries(inbox'[s][k], n) => k = j
      <4> TAKE k \in 1 .. Len(q)
      <4> HAVE Carries(inbox'[s][k], n)
      <4>1. \/ k = i + 1 /\ Carries(q[i], n)
            \/ k # i /\ k # i + 1 /\ Carries(q[k], n)
        BY <2>5
      <4> QED BY <2>2, <3>1, <3>2, <4>1
    <3> QED BY <3>2, <3>3
  <2>7. HandFresh(s)'
    <3>1. \A n \in Readings : InHand(s, n)' => InHand(s, n) BY <1>0 DEF InHand
    <3>2. \A n \in Readings, j \in 1 .. Len(q) :
            Carries(inbox'[s][j], n) => \E o \in 1 .. Len(q) : Carries(q[o], n)
      BY <2>2, <2>5
    <3> QED BY <1>0, <2>4, <3>1, <3>2 DEF FreshFor, HandFresh
  <2> QED BY <1>0, <2>6, <2>7 DEF FreshFor, TableFresh
<1> QED BY <1>1, <1>2

(* Taking a message moves its reading from the queue to the hand.           *)
LEMMA FreshReceive ==
  ASSUME TypeInv, FreshInv, NEW x \in Sensors, NEW s \in Sensors, Receive(x)
  PROVE  FreshFor(s)'
<1> USE DEF listener, tables, device
<1>0. /\ FreshFor(s) /\ inbox[s] \in Seq(Messages)
      /\ stored' = stored /\ published' = published /\ lpc = "idle"
  BY DEF FreshInv, TypeInv, TypeOK, Receive
<1>1. CASE s # x
  <2>1. \A n \in Readings : ~InHand(s, n)'
    BY <1>0, <1>1 DEF Receive, InHand
  <2> QED BY <1>0, <1>1, <2>1, FreshFrame DEF Receive, TypeInv, TypeOK
<1>2. CASE s = x
  <2> DEFINE q == inbox[s]
  <2>1. q # <<>> /\ inbox'[s] = Tail(q)
    BY <1>2 DEF Receive, TypeInv, TypeOK
  <2>2. /\ Len(q) \in Nat \ {0} /\ Len(inbox'[s]) = Len(q) - 1 /\ Head(q) = q[1]
        /\ \A i \in 1 .. Len(q) - 1 : inbox'[s][i] = q[i + 1]
    BY <1>0, <2>1, TailFacts
  <2>3. QueueFresh(s)'
    <3> SUFFICES ASSUME NEW i \in 1 .. Len(q) - 1, NEW n \in Readings,
                        Carries(inbox'[s][i], n)
                 PROVE  /\ n <= published[s] /\ <<s, n>> \notin stored
                        /\ \A j \in 1 .. Len(q) - 1 : Carries(inbox'[s][j], n) => j = i
      BY <1>0, <2>2 DEF QueueFresh
    <3>1. Carries(q[i + 1], n) /\ i + 1 \in 1 .. Len(q) BY <2>2
    <3>2. /\ n <= published[s] /\ <<s, n>> \notin stored
          /\ \A j \in 1 .. Len(q) : Carries(q[j], n) => j = i + 1
      BY <1>0, <3>1 DEF FreshFor, QueueFresh
    <3>3. ASSUME NEW j \in 1 .. Len(q) - 1, Carries(inbox'[s][j], n) PROVE j = i
      <4>1. Carries(q[j + 1], n) /\ j + 1 \in 1 .. Len(q) BY <2>2, <3>3
      <4>2. j + 1 = i + 1 BY <3>2, <4>1
      <4> QED BY <4>2
    <3> QED BY <3>2, <3>3
  <2>4. HandFresh(s)'
    <3> SUFFICES ASSUME NEW n \in Readings, InHand(s, n)'
                 PROVE  /\ n <= published[s] /\ <<s, n>> \notin stored
                        /\ \A i \in 1 .. Len(q) - 1 : ~Carries(inbox'[s][i], n)
      BY <1>0, <2>2 DEF HandFresh
    <3>1. Carries(q[1], n) /\ 1 \in 1 .. Len(q)
      BY <1>0, <1>2, <2>2 DEF Receive, InHand
    <3>2. /\ n <= published[s] /\ <<s, n>> \notin stored
          /\ \A j \in 1 .. Len(q) : Carries(q[j], n) => j = 1
      BY <1>0, <3>1 DEF FreshFor, QueueFresh
    <3>3. ASSUME NEW i \in 1 .. Len(q) - 1, Carries(inbox'[s][i], n) PROVE FALSE
      <4>1. Carries(q[i + 1], n) /\ i + 1 \in 1 .. Len(q) /\ i + 1 # 1 BY <2>2, <3>3
      <4> QED BY <3>2, <4>1
    <3> QED BY <3>2, <3>3
  <2> QED BY <1>0, <2>3, <2>4 DEF FreshFor, TableFresh
<1> QED BY <1>1, <1>2

(* A subscription starts with statuses alone, and a restart with nothing.   *)
LEMMA FreshConnection ==
  ASSUME TypeInv, FreshInv, NEW s \in Sensors, Subscribe \/ LinkError \/ Restart
  PROVE  FreshFor(s)'
<1> USE DEF tables, device
<1>0. /\ FreshFor(s) /\ stored' = stored /\ published' = published
      /\ lpc' \in {"down", "idle"}
  BY DEF FreshInv, Subscribe, LinkError, Restart
<1>1. inbox'[s] \in {<<>>, <<Status(retained[s])>>}
  BY DEF Subscribe, LinkError, Restart
<1>2. \A i \in 1 .. Len(inbox'[s]), n \in Readings : ~Carries(inbox'[s][i], n)
  BY <1>1, StatusCarriesNothing
<1>3. QueueFresh(s)' BY <1>2 DEF QueueFresh
<1>4. HandFresh(s)' BY <1>0 DEF HandFresh, InHand
<1> QED BY <1>0, <1>3, <1>4 DEF FreshFor, TableFresh

(* The reading that is inserted leaves the hand for the table.              *)
LEMMA FreshInsert ==
  ASSUME TypeInv, FreshInv, NEW s \in Sensors, InsertReading
  PROVE  FreshFor(s)' /\ Handled \notin stored
<1> USE DEF tables, device
<1> DEFINE c == current.sensor
           v == current.msg.value
<1>1. c \in Sensors /\ current.msg.kind = "data" /\ v \in Readings
  BY MessageKinds DEF InsertReading, TypeInv, HandlingOK
<1>2. InHand(c, v) BY <1>1 DEF InHand, Carries, InsertReading
<1>3. /\ v <= published[c] /\ <<c, v>> \notin stored
      /\ \A i \in 1 .. Len(inbox[c]) : ~Carries(inbox[c][i], v)
  BY <1>1, <1>2 DEF FreshInv, FreshFor, HandFresh
<1>4. /\ FreshFor(s) /\ inbox' = inbox /\ published' = published /\ lpc' = "notify"
      /\ stored' = stored \cup {<<c, v>>}
  BY DEF FreshInv, InsertReading, ListenerGoto, Handled
<1>5. QueueFresh(s)' BY <1>3, <1>4 DEF FreshFor, QueueFresh
<1>6. HandFresh(s)' BY <1>4 DEF HandFresh, InHand
<1>7. TableFresh(s)' BY <1>3, <1>4 DEF FreshFor, TableFresh
<1> QED BY <1>3, <1>5, <1>6, <1>7 DEF FreshFor, Handled

LEMMA NextFreshInv == TypeInv /\ FreshInv /\ [Next]_vars => FreshInv'
<1> SUFFICES ASSUME TypeInv, FreshInv, [Next]_vars, NEW s \in Sensors
             PROVE  FreshFor(s)'
  BY DEF FreshInv
<1> USE DEF tables, device, listener
<1>0. FreshFor(s) BY DEF FreshInv
<1>1. CASE UNCHANGED vars BY <1>0, <1>1, FreshFrame DEF vars, InHand
<1>2. ASSUME NEW x \in Sensors, DeviceConnect(x) \/ DeviceLost(x) \/ DeviceFlap(x)
      PROVE  FreshFor(s)'
  BY <1>2, FreshStatus DEF DeviceConnect, DeviceLost, DeviceFlap,
     Seen!Announce, Seen!LastWill, Statuses
<1>3. CASE LinkDrop BY <1>0, <1>3, FreshFrame DEF LinkDrop, InHand
<1>4. CASE StatusLookup \/ StatusLoad \/ StatusCommit \/ StatusAnnounce \/ ListenerFail
  BY <1>0, <1>4, FreshFrame DEF StatusLookup, StatusLoad, StatusCommit, StatusAnnounce,
     ListenerFail, ListenerGoto, InHand
<1>5. CASE \/ DataLookup \/ CreatePlaceholder \/ CreatedDispatch
           \/ DispatchReceived \/ DispatchAlert \/ CountReading
  BY <1>0, <1>5, FreshFrame DEF DataLookup, CreatePlaceholder, CreatedDispatch,
     DispatchReceived, DispatchAlert, CountReading, ListenerGoto, InHand
<1>6. ASSUME NEW r \in Requests, Rest(r) \/ RequestFail(r) PROVE FreshFor(s)'
  BY <1>0, <1>6, FreshFrame DEF Rest, UpdateLoad, UpdateCommit, UpdateAnnounce,
     DeleteLoad, DeleteCommit, DeleteAnnounce, RequestFail, InHand
<1> QED BY <1>1, <1>2, <1>3, <1>4, <1>5, <1>6, FreshPublish, FreshOvertake, FreshReceive,
           FreshConnection, FreshInsert DEF Next, Listener

(* Every step of the ingestion is one of the pipeline or none at all: what  *)
(* the refinement mapping calls the hand and its stage is the position of   *)
(* the handler, and a message given up is a stage never reached.           *)
LEMMA PipelineStep ==
  ASSUME TypeInv, FreshInv, Next
  PROVE  [Pipeline!Next]_(Pipeline!vars)
<1> USE DEF tables, mqttState, listener, Stage, Pipeline!vars
<1>1. ASSUME NEW s \in Sensors,
             \/ DeviceConnect(s) \/ DeviceLost(s) \/ DeviceFlap(s) \/ DevicePublish(s)
             \/ Overtake(s)
      PROVE  UNCHANGED Pipeline!vars
  BY <1>1 DEF DeviceConnect, DeviceLost, DeviceFlap, DevicePublish,
     Seen!Announce, Seen!LastWill, Seen!Publish, Overtake, Handled
<1>2. CASE LinkDrop BY <1>2 DEF LinkDrop, Handled
<1>3. CASE Subscribe BY <1>3 DEF Subscribe
<1>4. CASE LinkError BY <1>4 DEF LinkError
<1>5. ASSUME NEW s \in Sensors, Receive(s) PROVE UNCHANGED Pipeline!vars
  BY <1>5 DEF Receive
<1>6. CASE StatusLookup \/ StatusLoad \/ StatusCommit \/ StatusAnnounce
  BY <1>6 DEF StatusLookup, StatusLoad, StatusCommit, StatusAnnounce, ListenerGoto
<1>7. CASE DataLookup \/ CreatePlaceholder \/ CreatedDispatch
  BY <1>7 DEF DataLookup, CreatePlaceholder, CreatedDispatch, ListenerGoto
<1>8. CASE InsertReading
  <2>1. Handled \in Sensors \X Readings BY <1>8, HandledType DEF InsertReading
  <2>2. Handled \notin stored
    <3>1. current.sensor \in Sensors BY <1>8 DEF InsertReading, TypeInv, HandlingOK
    <3> QED BY <1>8, <3>1, FreshInsert
  <2>3. Handled' = Handled BY <1>8 DEF InsertReading, ListenerGoto, Handled
  <2>4. Pipeline!Store(Handled)
    BY <1>8, <2>2, <2>3 DEF InsertReading, ListenerGoto, Pipeline!Store
  <2> QED BY <2>1, <2>4 DEF Pipeline!Next
<1>9. CASE DispatchReceived
  <2>1. Handled' = Handled BY <1>9 DEF DispatchReceived, ListenerGoto, Handled
  <2> QED BY <1>9, <2>1 DEF DispatchReceived, ListenerGoto, Pipeline!Next, Pipeline!Notify
<1>10. CASE DispatchAlert
  <2>1. Handled' = Handled BY <1>10 DEF DispatchAlert, ListenerGoto, Handled
  <2> QED BY <1>10, <2>1 DEF DispatchAlert, ListenerGoto, Pipeline!Next, Pipeline!Alert
<1>11. CASE CountReading
  BY <1>11 DEF CountReading, ListenerGoto, Pipeline!Next, Pipeline!Count, Pipeline!Release
<1>12. CASE ListenerFail
  BY <1>12 DEF ListenerFail, ListenerGoto, Pipeline!Next, Pipeline!GiveUp, Pipeline!Release
<1>13. ASSUME NEW r \in Requests, Rest(r) \/ RequestFail(r)
       PROVE  UNCHANGED Pipeline!vars
  BY <1>13 DEF Rest, UpdateLoad, UpdateCommit, UpdateAnnounce, DeleteLoad, DeleteCommit,
     DeleteAnnounce, RequestFail, Handled
<1>14. CASE Restart
  BY <1>14 DEF Restart, Pipeline!Next, Pipeline!Reset, Pipeline!Release
<1> QED BY <1>1, <1>2, <1>3, <1>4, <1>5, <1>6, <1>7, <1>8, <1>9, <1>10, <1>11, <1>12,
           <1>13, <1>14 DEF Next, Listener

(* The ingestion does to readings what ReadingPipeline says: each is stored *)
(* at most once, before anyone hears of it, and what a failure or a restart *)
(* cuts off is never taken up again.                                       *)
THEOREM ReadingsPassInOrder == Spec => ImplementsPipeline
<1>1. Init => Pipeline!Init
  BY DEF Init, Pipeline!Init, Stage
<1>2. Init => TypeInv /\ FreshInv
  <2>1. ASSUME Init, NEW s \in Sensors PROVE FreshFor(s)
    <3>1. inbox[s] = <<>> /\ stored = {} /\ lpc = "down" BY <2>1 DEF Init
    <3> QED BY <3>1 DEF FreshFor, QueueFresh, HandFresh, TableFresh, InHand
  <2> QED BY <2>1, InitTypeInv DEF FreshInv
<1>3. TypeInv /\ FreshInv /\ [Next]_vars => (TypeInv /\ FreshInv)'
  BY NextTypeInv, NextFreshInv
<1>4. TypeInv /\ FreshInv /\ [Next]_vars => [Pipeline!Next]_(Pipeline!vars)
  <2>1. UNCHANGED vars => UNCHANGED Pipeline!vars
    BY DEF vars, tables, mqttState, listener, Pipeline!vars, Stage, Handled
  <2> QED BY <2>1, PipelineStep
<1> QED BY <1>1, <1>2, <1>3, <1>4, PTL DEF Spec, Pipeline!Spec, ImplementsPipeline

=============================================================================
