---------------------------- MODULE SensorIngest ----------------------------
(***************************************************************************)
(* The ingestion path: devices publish to the MQTT broker, the server's    *)
(* single listener task consumes the messages one at a time and writes the *)
(* tables sensors and sensor_data, while REST requests edit and delete     *)
(* sensors concurrently.  Every await of the code is a point where another *)
(* task runs, so a handler is one action per database or dispatch call.    *)
(*                                                                         *)
(* A row of sensors is reduced to its is_active flag, a reading to its     *)
(* publication number.  dispatcher.dispatch is one step here (the event is *)
(* emitted or the call raises); what it does is module WebhookDelivery.    *)
(***************************************************************************)
EXTENDS Naturals, Sequences

CONSTANTS
  Sensors,      \* device identities
  Requests,     \* concurrent REST requests on /sensor/metadata/admin
  UpdateKinds,  \* what a REST update may set: "meta", "active", "inactive"
  QoS2,         \* TRUE: MQTT_QOS = 2, readings may arrive after a later status
  MaxReadings,  \* bound: readings one device publishes
  MaxSessions,  \* bound: times one device connects
  MaxDrops,     \* bound: times the listener loses the broker
  MaxRestarts,  \* bound: times the server process restarts
  MaxFailures   \* bound: times a database or dispatch call raises

ASSUME ParametersAssumption ==
  /\ UpdateKinds \subseteq {"meta", "active", "inactive"}
  /\ QoS2 \in BOOLEAN
  /\ {MaxReadings, MaxSessions, MaxDrops, MaxRestarts, MaxFailures} \subseteq Nat

VARIABLES
  deviceUp,  \* the device holds an MQTT session
  published, \* readings the device has published
  sessions,  \* sessions the device has opened
  retained,  \* last status the broker retains for the device
  inbox,     \* messages of one device on their way to the listener
  linkUp,    \* the broker sees the listener's subscription
  lpc,       \* next call of the listener task
  current,   \* message the listener is handling, with its sensor
  seen,      \* is_active as the listener's transaction read it
  sensors,   \* table sensors
  stored,    \* table sensor_data: <<sensor, reading>>
  notified,  \* readings sent to SENSOR_DATA_RECEIVED
  alerted,   \* readings sent to ALERT_TRIGGERED
  running,   \* mqtt_state.is_running
  counted,   \* readings counted in mqtt_state.message_count
  announced, \* last status sent to SENSOR_STATUS_CHANGED
  requests,  \* REST requests in progress
  budget,    \* what is left of the three failure bounds
  deleted,   \* history: sensors a REST request has deleted
  excused,   \* history: sensors whose flag may differ from the broker's
  raced      \* history: sensors two writers of which overlapped

device    == <<deviceUp, published, sessions, retained>>
listener  == <<lpc, current, seen>>
tables    == <<sensors, stored>>
mqttState == <<running, counted>>
history   == <<deleted, excused, raced>>
vars == <<device, inbox, linkUp, listener, tables, notified, alerted,
          mqttState, announced, requests, budget, history>>

Rows     == {"absent", "active", "inactive"}
Statuses == {"online", "offline"}
Readings == 1 .. MaxReadings

Status(v)     == [kind |-> "status", value |-> v]
Reading(n)    == [kind |-> "data", value |-> n]
Malformed(n)  == [kind |-> "malformed", value |-> n]
Messages == {Status(v) : v \in Statuses}
              \cup {Reading(n) : n \in Readings} \cup {Malformed(n) : n \in Readings}

\* The flag a status message asks for: any text but "online" means inactive.
Target(v) == IF v = "online" THEN "active" ELSE "inactive"

NoMessage == [sensor |-> "none", msg |-> Status("offline")]

NoRequest == [pc |-> "none"]
RequestStates ==
  {NoRequest}
    \cup [pc : {"loaded", "updated"}, sensor : Sensors, kind : UpdateKinds,
          row : {"active", "inactive"}]
    \cup [pc : {"deleting", "removed"}, sensor : Sensors]

ListenerSteps == {"down", "idle", "lookup", "load", "commit", "announce",
                  "create", "created", "insert", "notify", "alert", "count"}

-----------------------------------------------------------------------------

Init ==
  /\ deviceUp  = [s \in Sensors |-> FALSE]
  /\ published = [s \in Sensors |-> 0]
  /\ sessions  = [s \in Sensors |-> 0]
  /\ retained  = [s \in Sensors |-> "none"]
  /\ inbox     = [s \in Sensors |-> <<>>]
  /\ linkUp = FALSE
  /\ lpc = "down"
  /\ current = NoMessage
  /\ seen = "absent"
  /\ sensors = [s \in Sensors |-> "absent"]
  /\ stored = {} /\ notified = {} /\ alerted = {}
  /\ running = FALSE /\ counted = {}
  /\ announced = [s \in Sensors |-> "none"]
  /\ requests  = [r \in Requests |-> NoRequest]
  /\ budget = [drops |-> MaxDrops, restarts |-> MaxRestarts, failures |-> MaxFailures]
  /\ deleted = {} /\ excused = {} /\ raced = {}

-----------------------------------------------------------------------------
(* The devices and the broker.                                             *)

\* A message reaches the listener only while it is subscribed (clean session).
Deliver(s, m) ==
  inbox' = IF linkUp THEN [inbox EXCEPT ![s] = Append(@, m)] ELSE inbox

\* What a device may do to the broker is Presence; here its messages also go to
\* the listener.
Seen == INSTANCE Presence WITH Devices <- Sensors, up <- deviceUp

\* connectToMQTT: a session opens and "online" is published, retained, QoS 1.
DeviceConnect(s) ==
  /\ sessions[s] < MaxSessions
  /\ Seen!Announce(s)
  /\ sessions' = [sessions EXCEPT ![s] = @ + 1]
  /\ Deliver(s, Status("online"))
  /\ UNCHANGED <<linkUp, listener, tables, notified, alerted, mqttState,
                 announced, requests, budget, history>>

\* The session breaks: the broker publishes the last will "offline", retained.
DeviceLost(s) ==
  /\ deviceUp[s]
  /\ Seen!LastWill(s)
  /\ Deliver(s, Status("offline"))
  /\ UNCHANGED <<sessions, linkUp, listener, tables, notified, alerted,
                 mqttState, announced, requests, budget, history>>

\* The session breaks before its "online" has arrived: the last will is all the
\* broker gets to see of it.
DeviceFlap(s) ==
  /\ ~deviceUp[s] /\ sessions[s] < MaxSessions
  /\ Seen!LastWill(s)
  /\ sessions' = [sessions EXCEPT ![s] = @ + 1]
  /\ Deliver(s, Status("offline"))
  /\ UNCHANGED <<linkUp, listener, tables, notified, alerted, mqttState,
                 announced, requests, budget, history>>

\* loop: a reading, not retained.  Without NTP time its timestamp is
\* "0000-00-00 00:00:00", which the server's schema does not accept.
DevicePublish(s) ==
  /\ published[s] < MaxReadings
  /\ Seen!Publish(s)
  /\ \E m \in {Reading(published[s] + 1), Malformed(published[s] + 1)} : Deliver(s, m)
  /\ UNCHANGED <<sessions, linkUp, listener, tables, notified, alerted,
                 mqttState, announced, requests, budget, history>>

Swapped(q, i) == [q EXCEPT ![i] = q[i + 1], ![i + 1] = q[i]]

\* The QoS 2 handshake of a reading lets a later QoS 1 status overtake it.
Overtake(s) ==
  /\ QoS2
  /\ \E i \in 1 .. Len(inbox[s]) - 1 :
       /\ inbox[s][i].kind # "status" /\ inbox[s][i + 1].kind = "status"
       /\ inbox' = [inbox EXCEPT ![s] = Swapped(@, i)]
  /\ excused' = excused \cup {s}
  /\ UNCHANGED <<device, linkUp, listener, tables, notified, alerted,
                 mqttState, announced, requests, budget, deleted, raced>>

LinkDrop ==
  /\ linkUp /\ budget.drops > 0
  /\ linkUp' = FALSE
  /\ budget' = [budget EXCEPT !.drops = @ - 1]
  /\ UNCHANGED <<device, inbox, listener, tables, notified, alerted,
                 mqttState, announced, requests, history>>

-----------------------------------------------------------------------------
(* listen_to_mqtt: connection handling.                                    *)

\* Mutant of Subscribe: a subscription that asks for no retained message.
SubscribeNoRetained ==
  /\ lpc = "down"
  /\ linkUp' = TRUE
  /\ lpc' = "idle"
  /\ inbox' = [s \in Sensors |-> <<>>]
  /\ excused' = {s \in excused : retained[s] = "none"}
  /\ UNCHANGED <<device, current, seen, tables, notified, alerted, mqttState,
                 announced, requests, budget, deleted, raced>>

\* Connect and subscribe; the broker answers with every retained status.
Subscribe ==
  /\ lpc = "down"
  /\ linkUp' = TRUE
  /\ lpc' = "idle"
  /\ inbox' = [s \in Sensors |-> IF retained[s] = "none" THEN <<>>
                                                         ELSE <<Status(retained[s])>>]
  /\ excused' = {s \in excused : retained[s] = "none"}
  /\ UNCHANGED <<device, current, seen, tables, notified, alerted, mqttState,
                 announced, requests, budget, deleted, raced>>

\* MqttError: is_running is cleared, the client and what it queued are gone.
LinkError ==
  /\ lpc = "idle" /\ ~linkUp
  /\ lpc' = "down"
  /\ running' = FALSE
  /\ inbox' = [s \in Sensors |-> <<>>]
  /\ UNCHANGED <<device, linkUp, current, seen, tables, notified, alerted,
                 counted, announced, requests, budget, history>>

-----------------------------------------------------------------------------
(* handle_mqtt_message: one message at a time.                             *)

\* The locals of a handler end with it.
ListenerGoto(step) ==
  /\ lpc' = step
  /\ current' = IF step = "idle" THEN NoMessage ELSE current
  /\ seen' = IF step = "idle" THEN "absent" ELSE seen

\* Take the next message.  A malformed reading fails validation and is dropped.
Receive(s) ==
  /\ lpc = "idle" /\ inbox[s] # <<>>
  /\ inbox' = [inbox EXCEPT ![s] = Tail(@)]
  /\ IF Head(inbox[s]).kind = "malformed"
       THEN UNCHANGED listener
       ELSE /\ lpc' = "lookup"
            /\ current' = [sensor |-> s, msg |-> Head(inbox[s])]
            /\ UNCHANGED seen
  /\ UNCHANGED <<device, linkUp, tables, notified, alerted, mqttState,
                 announced, requests, budget, history>>

\* process_status_message: ensure_sensor_exists(sensor_id, is_active).
StatusLookup ==
  /\ lpc = "lookup" /\ current.msg.kind = "status"
  /\ ListenerGoto(IF sensors[current.sensor] = Target(current.msg.value)
                    THEN "idle" ELSE "load")
  /\ UNCHANGED <<device, inbox, linkUp, tables, notified, alerted, mqttState,
                 announced, requests, budget, history>>

\* Another writer is between its read of sensor s and its dispatch.
ListenerWriting(s) == lpc \in {"commit", "announce"} /\ current.sensor = s
RequestWriting(r, s) ==
  requests[r].pc \in {"loaded", "updated"} /\ requests[r].sensor = s

\* modify_sensor: SELECT; None if the sensor is unknown, and the message ends.
StatusLoad ==
  /\ lpc = "load"
  /\ IF sensors[current.sensor] = "absent"
       THEN ListenerGoto("idle")
       ELSE lpc' = "commit" /\ seen' = sensors[current.sensor] /\ UNCHANGED current
  /\ raced' = IF \E r \in Requests : RequestWriting(r, current.sensor)
                THEN raced \cup {current.sensor} ELSE raced
  /\ UNCHANGED <<device, inbox, linkUp, tables, notified, alerted,
                 mqttState, announced, requests, budget, deleted, excused>>

\* Mutants of WriteFlag: every attribute is written; a missing row is inserted.
WriteFlagAlways(s, read, flag) ==
  IF sensors[s] = "absent" THEN sensors ELSE [sensors EXCEPT ![s] = flag]
WriteFlagUpsert(s, read, flag) ==
  IF read = flag /\ sensors[s] # "absent" THEN sensors ELSE [sensors EXCEPT ![s] = flag]

\* The UPDATE at commit names only attributes that differ from the row read;
\* if the row is gone it raises, and the loop swallows that.
WriteFlag(s, read, flag) ==
  IF sensors[s] = "absent" \/ read = flag THEN sensors
                                          ELSE [sensors EXCEPT ![s] = flag]

\* Mutant of StatusCommit: the change is committed and no event follows.
StatusCommitSilent ==
  /\ lpc = "commit"
  /\ sensors' = WriteFlag(current.sensor, seen, Target(current.msg.value))
  /\ ListenerGoto("idle")
  /\ UNCHANGED <<device, inbox, linkUp, stored, notified, alerted, mqttState,
                 announced, requests, budget, history>>

StatusCommit ==
  /\ lpc = "commit"
  /\ sensors' = WriteFlag(current.sensor, seen, Target(current.msg.value))
  /\ ListenerGoto(IF sensors[current.sensor] = "absent" THEN "idle" ELSE "announce")
  /\ UNCHANGED <<device, inbox, linkUp, stored, notified, alerted, mqttState,
                 announced, requests, budget, history>>

\* dispatch(SENSOR_STATUS_CHANGED) with the session's object.
StatusAnnounce ==
  /\ lpc = "announce"
  /\ announced' = [announced EXCEPT ![current.sensor] = Target(current.msg.value)]
  /\ ListenerGoto("idle")
  /\ UNCHANGED <<device, inbox, linkUp, tables, notified, alerted, mqttState,
                 requests, budget, history>>

\* Mutant of DataLookup: the reading of an unknown sensor is stored at once.
DataLookupNoPlaceholder ==
  /\ lpc = "lookup" /\ current.msg.kind = "data"
  /\ ListenerGoto("insert")
  /\ UNCHANGED <<device, inbox, linkUp, tables, notified, alerted, mqttState,
                 announced, requests, budget, history>>

\* process_sensor_data: ensure_sensor_exists(device_id).
DataLookup ==
  /\ lpc = "lookup" /\ current.msg.kind = "data"
  /\ ListenerGoto(IF sensors[current.sensor] = "absent" THEN "create" ELSE "insert")
  /\ UNCHANGED <<device, inbox, linkUp, tables, notified, alerted, mqttState,
                 announced, requests, budget, history>>

\* create_sensor: the placeholder row, active; a duplicate would end the message.
CreatePlaceholder ==
  /\ lpc = "create"
  /\ IF sensors[current.sensor] = "absent"
       THEN /\ sensors' = [sensors EXCEPT ![current.sensor] = "active"]
            /\ announced' = [announced EXCEPT ![current.sensor] = "none"]
            /\ ListenerGoto("created")
       ELSE ListenerGoto("idle") /\ UNCHANGED <<sensors, announced>>
  /\ raced' = IF \E r \in Requests : RequestWriting(r, current.sensor)
                THEN raced \cup {current.sensor} ELSE raced
  /\ UNCHANGED <<device, inbox, linkUp, stored, notified, alerted, mqttState,
                 requests, budget, deleted, excused>>

\* dispatch(SENSOR_CREATED).
CreatedDispatch ==
  /\ lpc = "created"
  /\ ListenerGoto("insert")
  /\ UNCHANGED <<device, inbox, linkUp, tables, notified, alerted, mqttState,
                 announced, requests, budget, history>>

Handled == <<current.sensor, current.msg.value>>

\* create_sensor_data_entry: insert and commit; device_id is no foreign key.
InsertReading ==
  /\ lpc = "insert"
  /\ stored' = stored \cup {Handled}
  /\ ListenerGoto("notify")
  /\ UNCHANGED <<device, inbox, linkUp, sensors, notified, alerted, mqttState,
                 announced, requests, budget, history>>

DispatchReceived ==
  /\ lpc = "notify"
  /\ notified' = notified \cup {Handled}
  /\ ListenerGoto("alert")
  /\ UNCHANGED <<device, inbox, linkUp, tables, alerted, mqttState, announced,
                 requests, budget, history>>

DispatchAlert ==
  /\ lpc = "alert"
  /\ alerted' = alerted \cup {Handled}
  /\ ListenerGoto("count")
  /\ UNCHANGED <<device, inbox, linkUp, tables, notified, mqttState, announced,
                 requests, budget, history>>

\* The last lines of process_sensor_data: mqtt_state.
CountReading ==
  /\ lpc = "count"
  /\ running' = TRUE
  /\ counted' = counted \cup {Handled}
  /\ ListenerGoto("idle")
  /\ UNCHANGED <<device, inbox, linkUp, tables, notified, alerted, announced,
                 requests, budget, history>>

\* Mutants of ListenerFail: an insert that raises is followed by its events;
\* the exception leaves the loop and ends the task.
ListenerFailContinues ==
  /\ lpc = "insert" /\ budget.failures > 0
  /\ budget' = [budget EXCEPT !.failures = @ - 1]
  /\ ListenerGoto("notify")
  /\ UNCHANGED <<device, inbox, linkUp, tables, notified, alerted, mqttState,
                 announced, requests, history>>
ListenerFailEndsTask ==
  /\ lpc \notin {"down", "idle", "count"} /\ budget.failures > 0
  /\ budget' = [budget EXCEPT !.failures = @ - 1]
  /\ lpc' = "ended"
  /\ UNCHANGED <<device, inbox, linkUp, current, seen, tables, notified, alerted,
                 mqttState, announced, requests, history>>

\* Any database or dispatch call of a handler may raise: the loop logs it and
\* goes on, the message is lost.
ListenerFail ==
  /\ lpc \notin {"down", "idle", "count"} /\ budget.failures > 0
  /\ budget' = [budget EXCEPT !.failures = @ - 1]
  /\ excused' = IF current.msg.kind = "status" /\ lpc # "announce"
                  THEN excused \cup {current.sensor} ELSE excused
  /\ raced' = IF lpc = "announce" THEN raced \cup {current.sensor} ELSE raced
  /\ ListenerGoto("idle")
  /\ UNCHANGED <<device, inbox, linkUp, tables, notified, alerted, mqttState,
                 announced, requests, deleted>>

-----------------------------------------------------------------------------
(* REST: update_sensor and delete_sensor.                                  *)

SetRequest(r, q) == requests' = [requests EXCEPT ![r] = q]

\* modify_sensor: SELECT; an unknown sensor is a 404 and changes nothing.
UpdateLoad(r, s, kind) ==
  /\ requests[r] = NoRequest /\ sensors[s] # "absent"
  /\ SetRequest(r, [pc |-> "loaded", sensor |-> s, kind |-> kind, row |-> sensors[s]])
  /\ raced' = IF ListenerWriting(s) \/ \E q \in Requests : RequestWriting(q, s)
                THEN raced \cup {s} ELSE raced
  /\ UNCHANGED <<device, inbox, linkUp, listener, tables, notified, alerted,
                 mqttState, announced, budget, deleted, excused>>

\* The flag the update leaves on its own object.
Wanted(q) == IF q.kind = "meta" THEN q.row ELSE q.kind

\* Commit; a row deleted meanwhile makes the UPDATE raise, a 500.
UpdateCommit(r) ==
  LET q == requests[r] IN
  /\ q.pc = "loaded"
  /\ sensors' = WriteFlag(q.sensor, q.row, Wanted(q))
  /\ SetRequest(r, IF sensors[q.sensor] = "absent" THEN NoRequest
                                                   ELSE [q EXCEPT !.pc = "updated"])
  /\ excused' = IF Wanted(q) # q.row THEN excused \cup {q.sensor} ELSE excused
  /\ UNCHANGED <<device, inbox, linkUp, listener, stored, notified, alerted,
                 mqttState, announced, budget, deleted, raced>>

\* dispatch(SENSOR_STATUS_CHANGED), whatever field was updated.
UpdateAnnounce(r) ==
  LET q == requests[r] IN
  /\ q.pc = "updated"
  /\ announced' = [announced EXCEPT ![q.sensor] = Wanted(q)]
  /\ SetRequest(r, NoRequest)
  /\ UNCHANGED <<device, inbox, linkUp, listener, tables, notified, alerted,
                 mqttState, budget, history>>

\* remove_sensor: SELECT; an unknown sensor is a 404 and changes nothing.
DeleteLoad(r, s) ==
  /\ requests[r] = NoRequest /\ sensors[s] # "absent"
  /\ SetRequest(r, [pc |-> "deleting", sensor |-> s])
  /\ UNCHANGED <<device, inbox, linkUp, listener, tables, notified, alerted,
                 mqttState, announced, budget, history>>

\* DELETE and commit: zero rows are only a warning.  Readings stay.
DeleteCommit(r) ==
  LET s == requests[r].sensor IN
  /\ requests[r].pc = "deleting"
  /\ sensors' = [sensors EXCEPT ![s] = "absent"]
  /\ deleted' = deleted \cup {s}
  /\ SetRequest(r, [requests[r] EXCEPT !.pc = "removed"])
  /\ UNCHANGED <<device, inbox, linkUp, listener, stored, notified, alerted,
                 mqttState, announced, budget, excused, raced>>

\* dispatch(SENSOR_DELETED).
DeleteAnnounce(r) ==
  /\ requests[r].pc = "removed"
  /\ SetRequest(r, NoRequest)
  /\ UNCHANGED <<device, inbox, linkUp, listener, tables, notified, alerted,
                 mqttState, announced, budget, history>>

\* A call of the request raises: its transaction rolls back, or its event is lost.
RequestFail(r) ==
  /\ requests[r] # NoRequest /\ budget.failures > 0
  /\ budget' = [budget EXCEPT !.failures = @ - 1]
  /\ SetRequest(r, NoRequest)
  /\ raced' = IF requests[r].pc = "updated" THEN raced \cup {requests[r].sensor} ELSE raced
  /\ UNCHANGED <<device, inbox, linkUp, listener, tables, notified, alerted,
                 mqttState, announced, deleted, excused>>

-----------------------------------------------------------------------------

\* A status of sensor s is committed and its event is not emitted yet.
Unannounced(s) ==
  \/ lpc = "announce" /\ current.sensor = s
  \/ \E r \in Requests : requests[r].pc = "updated" /\ requests[r].sensor = s

\* The process stops (lifespan cancels the listener) or crashes, and starts again.
Restart ==
  /\ budget.restarts > 0
  /\ budget' = [budget EXCEPT !.restarts = @ - 1]
  /\ linkUp' = FALSE
  /\ lpc' = "down"
  /\ inbox' = [s \in Sensors |-> <<>>]
  /\ running' = FALSE /\ counted' = {}
  /\ requests' = [r \in Requests |-> NoRequest]
  /\ current' = NoMessage /\ seen' = "absent"
  /\ raced' = raced \cup {s \in Sensors : Unannounced(s)}
  /\ UNCHANGED <<device, tables, notified, alerted, announced,
                 deleted, excused>>

Listener ==
  \/ Subscribe \/ LinkError \/ (\E s \in Sensors : Receive(s))
  \/ StatusLookup \/ StatusLoad \/ StatusCommit \/ StatusAnnounce
  \/ DataLookup \/ CreatePlaceholder \/ CreatedDispatch
  \/ InsertReading \/ DispatchReceived \/ DispatchAlert \/ CountReading

Rest(r) ==
  \/ \E s \in Sensors, kind \in UpdateKinds : UpdateLoad(r, s, kind)
  \/ UpdateCommit(r) \/ UpdateAnnounce(r)
  \/ \E s \in Sensors : DeleteLoad(r, s)
  \/ DeleteCommit(r) \/ DeleteAnnounce(r)

Next ==
  \/ \E s \in Sensors :
       DeviceConnect(s) \/ DeviceLost(s) \/ DeviceFlap(s) \/ DevicePublish(s) \/ Overtake(s)
  \/ LinkDrop
  \/ Listener \/ ListenerFail
  \/ \E r \in Requests : Rest(r) \/ RequestFail(r)
  \/ Restart

Spec == Init /\ [][Next]_vars

-----------------------------------------------------------------------------

(* Properties.                                                             *)

(* Types of every variable; the history variables included.                *)
TypeOK ==
  /\ deviceUp \in [Sensors -> BOOLEAN]
  /\ published \in [Sensors -> 0 .. MaxReadings]
  /\ sessions \in [Sensors -> 0 .. MaxSessions]
  /\ retained \in [Sensors -> Statuses \cup {"none"}]
  /\ inbox \in [Sensors -> Seq(Messages)]
  /\ linkUp \in BOOLEAN
  /\ lpc \in ListenerSteps
  /\ current \in {NoMessage} \cup [sensor : Sensors, msg : Messages]
  /\ seen \in Rows
  /\ sensors \in [Sensors -> Rows]
  /\ stored \in SUBSET (Sensors \X Readings)
  /\ notified \in SUBSET (Sensors \X Readings)
  /\ alerted \in SUBSET (Sensors \X Readings)
  /\ running \in BOOLEAN
  /\ counted \in SUBSET (Sensors \X Readings)
  /\ announced \in [Sensors -> {"none", "active", "inactive"}]
  /\ requests \in [Requests -> RequestStates]
  /\ budget \in [drops : Nat, restarts : Nat, failures : Nat]
  /\ deleted \in SUBSET Sensors
  /\ excused \in SUBSET Sensors
  /\ raced \in SUBSET Sensors

(* Whatever call fails and whenever the process restarts, a reading is     *)
(* offered to the alert webhooks only after it was offered to the data     *)
(* webhooks, is offered to them only once it is committed, and is counted  *)
(* in mqtt_state only when both were done (process_sensor_data).           *)
PipelineOrder ==
  counted \subseteq alerted /\ alerted \subseteq notified /\ notified \subseteq stored

(* sensor_data.device_id is no foreign key, so the listener's placeholder  *)
(* is all that gives a reading its sensor: a reading whose sensor has no   *)
(* row is one whose sensor a REST request deleted.                         *)
OrphansOnlyAfterDelete ==
  \A sr \in stored : sensors[sr[1]] # "absent" \/ sr[1] \in deleted

\* A status of sensor s is still to be handled.
StatusPending(s) ==
  \/ \E i \in 1 .. Len(inbox[s]) : inbox[s][i].kind = "status"
  \/ current.sensor = s /\ current.msg.kind = "status"

(* While the listener is subscribed, a sensor with no status message left  *)
(* to handle is marked as the broker's retained status says, unless since  *)
(* the last subscription a handler failed on one, an administrator set the *)
(* flag, or a status overtook a reading.                                   *)
StatusInSync ==
  \A s \in Sensors :
    linkUp /\ ~StatusPending(s) /\ sensors[s] # "absent" /\ s \notin excused
      => sensors[s] = Target(retained[s])

(* With no writer of the sensor in progress, the last SENSOR_STATUS_CHANGED *)
(* payload tells the flag the table holds, unless two writers overlapped   *)
(* or an event was lost: the listener and REST update commit first and     *)
(* dispatch the object of their own session afterwards.                    *)
AnnouncedStatusIsCurrent ==
  \A s \in Sensors :
    \/ sensors[s] = "absent" \/ announced[s] = "none" \/ s \in raced
    \/ ListenerWriting(s) \/ \E r \in Requests : RequestWriting(r, s)
    \/ announced[s] = sensors[s]

(* A REST update that sets no is_active never undoes a status change the   *)
(* listener commits between its read and its commit.                       *)
MetadataEditKeepsStatus ==
  [][\A r \in Requests :
       UpdateCommit(r) /\ requests[r].kind = "meta" => sensors' = sensors]_vars

(* A row appears only for a reading: no status message and no REST update, *)
(* however it interleaves with a delete, brings a deleted sensor back.     *)
NoResurrection ==
  [][\A s \in Sensors :
       sensors[s] = "absent" /\ sensors'[s] # "absent"
         => lpc = "create" /\ current.sensor = s]_vars

-----------------------------------------------------------------------------
(* Refinement.                                                             *)

Stage ==
  CASE lpc = "notify" -> "stored"
    [] lpc = "alert"  -> "notified"
    [] lpc = "count"  -> "alerted"
    [] OTHER          -> "free"

Pipeline == INSTANCE ReadingPipeline WITH
  Readings <- Sensors \X Readings,
  hand <- IF Stage = "free" THEN {} ELSE {Handled},
  stage <- Stage

(* Readings pass the stages of process_sensor_data one at a time and in    *)
(* order, each is stored once, and one whose call raised or that a restart *)
(* cut off is offered to nobody later: there is no retry that would repeat *)
(* an insert or an event.                                                  *)
ImplementsPipeline == Pipeline!Spec

-----------------------------------------------------------------------------
(* Fairness: the event loop runs every ready task, a device's message is   *)
(* not overtaken for ever in the one queue of the client, and a database   *)
(* call returns or raises.  Not so a dispatch, which waits for receivers   *)
(* that may keep it waiting (WebhookDelivery).                             *)

Dispatching == lpc \in {"announce", "created", "notify", "alert"}

FairSpec ==
  /\ Spec
  /\ WF_vars(Listener /\ ~Dispatching)
  /\ \A s \in Sensors : SF_vars(Receive(s))
  /\ \A r \in Requests : WF_vars(UpdateCommit(r) \/ DeleteCommit(r))

\* The listener does not wait for ever at a dispatch.
DispatchesEnd == []<>~Dispatching

(* Whatever is lost while the listener is disconnected, the retained       *)
(* statuses a new subscription brings put every flag right again, and it   *)
(* stays right.  The exception: a dispatch the listener waits at for ever. *)
EventuallyInSync ==
  DispatchesEnd =>
    \A s \in Sensors :
      <>[](sensors[s] \in {"absent", Target(retained[s])} \/ s \in excused)

(* No message wedges the listener: what is queued for it is consumed,      *)
(* whatever call fails while it is handled, and whatever REST requests     *)
(* wait for.  Only a dispatch that never ends stops it.                    *)
BacklogDrains ==
  DispatchesEnd => \A s \in Sensors : inbox[s] # <<>> ~> inbox[s] = <<>>

=============================================================================
