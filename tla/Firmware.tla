------------------------------- MODULE Firmware -------------------------------
(***************************************************************************)
(* The program of one physical device and the broker's side of its         *)
(* sessions: setup and loop of a3_air_quality.ino, Wi-Fi and broker that   *)
(* come and go, power that fails at any moment, and the 32-bit counter     *)
(* millis() that wraps.                                                    *)
(*                                                                         *)
(* A tick is a fraction of the interval between two readings; what the     *)
(* program does without waiting takes less than a tick.  The values of the *)
(* sensors and the text of a message are left out.                         *)
(***************************************************************************)
EXTENDS Naturals, FiniteSets

CONSTANTS
  Identities,   \* UUIDs; a generated one is new
  NoIdentity,   \* the memory holds no UUID
  Width,        \* millis() counts modulo Width
  Interval,     \* ticks between two readings
  MaxReadings,  \* bound: readings that arrive under one identity
  MaxBoots      \* bound: times the device is switched on

ASSUME WidthAssumption == Width \in Nat /\ Interval \in Nat \ {0} /\ Interval < Width
ASSUME BoundsAssumption == MaxReadings \in Nat /\ MaxBoots \in Nat
ASSUME IdentityAssumption == NoIdentity \notin Identities /\ IsFiniteSet(Identities)

VARIABLES
  pc,        \* the call the program is at
  inLoop,    \* setup has been left: connectToMQTT returns to loop
  millis,    \* the counter since the device was switched on
  previous,  \* previousMillis
  since,     \* ticks since the last timestamp was taken, counted up to Interval
  stored,    \* the UUID in NVS
  deviceId,  \* the UUID in use
  network,   \* "none", "wifi" (no way to the broker) or "all"
  tcp,       \* the connection of the current session is alive
  connected, \* what the client believes: mqttClient.connected()
  session,   \* broker: session of each identity
  retained,  \* broker: last status retained
  published, \* broker: readings that arrived
  boots,     \* times the device was switched on
  unsaved    \* history: UUIDs that putString failed to store

clock  == <<millis, previous, since>>
memory == <<stored, deviceId, unsaved>>
broker == <<session, retained, published>>
vars   == <<pc, inLoop, clock, memory, network, tcp, connected, broker, boots>>

Steps == {"off", "setup", "identity", "store", "connect", "connack", "hello",
          "loop", "wifi", "mqtt", "send"}

Init ==
  /\ pc = "off" /\ inLoop = FALSE
  /\ millis = 0 /\ previous = 0 /\ since = Interval
  /\ stored = NoIdentity /\ deviceId = NoIdentity /\ unsaved = {}
  /\ network = "none" /\ tcp = FALSE /\ connected = FALSE
  /\ session   = [i \in Identities |-> "closed"]
  /\ retained  = [i \in Identities |-> "none"]
  /\ published = [i \in Identities |-> 0]
  /\ boots = 0

-----------------------------------------------------------------------------
(* Time, power and the network.                                            *)

\* millis() - previousMillis, unsigned.
Elapsed == IF millis >= previous THEN millis - previous ELSE millis + Width - previous

\* Mutants of Due: the time of the next reading is computed and compared; the
\* difference is signed.
DueNext == millis >= (previous + Interval) % Width
DueSigned == millis >= previous + Interval

Due == Elapsed >= Interval

\* loop runs many times a tick, so no tick passes while a reading is due.
Tick ==
  /\ ~(pc = "loop" /\ Due)
  /\ millis' = IF pc = "off" THEN millis ELSE IF millis = Width - 1 THEN 0 ELSE millis + 1
  /\ since' = IF since < Interval THEN since + 1 ELSE since
  /\ UNCHANGED <<pc, inLoop, previous, memory, network, tcp, connected, broker, boots>>

NetworkChange ==
  /\ \E n \in {"none", "wifi", "all"} \ {network} : network' = n
  /\ tcp' = FALSE
  /\ UNCHANGED <<pc, inLoop, clock, memory, connected, broker, boots>>

PowerOn ==
  /\ pc = "off" /\ boots < MaxBoots
  /\ boots' = boots + 1
  /\ pc' = "setup" /\ inLoop' = FALSE
  /\ millis' = 0 /\ previous' = 0
  /\ deviceId' = NoIdentity /\ connected' = FALSE
  /\ UNCHANGED <<since, stored, unsaved, network, tcp, broker>>

PowerLoss ==
  /\ pc # "off"
  /\ pc' = "off"
  /\ tcp' = FALSE
  /\ UNCHANGED <<inLoop, clock, memory, network, connected, broker, boots>>

-----------------------------------------------------------------------------
(* The broker.                                                             *)

\* The broker gives up the session of a dead connection: the last will.
SessionEnds(i) ==
  /\ session[i] # "closed"
  /\ i # deviceId \/ ~tcp
  /\ session' = [session EXCEPT ![i] = "closed"]
  /\ retained' = [retained EXCEPT ![i] = "offline"]
  /\ UNCHANGED <<pc, inLoop, clock, memory, network, tcp, connected, published, boots>>

\* A client that connects with the identifier of an open session takes it over:
\* the broker closes the old connection, which brings its last will.
OpenSession(i) ==
  /\ session' = [session EXCEPT ![i] = "open"]
  /\ retained' = IF session[i] = "closed" THEN retained
                                          ELSE [retained EXCEPT ![i] = "offline"]

-----------------------------------------------------------------------------
(* setup.                                                                  *)

\* connectToWifi: waits until the Wi-Fi is there.
SetupWifi ==
  /\ pc = "setup" /\ network # "none"
  /\ pc' = "identity"
  /\ UNCHANGED <<inLoop, clock, memory, network, tcp, connected, broker, boots>>

Unused == {i \in Identities : i \notin unsaved /\ session[i] = "closed" /\ retained[i] = "none"}

\* Mutant of ReadIdentity: every boot generates a UUID.
ReadIdentityAnew ==
  /\ pc = "identity"
  /\ \E i \in Unused : deviceId' = i
  /\ pc' = "connect"
  /\ UNCHANGED <<inLoop, clock, stored, unsaved, network, tcp, connected, broker, boots>>

\* initDeviceUUID: the stored UUID, or a new one.
ReadIdentity ==
  /\ pc = "identity"
  /\ IF stored # NoIdentity
       THEN deviceId' = stored /\ pc' = "connect"
       ELSE pc' = "store" /\ \E i \in Unused : deviceId' = i
  /\ UNCHANGED <<inLoop, clock, stored, unsaved, network, tcp, connected, broker, boots>>

\* putString; its result is not looked at.
StoreIdentity ==
  /\ pc = "store"
  /\ \/ stored' = deviceId /\ UNCHANGED unsaved
     \/ unsaved' = unsaved \cup {deviceId} /\ UNCHANGED stored
  /\ pc' = "connect"
  /\ UNCHANGED <<inLoop, clock, deviceId, network, tcp, connected, broker, boots>>

-----------------------------------------------------------------------------
(* connectToMQTT, from setup and from loop.                                *)

Returned == IF inLoop THEN "send" ELSE "loop"

\* setup is over once connectToMQTT has returned, connected or not.
ReturnFromConnect == pc' = Returned /\ inLoop' = TRUE

\* The broker accepts the connection; the answer is on its way.
Connect ==
  /\ pc = "connect" /\ network = "all"
  /\ OpenSession(deviceId)
  /\ tcp' = TRUE /\ connected' = FALSE
  /\ pc' = "connack"
  /\ UNCHANGED <<inLoop, clock, memory, network, published, boots>>

\* No connection, or no answer: the function returns and the program goes on.
ConnectFails ==
  /\ (pc = "connect" /\ network # "all") \/ (pc = "connack" /\ ~tcp)
  /\ ReturnFromConnect
  /\ tcp' = FALSE /\ connected' = FALSE
  /\ UNCHANGED <<clock, memory, network, broker, boots>>

Connected ==
  /\ pc = "connack" /\ tcp
  /\ connected' = TRUE
  /\ pc' = "hello"
  /\ UNCHANGED <<inLoop, clock, memory, network, tcp, broker, boots>>

\* Mutant of Hello: "online" goes out without the retain flag.
HelloNotRetained ==
  /\ pc = "hello"
  /\ session' = IF tcp THEN [session EXCEPT ![deviceId] = "announced"] ELSE session
  /\ ReturnFromConnect
  /\ UNCHANGED <<clock, memory, network, tcp, connected, retained, published, boots>>

\* "online", retained; lost if the connection is dead.
Hello ==
  /\ pc = "hello"
  /\ IF tcp THEN /\ session' = [session EXCEPT ![deviceId] = "announced"]
                 /\ retained' = [retained EXCEPT ![deviceId] = "online"]
            ELSE UNCHANGED <<session, retained>>
  /\ ReturnFromConnect
  /\ UNCHANGED <<clock, memory, network, tcp, connected, published, boots>>

-----------------------------------------------------------------------------
(* loop.                                                                   *)

\* A reading is due: its time is noted and its timestamp taken, at once.
Wake ==
  /\ pc = "loop" /\ Due
  /\ previous' = millis /\ since' = 0
  /\ pc' = "wifi"
  /\ UNCHANGED <<inLoop, millis, memory, network, tcp, connected, broker, boots>>

\* connectToWifi: waits until the Wi-Fi is there, however long.
LoopWifi ==
  /\ pc = "wifi" /\ network # "none"
  /\ pc' = "mqtt"
  /\ UNCHANGED <<inLoop, clock, memory, network, tcp, connected, broker, boots>>

\* Reconnect if the client knows that it is not connected.
LoopMqtt ==
  /\ pc = "mqtt"
  /\ pc' = IF connected THEN "send" ELSE "connect"
  /\ UNCHANGED <<inLoop, clock, memory, network, tcp, connected, broker, boots>>

\* readSensors, dataToJson and sendMQTTMessage: without a connection, known to
\* be lost or not, the reading is lost.
Send ==
  /\ pc = "send"
  /\ IF connected /\ tcp
       THEN /\ published[deviceId] < MaxReadings
            /\ published' = [published EXCEPT ![deviceId] = @ + 1]
       ELSE UNCHANGED published
  /\ pc' = "loop"
  /\ UNCHANGED <<inLoop, clock, memory, network, tcp, connected, session, retained, boots>>

\* mqttClient.poll, and connected(): the client finds its connection dead.
NoticeLoss ==
  /\ pc \in {"loop", "mqtt"} /\ connected /\ ~tcp
  /\ connected' = FALSE
  /\ UNCHANGED <<pc, inLoop, clock, memory, network, tcp, broker, boots>>

-----------------------------------------------------------------------------

Program ==
  \/ SetupWifi \/ ReadIdentity \/ StoreIdentity
  \/ Connect \/ ConnectFails \/ Connected \/ Hello
  \/ Wake \/ LoopWifi \/ LoopMqtt \/ Send

Next ==
  \/ Tick \/ NetworkChange \/ PowerOn \/ PowerLoss
  \/ \E i \in Identities : SessionEnds(i)
  \/ Program \/ NoticeLoss

Spec == Init /\ [][Next]_vars

(* Fairness: the processor runs, time passes, and the client library, which *)
(* every pass of loop polls, closes a connection on which nothing came for *)
(* two keep-alive intervals.                                               *)
FairSpec == Spec /\ WF_vars(Program) /\ WF_vars(Tick) /\ SF_vars(NoticeLoss)

-----------------------------------------------------------------------------
(* Properties.                                                             *)

(* Types of every variable.                                                *)
TypeOK ==
  /\ pc \in Steps /\ inLoop \in BOOLEAN
  /\ millis \in 0 .. Width - 1 /\ previous \in 0 .. Width - 1 /\ since \in 0 .. Interval
  /\ stored \in Identities \cup {NoIdentity} /\ deviceId \in Identities \cup {NoIdentity}
  /\ unsaved \in SUBSET Identities
  /\ network \in {"none", "wifi", "all"} /\ tcp \in BOOLEAN /\ connected \in BOOLEAN
  /\ session \in [Identities -> {"closed", "open", "announced"}]
  /\ retained \in [Identities -> {"none", "online", "offline"}]
  /\ published \in [Identities -> 0 .. MaxReadings]
  /\ boots \in 0 .. MaxBoots

Seen == INSTANCE Presence WITH
  Devices <- Identities, up <- [i \in Identities |-> session[i] = "announced"]

(* Whatever happens to power and network, what the broker sees of a device *)
(* is what Presence says and the server relies on: no reading before the   *)
(* session's "online", no end of a session without its "offline".          *)
ImplementsPresence == Seen!Spec

(* Two timestamps of a device are at least the interval apart, over a wrap *)
(* of millis(), over a reconnect that blocks loop for longer than the      *)
(* interval, and over a restart, which sets the counter back to zero.      *)
SpacedReadings == [][pc = "loop" /\ pc' = "wifi" => since >= Interval]_vars

(* However often power fails, also between the generation of the UUID and  *)
(* its storage, the device shows itself under one identity, plus one for   *)
(* each UUID that initDeviceUUID failed to store.                          *)
OneIdentity ==
  Cardinality({i \in Identities : retained[i] # "none"} \ unsaved) <= 1

(* Once the device stays on and the broker in reach it goes on reporting:  *)
(* no failed connection, and no wrap of the counter, leaves it waiting.    *)
KeepsReporting ==
  <>[](pc # "off" /\ network = "all") =>
    <>(\E i \in Identities : published[i] = MaxReadings)

=============================================================================
