---------------------------- MODULE Firmware_proofs ----------------------------
(***************************************************************************)
(* Proofs of the safety properties of Firmware for any identities, any     *)
(* width of the counter and any interval below it.                         *)
(***************************************************************************)
EXTENDS Firmware, FiniteSetTheorems, TLAPS

Running == {"store", "connect", "connack", "hello", "loop", "wifi", "mqtt", "send"}

TypeInv == TypeOK /\ (pc \in Running => deviceId \in Identities)

LEMMA InitTypeInv == Init => TypeInv
<1> SUFFICES ASSUME Init PROVE TypeInv
  OBVIOUS
<1>1. 0 \in 0 .. Width - 1 /\ Interval \in 0 .. Interval /\ 0 \in 0 .. MaxReadings
        /\ 0 \in 0 .. MaxBoots
  BY WidthAssumption, BoundsAssumption
<1>2. /\ session \in [Identities -> {"closed", "open", "announced"}]
      /\ retained \in [Identities -> {"none", "online", "offline"}]
      /\ published \in [Identities -> 0 .. MaxReadings]
  BY <1>1 DEF Init
<1> QED BY <1>1, <1>2 DEF Init, TypeInv, TypeOK, Steps, Running

LEMMA NextTypeInv == TypeInv /\ [Next]_vars => TypeInv'
<1> SUFFICES ASSUME TypeInv, [Next]_vars PROVE TypeInv'
  OBVIOUS
<1> USE WidthAssumption, BoundsAssumption
        DEF TypeInv, TypeOK, Steps, Running, clock, memory, broker
<1>1. CASE UNCHANGED vars BY <1>1 DEF vars
<1>2. CASE Tick BY <1>2 DEF Tick
<1>3. CASE NetworkChange BY <1>3 DEF NetworkChange
<1>4. CASE PowerOn
  <2>1. boots' \in 0 .. MaxBoots /\ 0 \in 0 .. Width - 1 BY <1>4 DEF PowerOn
  <2> QED BY <1>4, <2>1 DEF PowerOn
<1>17. CASE PowerLoss BY <1>17 DEF PowerLoss
<1>5. ASSUME NEW i \in Identities, SessionEnds(i) PROVE TypeInv'
  BY <1>5 DEF SessionEnds
<1>6. CASE SetupWifi BY <1>6 DEF SetupWifi
<1>7. CASE ReadIdentity BY <1>7, IdentityAssumption DEF ReadIdentity, Unused
<1>8. CASE StoreIdentity BY <1>8 DEF StoreIdentity
<1>9. CASE Connect BY <1>9 DEF Connect, OpenSession
<1>10. CASE ConnectFails BY <1>10 DEF ConnectFails, ReturnFromConnect, Returned
<1>11. CASE Connected BY <1>11 DEF Connected
<1>12. CASE Hello BY <1>12 DEF Hello, ReturnFromConnect, Returned
<1>13. CASE Wake BY <1>13 DEF Wake
<1>14. CASE LoopWifi \/ LoopMqtt BY <1>14 DEF LoopWifi, LoopMqtt
<1>15. CASE Send BY <1>15 DEF Send
<1>16. CASE NoticeLoss BY <1>16 DEF NoticeLoss
<1> QED BY <1>1, <1>2, <1>3, <1>4, <1>5, <1>6, <1>7, <1>8, <1>9, <1>10, <1>11, <1>12,
           <1>13, <1>14, <1>15, <1>16, <1>17 DEF Next, Program

(* Every reachable state of a device and its broker has the types of        *)
(* TypeOK.                                                                 *)
THEOREM TypeCorrect == Spec => []TypeOK
<1>1. TypeInv => TypeOK BY DEF TypeInv
<1> QED BY <1>1, InitTypeInv, NextTypeInv, PTL DEF Spec

-----------------------------------------------------------------------------
(* SpacedReadings.  While the next timestamp is not due yet, millis() has   *)
(* not gone further from previousMillis than time has from the timestamp.   *)

SpaceInv == pc # "off" /\ since < Interval => Elapsed <= since

(* A tick takes the difference one further, or back to zero. *)
LEMMA ElapsedTick ==
  ASSUME TypeInv, pc # "off", Tick
  PROVE  Elapsed' \in {Elapsed + 1, 0}
  BY WidthAssumption DEF TypeInv, TypeOK, Tick, Elapsed

LEMMA NextSpaceInv == TypeInv /\ SpaceInv /\ [Next]_vars => SpaceInv'
<1> SUFFICES ASSUME TypeInv, SpaceInv, [Next]_vars PROVE SpaceInv'
  OBVIOUS
<1> USE WidthAssumption DEF clock
<1>1. CASE Tick
  <2>1. CASE pc = "off" BY <1>1, <2>1 DEF Tick, SpaceInv
  <2>2. CASE pc # "off"
    <3>1. Elapsed' \in {Elapsed + 1, 0} BY <1>1, <2>2, ElapsedTick
    <3>2. Elapsed \in Nat /\ since \in Nat BY DEF TypeInv, TypeOK, Elapsed
    <3>3. since' = IF since < Interval THEN since + 1 ELSE since BY <1>1 DEF Tick
    <3> QED BY <2>2, <3>1, <3>2, <3>3 DEF SpaceInv
  <2> QED BY <2>1, <2>2
<1>2. CASE PowerOn BY <1>2 DEF PowerOn, SpaceInv, Elapsed, TypeInv, TypeOK
<1>3. CASE Wake BY <1>3 DEF Wake, SpaceInv, Elapsed, TypeInv, TypeOK
<1>4. CASE UNCHANGED <<millis, previous, since>> /\ (pc' # "off" => pc # "off")
  BY <1>4 DEF SpaceInv, Elapsed
<1>5. CASE NetworkChange \/ PowerLoss \/ NoticeLoss \/ \E i \in Identities : SessionEnds(i)
  BY <1>4, <1>5 DEF NetworkChange, PowerLoss, NoticeLoss, SessionEnds
<1>6. CASE SetupWifi \/ ReadIdentity \/ StoreIdentity \/ Connect \/ ConnectFails
           \/ Connected \/ Hello \/ LoopWifi \/ LoopMqtt \/ Send
  BY <1>4, <1>6 DEF SetupWifi, ReadIdentity, StoreIdentity, Connect, ConnectFails,
     Connected, Hello, LoopWifi, LoopMqtt, Send
<1>7. CASE UNCHANGED vars BY <1>4, <1>7 DEF vars
<1> QED BY <1>1, <1>2, <1>3, <1>5, <1>6, <1>7 DEF Next, Program

(* The timestamps of a device are at least the interval apart, over wraps   *)
(* of the counter, blocking reconnects and restarts.                       *)
THEOREM ReadingsAreSpaced == Spec => SpacedReadings
<1>1. Init => TypeInv /\ SpaceInv
  BY InitTypeInv DEF Init, SpaceInv
<1>2. TypeInv /\ SpaceInv /\ [Next]_vars => (TypeInv /\ SpaceInv)'
  BY NextTypeInv, NextSpaceInv
<1>3. TypeInv /\ SpaceInv /\ [Next]_vars =>
        [pc = "loop" /\ pc' = "wifi" => since >= Interval]_vars
  <2> SUFFICES ASSUME TypeInv, SpaceInv, Next, pc = "loop", pc' = "wifi"
               PROVE  since >= Interval
    OBVIOUS
  <2>1. Wake
    BY DEF Next, Program, Tick, NetworkChange, PowerOn, PowerLoss, SessionEnds, NoticeLoss,
       SetupWifi, ReadIdentity, StoreIdentity, Connect, ConnectFails, Connected, Hello,
       LoopWifi, LoopMqtt, Send
  <2>2. Elapsed >= Interval BY <2>1 DEF Wake, Due
  <2>3. Elapsed \in Nat /\ since \in Nat /\ Interval \in Nat
    BY WidthAssumption DEF TypeInv, TypeOK, Elapsed
  <2> QED BY <2>2, <2>3 DEF SpaceInv
<1> QED BY <1>1, <1>2, <1>3, PTL DEF Spec, SpacedReadings

-----------------------------------------------------------------------------
(* ImplementsPresence.  A live connection is one whose session the broker   *)
(* has, announced by the time a reading can be sent on it.                 *)

LinkInv ==
  /\ pc \in {"off", "setup", "identity", "store"} => ~tcp
  /\ pc \in {"connack", "hello"} /\ tcp => session[deviceId] = "open"
  /\ pc \in {"loop", "wifi", "mqtt", "send"} /\ tcp /\ connected =>
       session[deviceId] = "announced"
  /\ pc \in {"setup", "identity", "store"} => ~connected
  /\ pc = "connack" => ~connected
  /\ pc = "connect" => ~connected

LEMMA InitLinkInv == Init => LinkInv
  BY DEF Init, LinkInv

LEMMA NextLinkInv == TypeInv /\ LinkInv /\ [Next]_vars => LinkInv'
<1> SUFFICES ASSUME TypeInv, LinkInv, [Next]_vars PROVE LinkInv'
  OBVIOUS
<1> USE DEF LinkInv, clock, memory, broker
<1>1. CASE UNCHANGED vars BY <1>1 DEF vars
<1>2. CASE Tick \/ NetworkChange \/ PowerLoss \/ NoticeLoss
  BY <1>2 DEF Tick, NetworkChange, PowerLoss, NoticeLoss
<1>3. CASE PowerOn BY <1>3 DEF PowerOn
<1>4. ASSUME NEW i \in Identities, SessionEnds(i) PROVE LinkInv'
  BY <1>4 DEF SessionEnds, TypeInv, TypeOK
<1>5. CASE SetupWifi \/ ReadIdentity \/ StoreIdentity
  BY <1>5 DEF SetupWifi, ReadIdentity, StoreIdentity
<1>6. CASE Connect
  <2>1. session'[deviceId] = "open"
    BY <1>6 DEF Connect, OpenSession, TypeInv, TypeOK, Running
  <2> QED BY <1>6, <2>1 DEF Connect
<1>7. CASE ConnectFails \/ Connected
  BY <1>7 DEF ConnectFails, Connected, ReturnFromConnect, Returned
<1>8. CASE Hello
  <2>1. tcp => session'[deviceId] = "announced"
    BY <1>8 DEF Hello, TypeInv, TypeOK, Running
  <2> QED BY <1>8, <2>1 DEF Hello, ReturnFromConnect, Returned
<1>9. CASE Wake \/ LoopWifi \/ LoopMqtt \/ Send
  BY <1>9 DEF Wake, LoopWifi, LoopMqtt, Send
<1> QED BY <1>1, <1>2, <1>3, <1>4, <1>5, <1>6, <1>7, <1>8, <1>9 DEF Next, Program

(* The up of the refinement mapping, changed at one identity. *)
LEMMA UpAfter ==
  ASSUME TypeInv, NEW i \in Identities, NEW v \in {"closed", "open", "announced"},
         session' = [session EXCEPT ![i] = v]
  PROVE  [j \in Identities |-> session[j] = "announced"]' =
           [[j \in Identities |-> session[j] = "announced"] EXCEPT ![i] = (v = "announced")]
  BY DEF TypeInv, TypeOK

LEMMA PresenceStep ==
  ASSUME TypeInv, LinkInv, Next
  PROVE  [Seen!Next]_(Seen!vars)
<1> USE DEF Seen!vars, clock, memory, broker
<1>1. ASSUME NEW i \in Identities, SessionEnds(i) PROVE Seen!Next
  <2>1. Seen!LastWill(i) BY <1>1, UpAfter DEF SessionEnds, Seen!LastWill
  <2> QED BY <2>1 DEF Seen!Next
<1>2. CASE Connect
  <2>1. deviceId \in Identities BY <1>2 DEF Connect, TypeInv, Running
  <2>2. CASE session[deviceId] = "closed"
    <3>1. [j \in Identities |-> session[j] = "announced"]' =
            [j \in Identities |-> session[j] = "announced"]
      BY <1>2, <2>1, <2>2 DEF Connect, OpenSession, TypeInv, TypeOK
    <3> QED BY <1>2, <2>2, <3>1 DEF Connect, OpenSession
  <2>3. CASE session[deviceId] # "closed"
    <3>1. PICK i \in Identities : i = deviceId BY <2>1
    <3>2. Seen!LastWill(i)
      BY <1>2, <2>3, <3>1, UpAfter DEF Connect, OpenSession, Seen!LastWill
    <3> QED BY <3>2 DEF Seen!Next
  <2> QED BY <2>2, <2>3
<1>3. CASE Hello
  <2>1. deviceId \in Identities BY <1>3 DEF Hello, TypeInv, Running
  <2>2. CASE tcp
    <3>1. session[deviceId] = "open" BY <1>3, <2>2 DEF Hello, LinkInv
    <3>2. PICK i \in Identities : i = deviceId BY <2>1
    <3>3. Seen!Announce(i)
      BY <1>3, <2>2, <3>1, <3>2, UpAfter DEF Hello, Seen!Announce
    <3> QED BY <3>3 DEF Seen!Next
  <2>3. CASE ~tcp BY <1>3, <2>3 DEF Hello
  <2> QED BY <2>2, <2>3
<1>4. CASE Send
  <2>1. deviceId \in Identities BY <1>4 DEF Send, TypeInv, Running
  <2>2. CASE connected /\ tcp
    <3>1. session[deviceId] = "announced" BY <1>4, <2>2 DEF Send, LinkInv
    <3>2. Seen!Publish(deviceId) BY <1>4, <2>1, <2>2, <3>1 DEF Send, Seen!Publish
    <3> QED BY <2>1, <3>2 DEF Seen!Next
  <2>3. CASE ~(connected /\ tcp) BY <1>4, <2>3 DEF Send
  <2> QED BY <2>2, <2>3
<1>5. CASE \/ Tick \/ NetworkChange \/ PowerOn \/ PowerLoss \/ NoticeLoss
           \/ SetupWifi \/ ReadIdentity \/ StoreIdentity \/ ConnectFails \/ Connected
           \/ Wake \/ LoopWifi \/ LoopMqtt
  BY <1>5 DEF Tick, NetworkChange, PowerOn, PowerLoss, NoticeLoss, SetupWifi, ReadIdentity,
     StoreIdentity, ConnectFails, Connected, Wake, LoopWifi, LoopMqtt
<1> QED BY <1>1, <1>2, <1>3, <1>4, <1>5 DEF Next, Program

(* What the broker sees of the device's program is what SensorIngest takes  *)
(* devices to be, which acts by the actions of Presence.                   *)
THEOREM DeviceIsOfPresence == Spec => ImplementsPresence
<1>1. Init => Seen!Init
  BY DEF Init, Seen!Init
<1>2. Init => TypeInv /\ LinkInv BY InitTypeInv, InitLinkInv
<1>3. TypeInv /\ LinkInv /\ [Next]_vars => (TypeInv /\ LinkInv)'
  BY NextTypeInv, NextLinkInv
<1>4. TypeInv /\ LinkInv /\ [Next]_vars => [Seen!Next]_(Seen!vars)
  <2>1. UNCHANGED vars => UNCHANGED Seen!vars
    BY DEF vars, broker, Seen!vars
  <2> QED BY <2>1, PresenceStep
<1> QED BY <1>1, <1>2, <1>3, <1>4, PTL DEF Spec, Seen!Spec, ImplementsPresence

-----------------------------------------------------------------------------
(* OneIdentity.  A UUID is in the memory, or known as not stored, before    *)
(* the broker hears of it.                                                 *)

Known == {stored} \cup unsaved

IdentityInv ==
  /\ pc \in Running \ {"store"} => deviceId \in Known
  /\ pc = "store" => stored = NoIdentity
  /\ \A i \in Identities : session[i] # "closed" \/ retained[i] # "none" => i \in Known

LEMMA NextIdentityInv == TypeInv /\ IdentityInv /\ [Next]_vars => IdentityInv'
<1> SUFFICES ASSUME TypeInv, IdentityInv, [Next]_vars PROVE IdentityInv'
  OBVIOUS
<1> USE DEF IdentityInv, Known, Running, clock, memory, broker
<1>1. CASE UNCHANGED vars BY <1>1 DEF vars
<1>2. CASE Tick \/ NetworkChange \/ PowerOn \/ PowerLoss \/ NoticeLoss \/ SetupWifi
  BY <1>2 DEF Tick, NetworkChange, PowerOn, PowerLoss, NoticeLoss, SetupWifi
<1>3. ASSUME NEW i \in Identities, SessionEnds(i) PROVE IdentityInv'
  BY <1>3 DEF SessionEnds, TypeInv, TypeOK
<1>4. CASE ReadIdentity
  <2>1. UNCHANGED <<Known, stored, broker>> BY <1>4 DEF ReadIdentity
  <2>2. \/ pc' = "connect" /\ deviceId' = stored
        \/ pc' = "store" /\ stored = NoIdentity
    BY <1>4 DEF ReadIdentity
  <2> QED BY <2>1, <2>2
<1>5. CASE StoreIdentity
  <2>1. \A i \in Identities : i \in Known => i \in Known'
    BY <1>5, IdentityAssumption DEF StoreIdentity
  <2>2. deviceId' \in Known' BY <1>5 DEF StoreIdentity
  <2>3. pc' = "connect" /\ UNCHANGED broker BY <1>5 DEF StoreIdentity
  <2> QED BY <2>1, <2>2, <2>3
<1>6. CASE Connect BY <1>6 DEF Connect, OpenSession, TypeInv, TypeOK
<1>7. CASE ConnectFails \/ Connected
  BY <1>7 DEF ConnectFails, Connected, ReturnFromConnect, Returned
<1>8. CASE Hello BY <1>8 DEF Hello, ReturnFromConnect, Returned, TypeInv, TypeOK
<1>9. CASE Wake \/ LoopWifi \/ LoopMqtt \/ Send
  BY <1>9 DEF Wake, LoopWifi, LoopMqtt, Send
<1> QED BY <1>1, <1>2, <1>3, <1>4, <1>5, <1>6, <1>7, <1>8, <1>9 DEF Next, Program

(* Wherever power fails, the device shows itself under the one UUID of its  *)
(* memory, and under others only if they could not be stored.              *)
THEOREM OneIdentityShown == Spec => []OneIdentity
<1>1. Init => TypeInv /\ IdentityInv
  BY InitTypeInv DEF Init, IdentityInv, Running
<1>2. TypeInv /\ IdentityInv /\ [Next]_vars => (TypeInv /\ IdentityInv)'
  BY NextTypeInv, NextIdentityInv
<1>3. IdentityInv => OneIdentity
  <2> SUFFICES ASSUME IdentityInv PROVE OneIdentity
    OBVIOUS
  <2> DEFINE shown == {i \in Identities : retained[i] # "none"} \ unsaved
  <2>1. shown \subseteq {stored} BY DEF IdentityInv, Known
  <2>2. IsFiniteSet({stored}) /\ Cardinality({stored}) = 1 BY FS_Singleton
  <2>3. IsFiniteSet(shown) /\ Cardinality(shown) <= Cardinality({stored})
    BY <2>1, <2>2, FS_Subset
  <2> QED BY <2>2, <2>3 DEF OneIdentity
<1> QED BY <1>1, <1>2, <1>3, PTL DEF Spec

=============================================================================
