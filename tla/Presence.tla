------------------------------- MODULE Presence -------------------------------
(***************************************************************************)
(* What the broker sees of the devices, and all the server relies on: who  *)
(* is online, the status it retains of each, and how many readings came.   *)
(* A reading comes only from a device whose latest session announced       *)
(* itself, and a session never ends without its "offline" being retained.  *)
(*                                                                         *)
(* SensorIngest takes its devices from here, action by action; Firmware,   *)
(* which models the program they run, implements it.                       *)
(***************************************************************************)
EXTENDS Naturals

CONSTANT Devices  \* identities devices connect under

VARIABLES
  up,        \* the device's session is open and has announced itself
  retained,  \* last status retained
  published  \* readings received

vars == <<up, retained, published>>

Init ==
  /\ up        = [d \in Devices |-> FALSE]
  /\ retained  = [d \in Devices |-> "none"]
  /\ published = [d \in Devices |-> 0]

Announce(d) ==
  /\ ~up[d]
  /\ up' = [up EXCEPT ![d] = TRUE]
  /\ retained' = [retained EXCEPT ![d] = "online"]
  /\ UNCHANGED published

\* Also the end of a session that never got to announce itself.
LastWill(d) ==
  /\ up' = [up EXCEPT ![d] = FALSE]
  /\ retained' = [retained EXCEPT ![d] = "offline"]
  /\ UNCHANGED published

Publish(d) ==
  /\ up[d]
  /\ published' = [published EXCEPT ![d] = @ + 1]
  /\ UNCHANGED <<up, retained>>

Next == \E d \in Devices : Announce(d) \/ LastWill(d) \/ Publish(d)

Spec == Init /\ [][Next]_vars

=============================================================================
