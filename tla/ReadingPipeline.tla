---------------------------- MODULE ReadingPipeline ----------------------------
(***************************************************************************)
(* What the ingestion promises of the readings: they pass one at a time    *)
(* through four stages, are stored before anyone hears of them, and one    *)
(* that is given up after a stage reaches none of the later ones.          *)
(***************************************************************************)

CONSTANT Readings

VARIABLES
  stored,    \* readings in the table
  notified,  \* readings offered to the data webhooks
  alerted,   \* readings offered to the alert webhooks
  counted,   \* readings the running process has counted
  hand,      \* the reading between two stages, a set of at most one
  stage      \* the stage it has passed

vars == <<stored, notified, alerted, counted, hand, stage>>

Init ==
  /\ stored = {} /\ notified = {} /\ alerted = {} /\ counted = {}
  /\ hand = {} /\ stage = "free"

Store(x) ==
  /\ stage = "free" /\ x \notin stored
  /\ stored' = stored \cup {x}
  /\ hand' = {x} /\ stage' = "stored"
  /\ UNCHANGED <<notified, alerted, counted>>

Notify ==
  /\ stage = "stored" /\ stage' = "notified"
  /\ notified' = notified \cup hand
  /\ UNCHANGED <<stored, alerted, counted, hand>>

Alert ==
  /\ stage = "notified" /\ stage' = "alerted"
  /\ alerted' = alerted \cup hand
  /\ UNCHANGED <<stored, notified, counted, hand>>

Release == hand' = {} /\ stage' = "free"

Count ==
  /\ stage = "alerted"
  /\ counted' = counted \cup hand
  /\ Release
  /\ UNCHANGED <<stored, notified, alerted>>

\* A call raised.
GiveUp == Release /\ UNCHANGED <<stored, notified, alerted, counted>>

\* The process restarts.
Reset == counted' = {} /\ Release /\ UNCHANGED <<stored, notified, alerted>>

Next == (\E x \in Readings : Store(x)) \/ Notify \/ Alert \/ Count \/ GiveUp \/ Reset

Spec == Init /\ [][Next]_vars

=============================================================================
