----------------------- MODULE WebhookRegistry_proofs -----------------------
(***************************************************************************)
(* Proofs of the invariants of WebhookRegistry for any webhooks, events,   *)
(* targets, update bodies, requests and bounds.                            *)
(***************************************************************************)
EXTENDS WebhookRegistry, TLAPS

-----------------------------------------------------------------------------
(* Types.  A row is there as long as a flushed change of it is to be       *)
(* written, which the locks see to.                                        *)

LocksHold ==
  \A r \in Requests :
    Locks(requests[r]) =>
      /\ rows[requests[r].webhook] # NoRow
      /\ \A q \in Requests :
           Locks(requests[q]) /\ requests[q].webhook = requests[r].webhook => q = r

TypeInv == TypeOK /\ LocksHold

(* The fields of a request, by the step it is at. *)
LEMMA RequestFields ==
  \A q \in RequestStates :
    /\ q.pc \in {"none", "inserted", "created", "read", "flushed", "replaced",
                 "found", "removed"}
    /\ q = NoRequest <=> q.pc = "none"
    /\ q # NoRequest => q.webhook \in Webhooks
    /\ q.pc \in {"inserted", "created"} =>
         q \in [pc : {"inserted", "created"}, webhook : Webhooks, new : Row]
    /\ q.pc \in {"read", "flushed", "replaced"} =>
         q \in [pc : {"read", "flushed", "replaced"}, webhook : Webhooks, read : Row,
                new : Row, relabel : BOOLEAN]
    /\ q.pc \in {"found", "removed"} =>
         q \in [pc : {"found", "removed"}, webhook : Webhooks, event : EventNames]
  BY SMT DEF RequestStates, NoRequest

LEMMA RowsAreSome == \A row \in Row : row # NoRow
  BY DEF Row, NoRow

LEMMA MergedIsRow ==
  ASSUME NEW row \in Row, NEW p \in Payloads
  PROVE  Merge(row, p) \in Row
  BY ParametersAssumption DEF Merge, Set, Row

LEMMA WrittenIsRow ==
  ASSUME NEW row \in Row, NEW q, q.read \in Row, q.new \in Row
  PROVE  Written(row, q) \in Row
  BY DEF Written, Row

(* An update whose row nobody wrote meanwhile writes what it holds. *)
LEMMA WrittenIsNew ==
  ASSUME NEW q, q.read \in Row, q.new \in Row
  PROVE  Written(q.read, q) = q.new
  BY DEF Written, Row

(* A list written into a registry, for an event that has a processor. *)
LEMMA RegistryWritten ==
  ASSUME TypeOK, NEW e, NEW w, NEW list, e \in Events /\ w \in Webhooks => list \in Seq(Targets)
  PROVE  [registry EXCEPT ![e][w] = list] \in [Events -> [Webhooks -> Seq(Targets)]]
<1>1. registry \in [Events -> [Webhooks -> Seq(Targets)]] BY DEF TypeOK
<1>2. ASSUME e \in Events PROVE [registry[e] EXCEPT ![w] = list] \in [Webhooks -> Seq(Targets)]
  <2>1. registry[e] \in [Webhooks -> Seq(Targets)] BY <1>1, <1>2
  <2>2. ASSUME NEW x \in Webhooks PROVE (IF x = w THEN list ELSE registry[e][x]) \in Seq(Targets)
    BY <1>2, <2>1
  <2> QED BY <2>1, <2>2
<1>3. [registry EXCEPT ![e][w] = list] = [registry EXCEPT ![e] = [registry[e] EXCEPT ![w] = list]]
  OBVIOUS
<1> QED BY <1>1, <1>2, <1>3

LEMMA BudgetType ==
  ASSUME NEW b \in [toggles : Nat, failures : Nat, restarts : Nat]
  PROVE  LET Budgets == [toggles : Nat, failures : Nat, restarts : Nat] IN
         /\ b.toggles > 0 => [b EXCEPT !.toggles = @ - 1] \in Budgets
         /\ b.failures > 0 => [b EXCEPT !.failures = @ - 1] \in Budgets
         /\ b.restarts > 0 => [b EXCEPT !.restarts = @ - 1] \in Budgets
  OBVIOUS

(* What SetRequest leaves. *)
LEMMA SetRequestEffect ==
  ASSUME TypeOK, NEW r \in Requests, NEW q \in RequestStates, SetRequest(r, q)
  PROVE  /\ requests' \in [Requests -> RequestStates]
         /\ requests'[r] = q
         /\ \A x \in Requests \ {r} : requests'[x] = requests[x]
  BY DEF TypeOK, SetRequest

LEMMA FinishEffect ==
  ASSUME TypeOK, NEW r \in Requests, Finish(r)
  PROVE  /\ requests' \in [Requests -> RequestStates]
         /\ requests'[r] = NoRequest
         /\ \A x \in Requests \ {r} : requests'[x] = requests[x]
  BY SetRequestEffect DEF Finish, RequestStates

(* The steps of a request, each with what it makes of it.                  *)
LEMMA AdvanceEffect ==
  ASSUME NEW q \in RequestStates
  PROVE  /\ q.pc = "inserted" =>
              /\ [q EXCEPT !.pc = "created"] \in RequestStates
              /\ [q EXCEPT !.pc = "created"]
                   = [pc |-> "created", webhook |-> q.webhook, new |-> q.new]
         /\ \A step \in {"flushed", "replaced"} : q.pc \in {"read", "flushed"} =>
              /\ [q EXCEPT !.pc = step] \in RequestStates
              /\ [q EXCEPT !.pc = step]
                   = [pc |-> step, webhook |-> q.webhook, read |-> q.read, new |-> q.new,
                      relabel |-> q.relabel]
         /\ q.pc = "found" =>
              /\ [q EXCEPT !.pc = "removed"] \in RequestStates
              /\ [q EXCEPT !.pc = "removed"]
                   = [pc |-> "removed", webhook |-> q.webhook, event |-> q.event]
<1>1. CASE q.pc = "inserted"
  <2>1. q \in [pc : {"inserted", "created"}, webhook : Webhooks, new : Row]
    BY <1>1, RequestFields
  <2>2. [q EXCEPT !.pc = "created"]
          \in [pc : {"inserted", "created"}, webhook : Webhooks, new : Row]
    BY <2>1
  <2>3. [q EXCEPT !.pc = "created"]
          = [pc |-> "created", webhook |-> q.webhook, new |-> q.new]
    BY <2>1
  <2> QED BY <1>1, <2>2, <2>3 DEF RequestStates
<1>2. CASE q.pc \in {"read", "flushed"}
  <2>1. q \in [pc : {"read", "flushed", "replaced"}, webhook : Webhooks, read : Row,
               new : Row, relabel : BOOLEAN]
    BY <1>2, RequestFields
  <2>2. ASSUME NEW step \in {"flushed", "replaced"}
        PROVE  /\ [q EXCEPT !.pc = step]
                    \in [pc : {"read", "flushed", "replaced"}, webhook : Webhooks,
                         read : Row, new : Row, relabel : BOOLEAN]
               /\ [q EXCEPT !.pc = step]
                    = [pc |-> step, webhook |-> q.webhook, read |-> q.read, new |-> q.new,
                       relabel |-> q.relabel]
    BY <2>1
  <2> QED BY <1>2, <2>2 DEF RequestStates
<1>3. CASE q.pc = "found"
  <2>1. q \in [pc : {"found", "removed"}, webhook : Webhooks, event : EventNames]
    BY <1>3, RequestFields
  <2>2. [q EXCEPT !.pc = "removed"]
          \in [pc : {"found", "removed"}, webhook : Webhooks, event : EventNames]
    BY <2>1
  <2>3. [q EXCEPT !.pc = "removed"]
          = [pc |-> "removed", webhook |-> q.webhook, event |-> q.event]
    BY <2>1
  <2> QED BY <1>3, <2>2, <2>3 DEF RequestStates
<1> QED BY <1>1, <1>2, <1>3

LEMMA TypesInit == Init => TypeInv
<1> SUFFICES ASSUME Init PROVE TypeInv OBVIOUS
<1>1. LocksHold BY DEF Init, LocksHold, Locks, NoRequest
<1> QED BY <1>1, ParametersAssumption
        DEF Init, TypeInv, TypeOK, secretRow, history, RequestStates

(* A request that takes no lock and writes no row.  *)
LEMMA LocksFrame ==
  ASSUME TypeInv, rows' = rows, NEW r \in Requests,
         \A x \in Requests \ {r} : requests'[x] = requests[x],
         Locks(requests'[r]) => Locks(requests[r])
                                  /\ requests'[r].webhook = requests[r].webhook
  PROVE  LocksHold'
<1>1. \A x \in Requests :
        Locks(requests'[x]) => Locks(requests[x]) /\ requests'[x].webhook = requests[x].webhook
  OBVIOUS
<1> QED BY <1>1 DEF TypeInv, LocksHold

(* A request that locks a row which is there and which no other has locked. *)
LEMMA LockTaken ==
  ASSUME TypeInv, rows' = rows, NEW r \in Requests,
         \A x \in Requests \ {r} : requests'[x] = requests[x],
         requests[r] # NoRequest, requests'[r].webhook = requests[r].webhook,
         rows[requests[r].webhook] # NoRow, Unlocked(requests[r].webhook)
  PROVE  LocksHold'
<1> DEFINE w == requests[r].webhook
<1>0. ASSUME NEW x \in Requests, Locks(requests[x]) PROVE requests[x] # NoRequest
  BY <1>0 DEF Locks, NoRequest
<1>1. \A x \in Requests \ {r} : Locks(requests[x]) => requests[x].webhook # w
  BY <1>0 DEF Unlocked, On
<1> QED BY <1>1 DEF TypeInv, LocksHold

LEMMA CreateTypes ==
  ASSUME TypeInv, NEW r \in Requests,
         \/ \E w \in Webhooks, e \in Events, secret \in {"set", "none"}, t \in Targets :
              CreateInsert(r, w, e, secret, t)
         \/ CreateRegister(r) \/ CreateCommit(r)
  PROVE  TypeInv'
<1> USE DEF secretRow, history
<1> DEFINE q == requests[r]
<1>0. TypeOK /\ q \in RequestStates BY DEF TypeInv, TypeOK
<1>1. ASSUME NEW w \in Webhooks, NEW e \in Events, NEW secret \in {"set", "none"},
             NEW t \in Targets, CreateInsert(r, w, e, secret, t)
      PROVE  TypeInv'
  <2> DEFINE new == [pc |-> "inserted", webhook |-> w,
                     new |-> [event |-> e, enabled |-> "on", secret |-> secret, target |-> t]]
  <2>1. new \in RequestStates BY DEF RequestStates, Row, EventNames
  <2>2. SetRequest(r, new) BY <1>1 DEF CreateInsert
  <2> HIDE DEF new
  <2>3. /\ requests' \in [Requests -> RequestStates] /\ requests'[r] = new
        /\ \A x \in Requests \ {r} : requests'[x] = requests[x]
    BY <1>0, <2>1, <2>2, SetRequestEffect
  <2>4. LocksHold' BY <1>1, <2>3, LocksFrame DEF CreateInsert, Locks, new
  <2> QED BY <1>0, <1>1, <2>3, <2>4 DEF CreateInsert, TypeInv, TypeOK
<1>2. CASE CreateRegister(r)
  <2>1. q \in [pc : {"inserted", "created"}, webhook : Webhooks, new : Row]
    BY <1>0, <1>2, RequestFields DEF CreateRegister
  <2>2. /\ requests' \in [Requests -> RequestStates]
        /\ requests'[r] = [pc |-> "created", webhook |-> q.webhook, new |-> q.new]
        /\ \A x \in Requests \ {r} : requests'[x] = requests[x]
    BY <1>0, <1>2, AdvanceEffect, SetRequestEffect DEF CreateRegister
  <2>3. registry' \in [Events -> [Webhooks -> Seq(Targets)]]
    <3>1. ASSUME q.new.event \in Events
          PROVE  Append(registry[q.new.event][q.webhook], q.new.target) \in Seq(Targets)
      BY <1>0, <2>1, <3>1 DEF TypeOK, Row
    <3>2. registry' = registry \/ AddToRegistry(q.new.event, q.webhook, q.new.target)
      BY <1>2 DEF CreateRegister
    <3>3. CASE AddToRegistry(q.new.event, q.webhook, q.new.target)
      <4>1. registry' = [registry EXCEPT ![q.new.event][q.webhook]
                           = Append(registry[q.new.event][q.webhook], q.new.target)]
        BY <3>3 DEF AddToRegistry
      <4> QED BY <1>0, <3>1, <4>1, RegistryWritten
    <3> QED BY <1>0, <3>2, <3>3 DEF TypeOK
  <2>4. LocksHold' BY <1>2, <2>2, LocksFrame DEF CreateRegister, Locks
  <2> QED BY <1>0, <1>2, <2>2, <2>3, <2>4 DEF CreateRegister, TypeInv, TypeOK
<1>3. CASE CreateCommit(r)
  <2>1. q \in [pc : {"inserted", "created"}, webhook : Webhooks, new : Row]
    BY <1>0, <1>3, RequestFields DEF CreateCommit
  <2>2. /\ requests' \in [Requests -> RequestStates] /\ requests'[r] = NoRequest
        /\ \A x \in Requests \ {r} : requests'[x] = requests[x]
    BY <1>0, <1>3, FinishEffect DEF CreateCommit
  <2>3. rows' \in [Webhooks -> Row \cup {NoRow}]
    BY <1>0, <1>3, <2>1 DEF CreateCommit, TypeOK
  <2>4. \A w \in Webhooks : rows[w] # NoRow => rows'[w] # NoRow
    BY <1>0, <1>3, <2>1, RowsAreSome DEF CreateCommit, TypeOK
  <2>5. LocksHold'
    <3>1. \A x \in Requests : Locks(requests'[x]) => Locks(requests[x]) /\ requests'[x] = requests[x]
      BY <2>2 DEF Locks, NoRequest
    <3>2. \A x \in Requests : Locks(requests[x]) => requests[x].webhook \in Webhooks
      BY <1>0, RequestFields DEF TypeOK, Locks
    <3> QED BY <2>4, <3>1, <3>2 DEF TypeInv, LocksHold
  <2> QED BY <1>0, <1>3, <2>2, <2>3, <2>5 DEF CreateCommit, TypeInv, TypeOK
<1> QED BY <1>1, <1>2, <1>3

LEMMA OverlapTypes ==
  ASSUME TypeOK, NEW w \in Webhooks, NoteOverlap(w)
  PROVE  missable' \in SUBSET Webhooks /\ lingering' \in SUBSET Webhooks
           /\ overlapped' \in SUBSET Webhooks
  BY DEF TypeOK, NoteOverlap

LEMMA UpdateTypes ==
  ASSUME TypeInv, NEW r \in Requests,
         \/ \E w \in Webhooks, p \in Payloads : UpdateRead(r, w, p)
         \/ UpdateFlush(r) \/ UpdateReplace(r) \/ UpdateCommit(r)
  PROVE  TypeInv'
<1> USE DEF secretRow, history
<1> DEFINE q == requests[r]
<1>0. TypeOK /\ q \in RequestStates BY DEF TypeInv, TypeOK
<1>1. ASSUME NEW w \in Webhooks, NEW p \in Payloads, UpdateRead(r, w, p) PROVE TypeInv'
  <2> DEFINE new == [pc |-> "read", webhook |-> w, read |-> rows[w],
                     new |-> Merge(rows[w], p), relabel |-> p.secret = "set"]
  <2>1. rows[w] \in Row BY <1>0, <1>1 DEF UpdateRead, TypeOK
  <2>2. Merge(rows[w], p) \in Row BY <2>1, MergedIsRow
  <2>3. new \in RequestStates BY <2>1, <2>2 DEF RequestStates
  <2>4. SetRequest(r, new) BY <1>1 DEF UpdateRead
  <2> HIDE DEF new
  <2>5. /\ requests' \in [Requests -> RequestStates] /\ requests'[r] = new
        /\ \A x \in Requests \ {r} : requests'[x] = requests[x]
    BY <1>0, <2>3, <2>4, SetRequestEffect
  <2>6. LocksHold' BY <1>1, <2>5, LocksFrame DEF UpdateRead, Locks, new
  <2> QED BY <1>0, <1>1, <2>5, <2>6, OverlapTypes DEF UpdateRead, TypeInv, TypeOK
<1>2. CASE UpdateFlush(r)
  <2>0. rows' = rows /\ q.pc = "read" BY <1>2 DEF UpdateFlush
  <2>1. CASE Finish(r)
    <3>1. /\ requests' \in [Requests -> RequestStates] /\ requests'[r] = NoRequest
          /\ \A x \in Requests \ {r} : requests'[x] = requests[x]
      BY <1>0, <2>1, FinishEffect
    <3>2. LocksHold' BY <2>0, <3>1, LocksFrame DEF Locks, NoRequest
    <3> QED BY <1>0, <1>2, <3>1, <3>2 DEF UpdateFlush, TypeInv, TypeOK
  <2>2. CASE ~Finish(r)
    <3>1. /\ SetRequest(r, [q EXCEPT !.pc = "flushed"])
          /\ q.new # q.read => rows[q.webhook] # NoRow /\ Unlocked(q.webhook)
      BY <1>2, <2>2 DEF UpdateFlush
    <3>2. /\ requests' \in [Requests -> RequestStates]
          /\ requests'[r] = [pc |-> "flushed", webhook |-> q.webhook, read |-> q.read,
                             new |-> q.new, relabel |-> q.relabel]
          /\ \A x \in Requests \ {r} : requests'[x] = requests[x]
      BY <1>0, <2>0, <3>1, AdvanceEffect, SetRequestEffect
    <3>3. requests'[r].webhook = q.webhook /\ requests'[r].pc = "flushed"
          /\ requests'[r].new = q.new /\ requests'[r].read = q.read
      BY <3>2
    <3>4. LocksHold'
      <4>1. CASE q.new = q.read
        <5>1. ~Locks(requests'[r]) BY <3>3, <4>1 DEF Locks
        <5> QED BY <2>0, <3>2, <5>1, LocksFrame
      <4>2. CASE q.new # q.read
        <5>1. q # NoRequest BY <2>0 DEF NoRequest
        <5> QED BY <2>0, <3>1, <3>2, <3>3, <4>2, <5>1, LockTaken
      <4> QED BY <4>1, <4>2
    <3> QED BY <1>0, <1>2, <3>2, <3>4 DEF UpdateFlush, TypeInv, TypeOK
  <2> QED BY <2>1, <2>2
<1>3. CASE UpdateReplace(r)
  <2>0. rows' = rows /\ q.pc = "flushed" BY <1>3 DEF UpdateReplace
  <2>1. q \in [pc : {"read", "flushed", "replaced"}, webhook : Webhooks, read : Row,
               new : Row, relabel : BOOLEAN]
    BY <1>0, <2>0, RequestFields
  <2>2. registry' \in [Events -> [Webhooks -> Seq(Targets)]]
    <3>1. <<q.new.target>> \in Seq(Targets) BY <2>1 DEF Row
    <3>2. registry' = registry \/ ReplaceInRegistry(q.new.event, q.webhook, q.new.target)
      BY <1>3 DEF UpdateReplace
    <3>3. CASE ReplaceInRegistry(q.new.event, q.webhook, q.new.target)
      <4>1. registry' = [registry EXCEPT ![q.new.event][q.webhook] = <<q.new.target>>]
        BY <3>3 DEF ReplaceInRegistry
      <4> QED BY <1>0, <3>1, <4>1, RegistryWritten
    <3> QED BY <1>0, <3>2, <3>3 DEF TypeOK
  <2>3. CASE Finish(r)
    <3>1. /\ requests' \in [Requests -> RequestStates] /\ requests'[r] = NoRequest
          /\ \A x \in Requests \ {r} : requests'[x] = requests[x]
      BY <1>0, <2>3, FinishEffect
    <3>2. LocksHold' BY <2>0, <3>1, LocksFrame DEF Locks, NoRequest
    <3> QED BY <1>0, <1>3, <2>2, <3>1, <3>2 DEF UpdateReplace, TypeInv, TypeOK
  <2>4. CASE SetRequest(r, [q EXCEPT !.pc = "replaced"])
    <3>1. /\ requests' \in [Requests -> RequestStates]
          /\ requests'[r] = [pc |-> "replaced", webhook |-> q.webhook, read |-> q.read,
                             new |-> q.new, relabel |-> q.relabel]
          /\ \A x \in Requests \ {r} : requests'[x] = requests[x]
      BY <1>0, <2>0, <2>4, AdvanceEffect, SetRequestEffect
    <3>2. LocksHold' BY <2>0, <3>1, LocksFrame DEF Locks
    <3> QED BY <1>0, <1>3, <2>2, <3>1, <3>2 DEF UpdateReplace, TypeInv, TypeOK
  <2> QED BY <1>3, <2>3, <2>4 DEF UpdateReplace
<1>4. CASE UpdateCommit(r)
  <2>0. q.pc = "replaced" BY <1>4 DEF UpdateCommit
  <2>1. q \in [pc : {"read", "flushed", "replaced"}, webhook : Webhooks, read : Row,
               new : Row, relabel : BOOLEAN]
    BY <1>0, <2>0, RequestFields
  <2>2. /\ requests' \in [Requests -> RequestStates] /\ requests'[r] = NoRequest
        /\ \A x \in Requests \ {r} : requests'[x] = requests[x]
    BY <1>0, <1>4, FinishEffect DEF UpdateCommit
  <2>3. q.new # q.read => rows[q.webhook] \in Row
    BY <1>0, <2>0, <2>1 DEF TypeInv, LocksHold, Locks, TypeOK
  <2>4. q.new # q.read => Written(rows[q.webhook], q) \in Row
    BY <2>1, <2>3, WrittenIsRow
  <2>5. rows' = IF q.new = q.read THEN rows
                ELSE [rows EXCEPT ![q.webhook] = Written(rows[q.webhook], q)]
    BY <1>4 DEF UpdateCommit
  <2>6. rows' \in [Webhooks -> Row \cup {NoRow}]
    BY <1>0, <2>1, <2>4, <2>5 DEF TypeOK
  <2>7. \A w \in Webhooks : rows[w] # NoRow => rows'[w] # NoRow
    BY <1>0, <2>1, <2>4, <2>5, RowsAreSome DEF TypeOK
  <2>8. LocksHold'
    <3>1. \A x \in Requests : Locks(requests'[x]) => Locks(requests[x]) /\ requests'[x] = requests[x]
      BY <2>2 DEF Locks, NoRequest
    <3>2. \A x \in Requests : Locks(requests[x]) => requests[x].webhook \in Webhooks
      BY <1>0, RequestFields DEF TypeOK, Locks
    <3> QED BY <2>7, <3>1, <3>2 DEF TypeInv, LocksHold
  <2>9. lingering' \in SUBSET Webhooks BY <1>0, <1>4, <2>1 DEF UpdateCommit, TypeOK
  <2> QED BY <1>0, <1>4, <2>2, <2>6, <2>8, <2>9 DEF UpdateCommit, TypeInv, TypeOK
<1> QED BY <1>1, <1>2, <1>3, <1>4

LEMMA DeleteTypes ==
  ASSUME TypeInv, NEW r \in Requests,
         (\E w \in Webhooks : DeleteRead(r, w)) \/ DeleteRemove(r) \/ DeleteCommit(r)
  PROVE  TypeInv'
<1> USE DEF secretRow, history
<1> DEFINE q == requests[r]
<1>0. TypeOK /\ q \in RequestStates BY DEF TypeInv, TypeOK
<1>1. ASSUME NEW w \in Webhooks, DeleteRead(r, w) PROVE TypeInv'
  <2> DEFINE new == [pc |-> "found", webhook |-> w, event |-> rows[w].event]
  <2>1. rows[w] \in Row BY <1>0, <1>1 DEF DeleteRead, TypeOK
  <2>2. new \in RequestStates BY <2>1 DEF RequestStates, Row
  <2>3. SetRequest(r, new) BY <1>1 DEF DeleteRead
  <2> HIDE DEF new
  <2>4. /\ requests' \in [Requests -> RequestStates] /\ requests'[r] = new
        /\ \A x \in Requests \ {r} : requests'[x] = requests[x]
    BY <1>0, <2>2, <2>3, SetRequestEffect
  <2>5. LocksHold' BY <1>1, <2>4, LocksFrame DEF DeleteRead, Locks, new
  <2> QED BY <1>0, <1>1, <2>4, <2>5, OverlapTypes DEF DeleteRead, TypeInv, TypeOK
<1>2. CASE DeleteRemove(r)
  <2>0. rows' = rows /\ q.pc = "found" BY <1>2 DEF DeleteRemove
  <2>1. q \in [pc : {"found", "removed"}, webhook : Webhooks, event : EventNames]
    BY <1>0, <2>0, RequestFields
  <2>2. registry' \in [Events -> [Webhooks -> Seq(Targets)]]
    <3>1. registry' = registry \/ RemoveFromRegistry(q.event, q.webhook)
      BY <1>2 DEF DeleteRemove
    <3>2. CASE RemoveFromRegistry(q.event, q.webhook)
      <4>1. registry' = [registry EXCEPT ![q.event][q.webhook] = <<>>]
        BY <3>2 DEF RemoveFromRegistry
      <4>2. <<>> \in Seq(Targets) OBVIOUS
      <4> QED BY <1>0, <4>1, <4>2, RegistryWritten
    <3> QED BY <1>0, <3>1, <3>2 DEF TypeOK
  <2>3. CASE Finish(r)
    <3>1. /\ requests' \in [Requests -> RequestStates] /\ requests'[r] = NoRequest
          /\ \A x \in Requests \ {r} : requests'[x] = requests[x]
      BY <1>0, <2>3, FinishEffect
    <3>2. LocksHold' BY <2>0, <3>1, LocksFrame DEF Locks, NoRequest
    <3> QED BY <1>0, <1>2, <2>2, <3>1, <3>2 DEF DeleteRemove, TypeInv, TypeOK
  <2>4. CASE ~Finish(r)
    <3>0. /\ SetRequest(r, [q EXCEPT !.pc = "removed"])
          /\ rows[q.webhook] # NoRow /\ Unlocked(q.webhook)
      BY <1>2, <2>4 DEF DeleteRemove
    <3>1. /\ requests' \in [Requests -> RequestStates]
          /\ requests'[r] = [pc |-> "removed", webhook |-> q.webhook, event |-> q.event]
          /\ \A x \in Requests \ {r} : requests'[x] = requests[x]
      BY <1>0, <2>0, <3>0, AdvanceEffect, SetRequestEffect
    <3>2. LocksHold' BY <2>0, <3>0, <3>1, LockTaken DEF NoRequest
    <3> QED BY <1>0, <1>2, <2>2, <3>1, <3>2 DEF DeleteRemove, TypeInv, TypeOK
  <2> QED BY <2>3, <2>4
<1>3. CASE DeleteCommit(r)
  <2>0. q.pc = "removed" /\ rows' = [rows EXCEPT ![q.webhook] = NoRow]
    BY <1>3 DEF DeleteCommit
  <2>1. /\ requests' \in [Requests -> RequestStates] /\ requests'[r] = NoRequest
        /\ \A x \in Requests \ {r} : requests'[x] = requests[x]
    BY <1>0, <1>3, FinishEffect DEF DeleteCommit
  <2>2. rows' \in [Webhooks -> Row \cup {NoRow}] BY <1>0, <2>0 DEF TypeOK
  <2>3. LocksHold'
    <3>1. Locks(q) BY <2>0 DEF Locks
    <3>2. \A x \in Requests :
            Locks(requests'[x]) => Locks(requests[x]) /\ requests'[x] = requests[x] /\ x # r
      BY <2>1 DEF Locks, NoRequest
    <3>3. \A x \in Requests : Locks(requests'[x]) =>
            requests[x].webhook # q.webhook /\ requests[x].webhook \in Webhooks
      BY <1>0, <3>1, <3>2, RequestFields DEF TypeInv, LocksHold, TypeOK, Locks
    <3> QED BY <1>0, <2>0, <3>2, <3>3 DEF TypeInv, LocksHold, TypeOK
  <2> QED BY <1>0, <1>3, <2>1, <2>2, <2>3 DEF DeleteCommit, TypeInv, TypeOK
<1> QED BY <1>1, <1>2, <1>3

LEMMA TypesStep == ASSUME TypeInv, [Next]_vars PROVE TypeInv'
<1> USE DEF secretRow, history
<1>0. TypeOK BY DEF TypeInv
<1>1. CASE UNCHANGED vars
  BY <1>1 DEF vars, TypeInv, TypeOK, LocksHold, Locks
<1>2. ASSUME NEW r \in Requests, RequestFail(r) PROVE TypeInv'
  <2>1. /\ requests' \in [Requests -> RequestStates] /\ requests'[r] = NoRequest
        /\ \A x \in Requests \ {r} : requests'[x] = requests[x]
    BY <1>0, <1>2, FinishEffect DEF RequestFail
  <2>2. LocksHold' BY <1>2, <2>1, LocksFrame DEF RequestFail, Locks, NoRequest
  <2>3. budget' \in [toggles : Nat, failures : Nat, restarts : Nat]
    BY <1>0, <1>2, BudgetType DEF RequestFail, TypeOK
  <2>4. requests[r].webhook \in Webhooks
    BY <1>0, <1>2, RequestFields DEF RequestFail, TypeOK
  <2>5. missable' \in SUBSET Webhooks /\ lingering' \in SUBSET Webhooks
    BY <1>0, <1>2, <2>4 DEF RequestFail, TypeOK
  <2> QED BY <1>0, <1>2, <2>1, <2>2, <2>3, <2>5 DEF RequestFail, TypeInv, TypeOK
<1>3. CASE ToggleSecret \/ DeleteSecret
  <2>1. budget' \in [toggles : Nat, failures : Nat, restarts : Nat]
    BY <1>0, <1>3, BudgetType DEF ToggleSecret, DeleteSecret, TypeOK
  <2> QED BY <1>0, <1>3, <2>1 DEF ToggleSecret, DeleteSecret, TypeInv, TypeOK, LocksHold, Locks
<1>4. CASE Restart
  <2>1. budget' \in [toggles : Nat, failures : Nat, restarts : Nat]
    BY <1>0, <1>4, BudgetType DEF Restart, TypeOK
  <2>2. requests' \in [Requests -> RequestStates] /\ LocksHold'
    BY <1>4 DEF Restart, RequestStates, LocksHold, Locks, NoRequest
  <2>3. registry' \in [Events -> [Webhooks -> Seq(Targets)]]
    <3>1. \A e \in Events, w \in Webhooks :
            (IF Loaded(e, w) THEN <<rows[w].target>> ELSE <<>>) \in Seq(Targets)
      BY <1>0 DEF Loaded, TypeOK, Row
    <3> QED BY <1>4, <3>1 DEF Restart
  <2>4. missable' \in SUBSET Webhooks BY <1>4 DEF Restart
  <2>5. up' \in BOOLEAN BY <1>4 DEF Restart
  <2> QED BY <1>0, <1>4, <2>1, <2>2, <2>3, <2>4, <2>5 DEF Restart, TypeInv, TypeOK
<1> QED BY <1>1, <1>2, <1>3, <1>4, CreateTypes, UpdateTypes, DeleteTypes DEF Next

(* Types hold, which the lock a flushed change holds on its row takes: no   *)
(* update is written over a row that a delete took away.                   *)
THEOREM TypeCorrect == Spec => []TypeOK
<1>1. TypeInv => TypeOK BY DEF TypeInv
<1> QED BY <1>1, TypesInit, TypesStep, PTL DEF Spec

-----------------------------------------------------------------------------
(* The registrations of one webhook.                                       *)

(* What a request holds from the steps behind it, whatever others do.      *)
RequestOK(r) ==
  LET q == requests[r] IN
  /\ q.pc \in {"inserted", "created"} => q.new.event \in Events /\ q.new.enabled = "on"
  /\ q.pc \in {"read", "flushed", "replaced"} =>
       (q.read.secret = "set" => q.new.secret = "set")
  /\ q.pc = "replaced" => q.new.secret = "none" \/ q.new.event \in Events
  /\ q.pc = "removed" => q.event \in Events

(* Nothing but its creation works on a webhook without a row, and nothing  *)
(* is registered for it before the creation does so.                       *)
FreshInv(w) ==
  /\ w \in unused =>
       /\ rows[w] = NoRow /\ Idle(w)
       /\ \A e \in Events : registry[e][w] = <<>>
  /\ \A r \in Requests : On(r, w) /\ requests[r].pc \in {"inserted", "created"} =>
       /\ rows[w] = NoRow /\ \A q \in Requests : On(q, w) => q = r
       /\ requests[r].pc = "inserted" => \A e \in Events : registry[e][w] = <<>>

SingleInv(w) == \A e \in Events : Len(registry[e][w]) <= 1

(* As long as no two requests on w overlapped, the row is the one that the *)
(* request at work on it read.                                             *)
RowView(r) ==
  LET q == requests[r]
      row == rows[q.webhook] IN
  /\ q.pc \in {"read", "flushed", "replaced"} => row = q.read
  /\ q.pc \in {"found", "removed"} => row # NoRow /\ row.event = q.event

Clean(w) == w \notin missable \/ w \notin lingering \/ w \notin overlapped

ViewInv(w) ==
  Clean(w) =>
    /\ \A q, r \in Requests : On(q, w) /\ On(r, w) => q = r
    /\ \A r \in Requests : On(r, w) => RowView(r)

(* A request has registered w for event e on the strength of a change it   *)
(* has not committed.                                                      *)
Ahead(r, w, e) ==
  /\ On(r, w) /\ requests[r].pc \in {"created", "replaced"}
  /\ requests[r].new.secret = "set" /\ requests[r].new.event = e

PresentInv(w) ==
  w \notin missable =>
    /\ \A r \in Requests, e \in Events :
         Ahead(r, w, e) => registry[e][w] = <<requests[r].new.target>>
    /\ (\A r \in Requests : On(r, w) => requests[r].pc \notin {"replaced", "removed"}) =>
         \A e \in Events : Wants(w, e) => registry[e][w] = <<rows[w].target>>

AbsentInv(w) ==
  w \notin lingering =>
    /\ \A e \in Events : registry[e][w] # <<>> =>
         Wants(w, e) \/ \E r \in Requests : Ahead(r, w, e)
    /\ \A r \in Requests : On(r, w) /\ requests[r].pc = "removed" =>
         \A e \in Events : registry[e][w] = <<>>

StartInv(w) ==
  w \notin overlapped => rows[w] = NoRow \/ rows[w].secret = "none" \/ rows[w].event \in Events

WebhookInv(w) ==
  FreshInv(w) /\ SingleInv(w) /\ ViewInv(w) /\ PresentInv(w) /\ AbsentInv(w) /\ StartInv(w)

RegistryInv ==
  /\ TypeInv
  /\ \A r \in Requests : RequestOK(r)
  /\ \A w \in Webhooks : WebhookInv(w)
  /\ ~up => overlapped # {}

LEMMA RegistryInit == Init => RegistryInv
<1> SUFFICES ASSUME Init PROVE RegistryInv OBVIOUS
<1>1. \A r \in Requests : requests[r].pc = "none" /\ requests[r] = NoRequest
  BY DEF Init, NoRequest
<1>2. \A r \in Requests : RequestOK(r) BY <1>1 DEF RequestOK
<1>3. ASSUME NEW w \in Webhooks PROVE WebhookInv(w)
  <2>1. /\ rows[w] = NoRow /\ \A e \in Events : registry[e][w] = <<>>
        /\ \A r \in Requests : ~On(r, w)
    BY <1>1 DEF Init, On
  <2> QED BY <2>1 DEF WebhookInv, FreshInv, SingleInv, ViewInv, PresentInv, AbsentInv,
                      StartInv, Idle, Ahead, Wants
<1> QED BY <1>2, <1>3, TypesInit DEF RegistryInv, Init

Put(e, w, list) == registry' = [registry EXCEPT ![e][w] = list]

(* A write of one list leaves the others.                                  *)
LEMMA RegistryAfter ==
  ASSUME TypeOK, NEW e, NEW w, NEW list, Put(e, w, list),
         NEW x \in Events, NEW v \in Webhooks
  PROVE  registry'[x][v] = IF x = e /\ v = w THEN list ELSE registry[x][v]
<1>1. registry \in [Events -> [Webhooks -> Seq(Targets)]] BY DEF TypeOK
<1>2. registry'[x] = IF x = e THEN [registry[e] EXCEPT ![w] = list] ELSE registry[x]
  BY <1>1 DEF Put
<1>3. registry[x] \in [Webhooks -> Seq(Targets)] BY <1>1
<1> QED BY <1>2, <1>3

LEMMA ShortLists == Len(<<>>) = 0 /\ \A t : Len(<<t>>) = 1
  OBVIOUS

(* What a step leaves alone stays right.                                   *)
LEMMA WebhookFrame ==
  ASSUME NEW w \in Webhooks, WebhookInv(w), rows'[w] = rows[w],
         \A e \in Events : registry'[e][w] = registry[e][w],
         \A r \in Requests : On(r, w) \/ On(r, w)' => requests'[r] = requests[r],
         w \in missable => w \in missable', w \in lingering => w \in lingering',
         w \in overlapped => w \in overlapped', unused' \subseteq unused
  PROVE  WebhookInv(w)'
<1>1. \A r \in Requests : On(r, w)' <=> On(r, w) BY DEF On
<1>2. \A r \in Requests : On(r, w) => requests'[r] = requests[r] /\ requests[r].webhook = w
  BY DEF On
<1>3. FreshInv(w)' BY <1>1, <1>2 DEF WebhookInv, FreshInv, Idle
<1>4. SingleInv(w)' BY DEF WebhookInv, SingleInv
<1>5. ViewInv(w)'
  <2>1. Clean(w)' => Clean(w) BY DEF Clean
  <2>2. \A r \in Requests : On(r, w) /\ RowView(r) => RowView(r)' BY <1>2 DEF RowView
  <2> QED BY <1>1, <2>1, <2>2 DEF WebhookInv, ViewInv
<1>6. \A r \in Requests, e \in Events :
        /\ Ahead(r, w, e)' <=> Ahead(r, w, e)
        /\ Ahead(r, w, e) => requests'[r] = requests[r]
  BY <1>1, <1>2 DEF Ahead
<1>7. \A e \in Events : Wants(w, e)' <=> Wants(w, e) BY DEF Wants
<1>8. PresentInv(w)' BY <1>1, <1>2, <1>6, <1>7 DEF WebhookInv, PresentInv
<1>9. AbsentInv(w)' BY <1>1, <1>2, <1>6, <1>7 DEF WebhookInv, AbsentInv
<1>10. StartInv(w)' BY DEF WebhookInv, StartInv
<1> QED BY <1>3, <1>4, <1>5, <1>8, <1>9, <1>10 DEF WebhookInv

(* A request ends that has not touched the registries, or that is noted.   *)
LEMMA RequestEnds ==
  ASSUME NEW w \in Webhooks, WebhookInv(w), NEW r \in Requests, On(r, w),
         requests'[r] = NoRequest, \A x \in Requests \ {r} : requests'[x] = requests[x],
         UNCHANGED <<rows, registry, unused>>,
         w \in missable => w \in missable', w \in lingering => w \in lingering',
         w \in overlapped => w \in overlapped',
         requests[r].pc \in {"created", "replaced", "removed"}
           => w \in missable' /\ w \in lingering'
  PROVE  WebhookInv(w)'
<1>1. \A x \in Requests : On(x, w)' => On(x, w) /\ x # r /\ requests'[x] = requests[x]
  BY DEF On
<1>2. \A x \in Requests : On(x, w) => On(x, w)' \/ x = r BY DEF On
<1>3. FreshInv(w)' BY <1>1 DEF WebhookInv, FreshInv, Idle
<1>4. SingleInv(w)' BY DEF WebhookInv, SingleInv
<1>5. ViewInv(w)'
  <2>1. Clean(w)' => Clean(w) BY DEF Clean
  <2>2. \A x \in Requests : On(x, w)' /\ RowView(x) => RowView(x)' BY <1>1 DEF RowView
  <2> QED BY <1>1, <2>1, <2>2 DEF WebhookInv, ViewInv
<1>6. \A e \in Events : Wants(w, e)' <=> Wants(w, e) BY DEF Wants
<1>7. PresentInv(w)'
  <2> SUFFICES ASSUME w \notin missable' PROVE PresentInv(w)' BY DEF PresentInv
  <2>1. /\ w \notin missable
        /\ requests[r].pc \notin {"replaced", "removed"}
    OBVIOUS
  <2>2. \A x \in Requests, e \in Events :
          Ahead(x, w, e)' => Ahead(x, w, e) /\ requests'[x] = requests[x]
    BY <1>1 DEF Ahead
  <2>3. (\A x \in Requests : On(x, w)' => requests'[x].pc \notin {"replaced", "removed"})
          => \A x \in Requests : On(x, w) => requests[x].pc \notin {"replaced", "removed"}
    BY <1>2, <2>1
  <2> QED BY <1>6, <2>1, <2>2, <2>3 DEF WebhookInv, PresentInv
<1>8. AbsentInv(w)'
  <2> SUFFICES ASSUME w \notin lingering' PROVE AbsentInv(w)' BY DEF AbsentInv
  <2>1. w \notin lingering /\ requests[r].pc \notin {"created", "replaced"} OBVIOUS
  <2>2. \A x \in Requests, e \in Events : Ahead(x, w, e) => Ahead(x, w, e)'
    BY <2>1 DEF Ahead, On
  <2> QED BY <1>1, <1>6, <2>1, <2>2 DEF WebhookInv, AbsentInv
<1>9. StartInv(w)' BY DEF WebhookInv, StartInv
<1> QED BY <1>3, <1>4, <1>5, <1>7, <1>8, <1>9 DEF WebhookInv

(* A request on w that is not its creation starts or goes on, having read   *)
(* the row: it is alone, or the overlap is noted.                          *)
LEMMA RequestReads ==
  ASSUME NEW w \in Webhooks, WebhookInv(w), NEW r \in Requests,
         requests'[r] # NoRequest, requests'[r].webhook = w,
         requests'[r].pc \in {"read", "flushed", "found"},
         \A x \in Requests \ {r} : requests'[x] = requests[x],
         UNCHANGED <<rows, registry, unused>>,
         w \in missable => w \in missable', w \in lingering => w \in lingering',
         w \in overlapped => w \in overlapped',
         \/ requests[r] = NoRequest /\ rows[w] # NoRow
         \/ On(r, w) /\ requests[r].pc \in {"read", "flushed"},
         Clean(w)' => RowView(r)' /\ \A x \in Requests \ {r} : ~On(x, w)
  PROVE  WebhookInv(w)'
<1>1. /\ On(r, w)'
      /\ \A x \in Requests \ {r} : On(x, w)' <=> On(x, w)
  BY DEF On
<1>2. w \notin unused /\ \A x \in Requests :
        On(x, w) => requests[x].pc \notin {"inserted", "created"}
  <2>1. CASE requests[r] = NoRequest /\ rows[w] # NoRow
    BY <2>1 DEF WebhookInv, FreshInv
  <2>2. CASE On(r, w) /\ requests[r].pc \in {"read", "flushed"}
    BY <2>2 DEF WebhookInv, FreshInv, Idle
  <2> QED BY <2>1, <2>2
<1>3. FreshInv(w)' BY <1>1, <1>2 DEF FreshInv
<1>4. SingleInv(w)' BY DEF WebhookInv, SingleInv
<1>5. Clean(w)' => Clean(w) BY DEF Clean
<1>6. ViewInv(w)' BY <1>1 DEF ViewInv
<1>7. \A e \in Events : Wants(w, e)' <=> Wants(w, e) BY DEF Wants
<1>8. requests[r].pc \in {"none", "read", "flushed"} BY DEF NoRequest
<1>9. PresentInv(w)'
  <2> SUFFICES ASSUME w \notin missable' PROVE PresentInv(w)' BY DEF PresentInv
  <2>1. \A x \in Requests \ {r} : ~On(x, w) /\ ~On(x, w)' BY <1>1 DEF Clean
  <2>2. \A x \in Requests : On(x, w) => requests[x].pc \notin {"replaced", "removed"}
    BY <1>8, <2>1
  <2>3. \A x \in Requests, e \in Events : ~Ahead(x, w, e)' BY <2>1 DEF Ahead
  <2> QED BY <1>7, <2>2, <2>3 DEF WebhookInv, PresentInv
<1>10. AbsentInv(w)'
  <2> SUFFICES ASSUME w \notin lingering' PROVE AbsentInv(w)' BY DEF AbsentInv
  <2>1. \A x \in Requests \ {r} : ~On(x, w) /\ ~On(x, w)' BY <1>1 DEF Clean
  <2>2. \A x \in Requests, e \in Events : ~Ahead(x, w, e) BY <1>8, <2>1 DEF Ahead
  <2> QED BY <1>7, <2>1, <2>2 DEF WebhookInv, AbsentInv
<1>11. StartInv(w)' BY DEF WebhookInv, StartInv
<1> QED BY <1>3, <1>4, <1>6, <1>9, <1>10, <1>11 DEF WebhookInv

(* A request on w other than its creation excludes the creation.           *)
LEMMA NoCreation ==
  ASSUME NEW w \in Webhooks, WebhookInv(w), NEW r \in Requests, On(r, w),
         requests[r].pc \notin {"inserted", "created"}
  PROVE  /\ w \notin unused
         /\ \A x \in Requests : On(x, w) => requests[x].pc \notin {"inserted", "created"}
  BY DEF WebhookInv, FreshInv, Idle

(* The creation of w: the row, whose registration waits for it. *)
LEMMA CreateRegistered ==
  ASSUME TypeInv, NEW w \in Webhooks, WebhookInv(w), NEW r \in Requests, RequestOK(r),
         requests[r].webhook = w, CreateRegister(r) \/ CreateCommit(r)
  PROVE  WebhookInv(w)'
<1> USE DEF secretRow, history
<1> DEFINE q == requests[r]
<1>0. TypeOK /\ q \in RequestStates BY DEF TypeInv, TypeOK
<1>1. /\ q.pc \in {"inserted", "created"} /\ q.new \in Row
      /\ q.new.event \in Events /\ q.new.enabled = "on"
  BY <1>0, RequestFields DEF CreateRegister, CreateCommit, RequestOK
<1>2. On(r, w) BY <1>1 DEF On, NoRequest
<1>3. rows[w] = NoRow /\ w \notin unused /\ \A x \in Requests : On(x, w) => x = r
  BY <1>1, <1>2 DEF WebhookInv, FreshInv, Idle
<1>4. CASE CreateRegister(r)
  <2>0. q.pc = "inserted" /\ UNCHANGED <<rows, unused, missable, lingering, overlapped>>
    BY <1>4 DEF CreateRegister
  <2>1. /\ requests'[r] = [pc |-> "created", webhook |-> w, new |-> q.new]
        /\ \A x \in Requests \ {r} : requests'[x] = requests[x]
    BY <1>0, <1>4, <2>0, AdvanceEffect, SetRequestEffect DEF CreateRegister
  <2>2. On(r, w)' /\ \A x \in Requests : On(x, w)' => x = r
    BY <1>3, <2>1 DEF On, NoRequest
  <2>3. \A e \in Events : registry[e][w] = <<>>
    BY <1>2, <2>0 DEF WebhookInv, FreshInv
  <2>4. ASSUME NEW e \in Events
        PROVE  registry'[e][w] = IF q.new.secret = "set" /\ e = q.new.event
                                   THEN <<q.new.target>> ELSE <<>>
    <3>1. CASE q.new.secret = "set"
      <4>1. Put(q.new.event, w, Append(registry[q.new.event][w], q.new.target))
        BY <1>4, <3>1 DEF CreateRegister, AddToRegistry, Put
      <4>2. Append(registry[q.new.event][w], q.new.target) = <<q.new.target>>
        <5>1. registry[q.new.event][w] = <<>> BY <1>1, <2>3
        <5> QED BY <5>1
      <4>3. Put(q.new.event, w, <<q.new.target>>) BY <4>1, <4>2
      <4> QED BY <1>0, <2>3, <3>1, <4>3, RegistryAfter
    <3>2. CASE q.new.secret # "set" BY <1>4, <2>3, <3>2 DEF CreateRegister
    <3> QED BY <3>1, <3>2
  <2>5. FreshInv(w)' BY <1>3, <2>0, <2>1, <2>2 DEF FreshInv
  <2>6. SingleInv(w)'
    <3>1. ASSUME NEW e \in Events PROVE Len(registry'[e][w]) <= 1
      <4>1. registry'[e][w] = <<q.new.target>> \/ registry'[e][w] = <<>> BY <2>4
      <4>2. CASE registry'[e][w] = <<q.new.target>> BY <4>2, ShortLists
      <4>3. CASE registry'[e][w] = <<>> BY <4>3, ShortLists
      <4> QED BY <4>1, <4>2, <4>3
    <3> QED BY <3>1 DEF SingleInv
  <2>7. ViewInv(w)' BY <2>1, <2>2 DEF ViewInv, RowView
  <2>8. \A e \in Events : ~Wants(w, e)' BY <1>3, <2>0 DEF Wants
  <2>9. \A x \in Requests, e \in Events :
          Ahead(x, w, e)' <=> x = r /\ q.new.secret = "set" /\ q.new.event = e
    BY <2>1, <2>2 DEF Ahead
  <2>10. PresentInv(w)' BY <2>1, <2>4, <2>8, <2>9 DEF PresentInv
  <2>11. AbsentInv(w)' BY <2>1, <2>2, <2>4, <2>9 DEF AbsentInv
  <2>12. StartInv(w)' BY <1>3, <2>0 DEF StartInv
  <2> QED BY <2>5, <2>6, <2>7, <2>10, <2>11, <2>12 DEF WebhookInv
<1>5. CASE CreateCommit(r)
  <2>0. q.pc = "created" /\ UNCHANGED <<registry, unused, missable, lingering, overlapped>>
    BY <1>5 DEF CreateCommit
  <2>1. \A x \in Requests : ~On(x, w)' BY <1>0, <1>3, <1>5, FinishEffect DEF CreateCommit, On
  <2>2. rows'[w] = q.new /\ rows'[w] # NoRow
    BY <1>0, <1>1, <1>5, RowsAreSome DEF CreateCommit, TypeOK
  <2>3. FreshInv(w)' BY <1>3, <2>0, <2>1 DEF FreshInv
  <2>4. SingleInv(w)' BY <2>0 DEF WebhookInv, SingleInv
  <2>5. ViewInv(w)' BY <2>1 DEF ViewInv
  <2>6. \A e \in Events : Wants(w, e)' <=> Ahead(r, w, e)
    BY <1>1, <1>2, <2>0, <2>2 DEF Wants, Ahead
  <2>7. PresentInv(w)' BY <2>0, <2>1, <2>2, <2>6 DEF WebhookInv, PresentInv, Ahead
  <2>8. \A x \in Requests, e \in Events : Ahead(x, w, e) => x = r BY <1>3 DEF Ahead
  <2>9. \A e \in Events : ~Wants(w, e) BY <1>3 DEF Wants
  <2>10. AbsentInv(w)' BY <2>0, <2>1, <2>6, <2>8, <2>9 DEF WebhookInv, AbsentInv
  <2>11. StartInv(w)' BY <1>1, <2>2 DEF StartInv
  <2> QED BY <2>3, <2>4, <2>5, <2>7, <2>10, <2>11 DEF WebhookInv
<1> QED BY <1>4, <1>5

(* An update has registered what it is to commit.  *)
LEMMA UpdateRegistered ==
  ASSUME TypeInv, NEW w \in Webhooks, WebhookInv(w), NEW r \in Requests, RequestOK(r),
         requests[r].webhook = w, UpdateReplace(r), ~Finish(r)
  PROVE  WebhookInv(w)'
<1> USE DEF secretRow, history
<1> DEFINE q == requests[r]
<1>0. TypeOK /\ q \in RequestStates BY DEF TypeInv, TypeOK
<1>1. /\ q.pc = "flushed" /\ On(r, w)
      /\ UNCHANGED <<rows, unused, missable, lingering, overlapped>>
      /\ SetRequest(r, [q EXCEPT !.pc = "replaced"])
      /\ \/ q.new.secret = "none" /\ registry' = registry
         \/ q.new.secret # "none" /\ Put(q.new.event, w, <<q.new.target>>)
  BY DEF UpdateReplace, ReplaceInRegistry, On, NoRequest, Put
<1>2. q.new \in Row BY <1>0, <1>1, RequestFields
<1>3. /\ requests'[r] = [pc |-> "replaced", webhook |-> w, read |-> q.read, new |-> q.new,
                         relabel |-> q.relabel]
      /\ \A x \in Requests \ {r} : requests'[x] = requests[x]
  BY <1>0, <1>1, AdvanceEffect, SetRequestEffect
<1>4. On(r, w)' /\ \A x \in Requests : On(x, w)' <=> On(x, w)
  BY <1>1, <1>3 DEF On, NoRequest
<1>5. \A e \in Events :
        \/ registry'[e][w] = registry[e][w]
             /\ (q.new.secret = "none" \/ e # q.new.event)
        \/ registry'[e][w] = <<q.new.target>> /\ e = q.new.event
             /\ q.new.secret # "none"
  <2>1. CASE q.new.secret = "none" /\ registry' = registry BY <2>1
  <2>2. CASE q.new.secret # "none" /\ Put(q.new.event, w, <<q.new.target>>)
    BY <1>0, <2>2, RegistryAfter
  <2> QED BY <1>1, <2>1, <2>2
<1>6. FreshInv(w)' BY <1>1, <1>3, <1>4, NoCreation DEF FreshInv
<1>7. SingleInv(w)'
  <2>1. ASSUME NEW e \in Events PROVE Len(registry'[e][w]) <= 1
    <3>1. CASE registry'[e][w] = registry[e][w] BY <3>1 DEF WebhookInv, SingleInv
    <3>2. CASE registry'[e][w] = <<q.new.target>> BY <3>2, ShortLists
    <3> QED BY <1>5, <3>1, <3>2
  <2> QED BY <2>1 DEF SingleInv
<1>8. Clean(w)' <=> Clean(w) BY <1>1 DEF Clean
<1>9. Clean(w) => RowView(r) /\ \A x \in Requests : On(x, w) => x = r
  BY <1>1 DEF WebhookInv, ViewInv
<1>10. ViewInv(w)' BY <1>1, <1>3, <1>4, <1>8, <1>9 DEF ViewInv, RowView
<1>11. \A e \in Events : Ahead(r, w, e)' <=> q.new.secret = "set" /\ q.new.event = e
  BY <1>3, <1>4 DEF Ahead
<1>12. PresentInv(w)'
  <2> SUFFICES ASSUME w \notin missable PROVE PresentInv(w)' BY <1>1 DEF PresentInv
  <2>1. \A x \in Requests : On(x, w)' => x = r BY <1>4, <1>9 DEF Clean
  <2>2. ASSUME NEW x \in Requests, NEW e \in Events, Ahead(x, w, e)'
        PROVE  registry'[e][w] = <<requests'[x].new.target>>
    <3>1. x = r BY <2>1, <2>2 DEF Ahead
    <3> QED BY <1>3, <1>5, <1>11, <2>2, <3>1
  <2> QED BY <1>3, <1>4, <2>2 DEF PresentInv
<1>13. AbsentInv(w)'
  <2> SUFFICES ASSUME w \notin lingering PROVE AbsentInv(w)' BY <1>1 DEF AbsentInv
  <2>1. \A x \in Requests : On(x, w) => x = r BY <1>9 DEF Clean
  <2>2. \A x \in Requests, e \in Events : ~Ahead(x, w, e) BY <1>1, <2>1 DEF Ahead
  <2>3. \A e \in Events : Wants(w, e)' <=> Wants(w, e) BY <1>1 DEF Wants
  <2>4. ASSUME NEW e \in Events, registry'[e][w] # <<>>
        PROVE  Wants(w, e)' \/ Ahead(r, w, e)'
    <3>1. CASE registry'[e][w] = registry[e][w]
      BY <2>2, <2>3, <2>4, <3>1 DEF WebhookInv, AbsentInv
    <3>2. CASE registry'[e][w] # registry[e][w]
      <4>1. e = q.new.event /\ q.new.secret # "none" BY <1>1, <1>5, <3>2
      <4> QED BY <1>2, <1>11, <4>1 DEF Row
    <3> QED BY <3>1, <3>2
  <2>5. \A x \in Requests : On(x, w)' => requests'[x].pc # "removed"
    BY <1>3, <1>4, <2>1
  <2> QED BY <2>4, <2>5 DEF AbsentInv
<1>14. StartInv(w)' BY <1>1 DEF WebhookInv, StartInv
<1> QED BY <1>6, <1>7, <1>10, <1>12, <1>13, <1>14 DEF WebhookInv

(* An update commits what it registered. *)
LEMMA UpdateCommitted ==
  ASSUME TypeInv, NEW w \in Webhooks, WebhookInv(w), NEW r \in Requests, RequestOK(r),
         requests[r].webhook = w, UpdateCommit(r)
  PROVE  WebhookInv(w)'
<1> USE DEF secretRow, history
<1> DEFINE q == requests[r]
<1>0. TypeOK /\ q \in RequestStates BY DEF TypeInv, TypeOK
<1>1. /\ q.pc = "replaced" /\ On(r, w)
      /\ UNCHANGED <<registry, unused, missable, overlapped>>
      /\ w \in lingering => w \in lingering'
  BY DEF UpdateCommit, On, NoRequest
<1>2. q.new \in Row /\ q.read \in Row BY <1>0, <1>1, RequestFields
<1>3. \A x \in Requests : On(x, w)' => On(x, w) /\ x # r /\ requests'[x] = requests[x]
  BY <1>0, FinishEffect DEF UpdateCommit, On
<1>4. FreshInv(w)' BY <1>1, <1>3, NoCreation DEF FreshInv
<1>5. SingleInv(w)' BY <1>1 DEF WebhookInv, SingleInv
<1>6. CASE ~Clean(w)
  <2>1. ~Clean(w)' BY <1>1, <1>6 DEF Clean
  <2> QED BY <1>4, <1>5, <2>1 DEF WebhookInv, ViewInv, PresentInv, AbsentInv, StartInv, Clean
<1>7. CASE Clean(w)
  <2>1. rows[w] = q.read /\ \A x \in Requests : ~On(x, w)'
    BY <1>1, <1>3, <1>7 DEF WebhookInv, ViewInv, RowView
  <2>2. rows'[w] = q.new /\ rows'[w] # NoRow /\ rows[w] # NoRow
    BY <1>0, <1>2, <2>1, WrittenIsNew, RowsAreSome DEF UpdateCommit, TypeOK
  <2>3. ViewInv(w)' BY <2>1 DEF ViewInv
  <2>4. \A e \in Events : Ahead(r, w, e) <=> q.new.secret = "set" /\ q.new.event = e
    BY <1>1 DEF Ahead
  <2>5. PresentInv(w)'
    <3>1. \A e \in Events : Wants(w, e)' => Ahead(r, w, e) BY <2>2, <2>4 DEF Wants
    <3> QED BY <1>1, <2>1, <2>2, <3>1 DEF WebhookInv, PresentInv, Ahead
  <2>6. AbsentInv(w)'
    <3> SUFFICES ASSUME w \notin lingering' PROVE AbsentInv(w)' BY DEF AbsentInv
    <3>1. q.new.event = q.read.event /\ q.new.enabled = "on"
      BY <1>2 DEF UpdateCommit, Row
    <3>2. \A x \in Requests, e \in Events : Ahead(x, w, e) => x = r
      BY <1>1, <1>7 DEF Ahead, WebhookInv, ViewInv
    <3>3. \A e \in Events : Wants(w, e) => Wants(w, e)'
      BY <1>1, <2>1, <2>2, <3>1 DEF Wants, RequestOK
    <3>4. \A e \in Events : Ahead(r, w, e) => Wants(w, e)'
      BY <2>2, <2>4, <3>1 DEF Wants
    <3> QED BY <1>1, <2>1, <3>2, <3>3, <3>4 DEF WebhookInv, AbsentInv
  <2>7. StartInv(w)' BY <1>1, <2>2 DEF StartInv, RequestOK
  <2> QED BY <1>4, <1>5, <2>3, <2>5, <2>6, <2>7 DEF WebhookInv
<1> QED BY <1>6, <1>7

(* A delete takes the registration away, then the row. *)
LEMMA DeleteRegistered ==
  ASSUME TypeInv, NEW w \in Webhooks, WebhookInv(w), NEW r \in Requests,
         requests[r].webhook = w, (DeleteRemove(r) /\ ~Finish(r)) \/ DeleteCommit(r)
  PROVE  WebhookInv(w)'
<1> USE DEF secretRow, history
<1> DEFINE q == requests[r]
<1>0. TypeOK /\ q \in RequestStates BY DEF TypeInv, TypeOK
<1>1. /\ q.pc \in {"found", "removed"} /\ On(r, w)
      /\ UNCHANGED <<unused, missable, lingering, overlapped>>
  BY DEF DeleteRemove, DeleteCommit, On, NoRequest
<1>2. Clean(w) => RowView(r) /\ \A x \in Requests : On(x, w) => x = r
  BY <1>1 DEF WebhookInv, ViewInv
<1>3. Clean(w)' <=> Clean(w) BY <1>1 DEF Clean
<1>4. CASE DeleteRemove(r) /\ ~Finish(r)
  <2>0. /\ q.pc = "found" /\ q.event \in Events /\ rows' = rows
        /\ Put(q.event, w, <<>>) /\ SetRequest(r, [q EXCEPT !.pc = "removed"])
    BY <1>4 DEF DeleteRemove, RemoveFromRegistry, Put
  <2>1. /\ requests'[r] = [pc |-> "removed", webhook |-> w, event |-> q.event]
        /\ \A x \in Requests \ {r} : requests'[x] = requests[x]
    BY <1>0, <2>0, AdvanceEffect, SetRequestEffect
  <2>2. On(r, w)' /\ \A x \in Requests : On(x, w)' <=> On(x, w)
    BY <1>1, <2>1 DEF On, NoRequest
  <2>3. \A e \in Events :
          registry'[e][w] = IF e = q.event THEN <<>> ELSE registry[e][w]
    BY <1>0, <2>0, RegistryAfter
  <2>4. FreshInv(w)' BY <1>1, <2>1, <2>2, NoCreation DEF FreshInv
  <2>5. SingleInv(w)' BY <2>3 DEF WebhookInv, SingleInv
  <2>6. ViewInv(w)' BY <1>2, <1>3, <2>0, <2>1, <2>2 DEF ViewInv, RowView
  <2>7. PresentInv(w)'
    <3> SUFFICES ASSUME w \notin missable PROVE PresentInv(w)' BY <1>1 DEF PresentInv
    <3>1. \A x \in Requests, e \in Events : ~Ahead(x, w, e)'
      BY <1>2, <2>1, <2>2 DEF Ahead, Clean
    <3> QED BY <2>1, <2>2, <3>1 DEF PresentInv
  <2>8. AbsentInv(w)'
    <3> SUFFICES ASSUME w \notin lingering PROVE AbsentInv(w)' BY <1>1 DEF AbsentInv
    <3>1. \A x \in Requests, e \in Events : ~Ahead(x, w, e)
      BY <1>2, <2>0 DEF Ahead, Clean
    <3>2. \A e \in Events : Wants(w, e) => e = q.event
      BY <1>2, <2>0 DEF Wants, RowView, Clean
    <3>3. \A e \in Events : registry'[e][w] = <<>>
      BY <2>3, <3>1, <3>2 DEF WebhookInv, AbsentInv
    <3> QED BY <3>3 DEF AbsentInv
  <2>9. StartInv(w)' BY <1>1, <2>0 DEF WebhookInv, StartInv
  <2> QED BY <2>4, <2>5, <2>6, <2>7, <2>8, <2>9 DEF WebhookInv
<1>5. CASE DeleteCommit(r)
  <2>0. q.pc = "removed" /\ rows'[w] = NoRow /\ registry' = registry
    BY <1>0, <1>5 DEF DeleteCommit, TypeOK
  <2>1. \A x \in Requests : On(x, w)' => On(x, w) /\ x # r /\ requests'[x] = requests[x]
    BY <1>0, <1>5, FinishEffect DEF DeleteCommit, On
  <2>2. FreshInv(w)' BY <1>1, <2>1, NoCreation DEF FreshInv
  <2>3. SingleInv(w)' BY <2>0 DEF WebhookInv, SingleInv
  <2>4. ViewInv(w)' BY <1>2, <1>3, <2>1 DEF ViewInv
  <2>5. \A e \in Events : ~Wants(w, e)' BY <2>0 DEF Wants
  <2>6. PresentInv(w)'
    <3> SUFFICES ASSUME w \notin missable PROVE PresentInv(w)' BY <1>1 DEF PresentInv
    <3>1. \A x \in Requests : ~On(x, w)' BY <1>2, <2>1 DEF Clean
    <3> QED BY <2>5, <3>1 DEF PresentInv, Ahead
  <2>7. AbsentInv(w)'
    <3> SUFFICES ASSUME w \notin lingering PROVE AbsentInv(w)' BY <1>1 DEF AbsentInv
    <3>1. \A x \in Requests : ~On(x, w)' BY <1>2, <2>1 DEF Clean
    <3>2. \A e \in Events : registry[e][w] = <<>>
      BY <1>1, <2>0 DEF WebhookInv, AbsentInv
    <3> QED BY <2>0, <3>1, <3>2 DEF AbsentInv
  <2>8. StartInv(w)' BY <2>0 DEF StartInv
  <2> QED BY <2>2, <2>3, <2>4, <2>6, <2>7, <2>8 DEF WebhookInv
<1> QED BY <1>4, <1>5

(* The other requests, and those on other webhooks, keep what they hold.   *)
LEMMA OthersKept ==
  ASSUME TypeInv, RegistryInv, NEW r \in Requests, NEW w \in Webhooks,
         \A x \in Requests \ {r} : requests'[x] = requests[x],
         requests[r] = NoRequest \/ requests[r].webhook = w,
         requests'[r] = NoRequest \/ requests'[r].webhook = w,
         \A v \in Webhooks \ {w} :
           /\ rows'[v] = rows[v] /\ \A e \in Events : registry'[e][v] = registry[e][v]
           /\ v \in missable => v \in missable'
           /\ v \in lingering => v \in lingering'
           /\ v \in overlapped => v \in overlapped',
         unused' \subseteq unused, WebhookInv(w)', RequestOK(r)'
  PROVE  (\A x \in Requests : RequestOK(x)') /\ (\A v \in Webhooks : WebhookInv(v)')
<1>1. ASSUME NEW x \in Requests \ {r} PROVE RequestOK(x)'
  BY <1>1 DEF RegistryInv, RequestOK
<1>2. ASSUME NEW v \in Webhooks \ {w} PROVE WebhookInv(v)'
  <2>1. \A x \in Requests : On(x, v) \/ On(x, v)' => requests'[x] = requests[x]
    BY <1>2 DEF On
  <2>2. WebhookInv(v) BY DEF RegistryInv
  <2> QED BY <1>2, <2>1, <2>2, WebhookFrame
<1> QED BY <1>1, <1>2

LEMMA RegistryInvStep == ASSUME RegistryInv, [Next]_vars PROVE RegistryInv'
<1> USE DEF secretRow, history
<1>t. TypeInv /\ TypeOK /\ TypeInv' BY TypesStep DEF RegistryInv, TypeInv
<1>f. /\ registry \in [Events -> [Webhooks -> Seq(Targets)]]
      /\ rows \in [Webhooks -> Row \cup {NoRow}]
      /\ \A r \in Requests : requests[r] \in RequestStates
  BY <1>t DEF TypeOK
<1>1. ASSUME NEW r \in Requests, NEW w \in Webhooks, NEW e \in Events,
             NEW secret \in {"set", "none"}, NEW t \in Targets,
             CreateInsert(r, w, e, secret, t)
      PROVE  RegistryInv'
  <2> DEFINE new == [event |-> e, enabled |-> "on", secret |-> secret, target |-> t]
  <2>1. [pc |-> "inserted", webhook |-> w, new |-> new] \in RequestStates
    BY DEF RequestStates, Row, EventNames
  <2>2. /\ requests'[r] = [pc |-> "inserted", webhook |-> w, new |-> new]
        /\ \A x \in Requests \ {r} : requests'[x] = requests[x]
        /\ requests[r] = NoRequest /\ w \in unused /\ unused' = unused \ {w}
        /\ UNCHANGED <<rows, registry, history, up>>
    BY <1>1, <1>t, <2>1, SetRequestEffect DEF CreateInsert
  <2>3. RequestOK(r)' BY <2>2 DEF RequestOK
  <2>4. WebhookInv(w)'
    <3>1. WebhookInv(w) BY DEF RegistryInv
    <3>2. /\ rows[w] = NoRow /\ \A x \in Events : registry[x][w] = <<>>
          /\ \A x \in Requests : ~On(x, w)
      BY <2>2, <3>1 DEF WebhookInv, FreshInv, Idle
    <3>3. On(r, w)' /\ \A x \in Requests : On(x, w)' => x = r
      BY <2>2, <3>2 DEF On, NoRequest
    <3>4. FreshInv(w)' BY <2>2, <3>2, <3>3 DEF FreshInv
    <3>5. SingleInv(w)' BY <2>2, <3>1 DEF WebhookInv, SingleInv
    <3>6. ViewInv(w)' BY <2>2, <3>3 DEF ViewInv, RowView
    <3>7. PresentInv(w)' BY <2>2, <3>2, <3>3 DEF PresentInv, Ahead, Wants
    <3>8. AbsentInv(w)' BY <2>2, <3>2 DEF AbsentInv
    <3>9. StartInv(w)' BY <2>2, <3>2 DEF StartInv
    <3> QED BY <3>4, <3>5, <3>6, <3>7, <3>8, <3>9 DEF WebhookInv
  <2> QED BY <1>t, <2>2, <2>3, <2>4, OthersKept DEF RegistryInv
<1>2. ASSUME NEW r \in Requests, CreateRegister(r) \/ CreateCommit(r) PROVE RegistryInv'
  <2> DEFINE q == requests[r]
  <2>1. q.pc \in {"inserted", "created"} BY <1>2 DEF CreateRegister, CreateCommit
  <2>2. PICK w \in Webhooks : w = q.webhook
    BY <1>f, <2>1, RequestFields DEF NoRequest
  <2>3. /\ \A x \in Requests \ {r} : requests'[x] = requests[x]
        /\ \/ requests'[r] = NoRequest
           \/ requests'[r] = [pc |-> "created", webhook |-> w, new |-> q.new]
    BY <1>2, <1>f, <2>2, <1>t, AdvanceEffect, SetRequestEffect, FinishEffect
       DEF CreateRegister, CreateCommit
  <2>4. \A v \in Webhooks \ {w} :
          rows'[v] = rows[v] /\ \A e \in Events : registry'[e][v] = registry[e][v]
    <3>1. CASE CreateCommit(r) BY <1>f, <2>2, <3>1 DEF CreateCommit
    <3>2. CASE CreateRegister(r)
      <4>1. registry' = registry
              \/ Put(q.new.event, w, Append(registry[q.new.event][w], q.new.target))
        BY <2>2, <3>2 DEF CreateRegister, AddToRegistry, Put
      <4> QED BY <1>t, <3>2, <4>1, RegistryAfter DEF CreateRegister
    <3> QED BY <1>2, <3>1, <3>2
  <2>5. WebhookInv(w)' BY <1>2, <1>t, <2>2, CreateRegistered DEF RegistryInv
  <2>6. RequestOK(r) BY DEF RegistryInv
  <2>7. RequestOK(r)' BY <2>1, <2>3, <2>6 DEF RequestOK, NoRequest
  <2>8. UNCHANGED <<unused, history, up>> BY <1>2 DEF CreateRegister, CreateCommit
  <2> QED BY <1>t, <2>2, <2>3, <2>4, <2>5, <2>7, <2>8, OthersKept DEF RegistryInv
<1>3. ASSUME NEW r \in Requests, NEW w \in Webhooks,
             \/ \E p \in Payloads : UpdateRead(r, w, p)
             \/ DeleteRead(r, w)
      PROVE  RegistryInv'
  <2>1. /\ requests[r] = NoRequest /\ rows[w] # NoRow /\ rows[w] \in Row /\ NoteOverlap(w)
        /\ UNCHANGED <<rows, unused, registry, up>>
    BY <1>3, <1>f DEF UpdateRead, DeleteRead
  <2>2. /\ \A x \in Requests \ {r} : requests'[x] = requests[x]
        /\ \/ requests'[r] = [pc |-> "found", webhook |-> w, event |-> rows[w].event]
           \/ \E p \in Payloads :
                requests'[r] = [pc |-> "read", webhook |-> w, read |-> rows[w],
                                new |-> Merge(rows[w], p), relabel |-> p.secret = "set"]
    <3>1. CASE DeleteRead(r, w)
      <4>1. [pc |-> "found", webhook |-> w, event |-> rows[w].event] \in RequestStates
        BY <2>1 DEF RequestStates, Row
      <4> QED BY <1>t, <3>1, <4>1, SetRequestEffect DEF DeleteRead
    <3>2. ASSUME NEW p \in Payloads, UpdateRead(r, w, p)
          PROVE  /\ \A x \in Requests \ {r} : requests'[x] = requests[x]
                 /\ requests'[r] = [pc |-> "read", webhook |-> w, read |-> rows[w],
                                    new |-> Merge(rows[w], p), relabel |-> p.secret = "set"]
      <4>1. [pc |-> "read", webhook |-> w, read |-> rows[w], new |-> Merge(rows[w], p),
             relabel |-> p.secret = "set"] \in RequestStates
        BY <2>1, MergedIsRow DEF RequestStates
      <4> QED BY <1>t, <3>2, <4>1, SetRequestEffect DEF UpdateRead
    <3> QED BY <1>3, <3>1, <3>2
  <2>3. RequestOK(r)'
    <3>1. \A p \in Payloads : rows[w].secret = "set" => Merge(rows[w], p).secret = "set"
      BY ParametersAssumption DEF Merge, Set
    <3>2. CASE requests'[r] = [pc |-> "found", webhook |-> w, event |-> rows[w].event]
      BY <3>2 DEF RequestOK
    <3>3. ASSUME NEW p \in Payloads,
                 requests'[r] = [pc |-> "read", webhook |-> w, read |-> rows[w],
                                 new |-> Merge(rows[w], p), relabel |-> p.secret = "set"]
          PROVE  RequestOK(r)'
      <4>1. /\ requests'[r].pc = "read" /\ requests'[r].read = rows[w]
            /\ requests'[r].new = Merge(rows[w], p)
        BY <3>3
      <4> QED BY <3>1, <4>1 DEF RequestOK
    <3> QED BY <2>2, <3>2, <3>3
  <2>4. /\ missable' = missable \/ (w \in missable' /\ missable' = missable \cup {w})
        /\ lingering' = lingering \/ (w \in lingering' /\ lingering' = lingering \cup {w})
        /\ overlapped' = overlapped \/ (w \in overlapped' /\ overlapped' = overlapped \cup {w})
        /\ Clean(w)' => Idle(w)
    BY <2>1 DEF NoteOverlap, Clean
  <2>5. /\ requests'[r] # NoRequest /\ requests'[r].webhook = w
        /\ requests'[r].pc \in {"read", "found"} /\ RowView(r)'
    <3>1. CASE requests'[r] = [pc |-> "found", webhook |-> w, event |-> rows[w].event]
      BY <2>1, <3>1 DEF NoRequest, RowView
    <3>2. ASSUME NEW p \in Payloads,
                 requests'[r] = [pc |-> "read", webhook |-> w, read |-> rows[w],
                                 new |-> Merge(rows[w], p), relabel |-> p.secret = "set"]
          PROVE  /\ requests'[r] # NoRequest /\ requests'[r].webhook = w
                 /\ requests'[r].pc = "read" /\ RowView(r)'
      <4>1. /\ requests'[r].pc = "read" /\ requests'[r].read = rows[w]
            /\ requests'[r].webhook = w
        BY <3>2
      <4> QED BY <2>1, <4>1 DEF NoRequest, RowView
    <3> QED BY <2>2, <3>1, <3>2
  <2>6. WebhookInv(w)'
    <3>1. WebhookInv(w) BY DEF RegistryInv
    <3>2. Clean(w)' => RowView(r)' /\ \A x \in Requests \ {r} : ~On(x, w)
      BY <2>4, <2>5 DEF Idle
    <3> QED BY <2>1, <2>2, <2>4, <2>5, <3>1, <3>2, RequestReads
  <2> QED BY <1>t, <2>1, <2>2, <2>3, <2>4, <2>5, <2>6, OthersKept DEF RegistryInv
<1>4. ASSUME NEW r \in Requests, UpdateFlush(r) \/ UpdateReplace(r) \/ UpdateCommit(r)
      PROVE  RegistryInv'
  <2> DEFINE q == requests[r]
  <2>1. q.pc \in {"read", "flushed", "replaced"} /\ q # NoRequest
    BY <1>4 DEF UpdateFlush, UpdateReplace, UpdateCommit, NoRequest
  <2>2. PICK w \in Webhooks : w = q.webhook BY <1>f, <2>1, RequestFields
  <2>3. RequestOK(r) /\ WebhookInv(w) /\ On(r, w) BY <2>1, <2>2 DEF RegistryInv, On
  <2>4. unused' = unused /\ UNCHANGED <<missable, overlapped, up>> /\ lingering \subseteq lingering'
    BY <1>4 DEF UpdateFlush, UpdateReplace, UpdateCommit
  <2>5. CASE Finish(r) /\ ~UpdateCommit(r)
    <3>1. /\ requests'[r] = NoRequest
          /\ \A x \in Requests \ {r} : requests'[x] = requests[x]
      BY <1>t, <2>5, FinishEffect
    <3>2. UNCHANGED <<rows, registry>> /\ q.pc \in {"read", "flushed"}
      <4>1. CASE UpdateFlush(r) BY <4>1 DEF UpdateFlush
      <4>2. CASE UpdateReplace(r)
        <5>1. ~SetRequest(r, [q EXCEPT !.pc = "replaced"])
          <6>1. q.pc = "flushed" BY <4>2 DEF UpdateReplace
          <6>2. SetRequest(r, [q EXCEPT !.pc = "replaced"]) =>
                  requests'[r] = [pc |-> "replaced", webhook |-> w, read |-> q.read,
                                  new |-> q.new, relabel |-> q.relabel]
            BY <1>f, <1>t, <2>2, <6>1, AdvanceEffect, SetRequestEffect
          <6> QED BY <3>1, <6>2 DEF NoRequest
        <5> QED BY <4>2, <5>1 DEF UpdateReplace
      <4> QED BY <1>4, <2>5, <4>1, <4>2
    <3>3. WebhookInv(w)' BY <2>2, <2>3, <2>4, <3>1, <3>2, RequestEnds
    <3>4. RequestOK(r)' BY <3>1 DEF RequestOK, NoRequest
    <3> QED BY <1>t, <2>2, <2>4, <3>1, <3>2, <3>3, <3>4, OthersKept DEF RegistryInv
  <2>6. CASE UpdateFlush(r) /\ ~Finish(r)
    <3>1. q.pc = "read" /\ SetRequest(r, [q EXCEPT !.pc = "flushed"])
      BY <2>6 DEF UpdateFlush
    <3>2. /\ requests'[r] = [pc |-> "flushed", webhook |-> w, read |-> q.read, new |-> q.new,
                             relabel |-> q.relabel]
          /\ \A x \in Requests \ {r} : requests'[x] = requests[x]
      BY <1>f, <1>t, <2>2, <3>1, AdvanceEffect, SetRequestEffect
    <3>3. UNCHANGED <<rows, registry, lingering>> BY <2>6 DEF UpdateFlush
    <3>4. Clean(w)' => RowView(r)' /\ \A x \in Requests \ {r} : ~On(x, w)
      <4>1. Clean(w)' => Clean(w) BY <2>4, <3>3 DEF Clean
      <4>2. Clean(w) => RowView(r) /\ \A x \in Requests \ {r} : ~On(x, w)
        BY <2>3 DEF WebhookInv, ViewInv
      <4>3. RowView(r) => rows[w] = q.read BY <2>2, <3>1 DEF RowView
      <4>4. rows'[w] = q.read => RowView(r)' BY <3>2 DEF RowView
      <4> QED BY <3>3, <4>1, <4>2, <4>3, <4>4
    <3>5. requests'[r] # NoRequest /\ requests'[r].webhook = w /\ requests'[r].pc = "flushed"
      BY <3>2 DEF NoRequest
    <3>6. WebhookInv(w)' BY <2>2, <2>3, <2>4, <3>1, <3>2, <3>3, <3>4, <3>5, RequestReads
    <3>7. RequestOK(r)' BY <2>3, <3>1, <3>2 DEF RequestOK
    <3> QED BY <1>t, <2>2, <2>4, <3>2, <3>3, <3>5, <3>6, <3>7, OthersKept DEF RegistryInv
  <2>7. CASE UpdateReplace(r) /\ ~Finish(r)
    <3>1. /\ q.pc = "flushed" /\ SetRequest(r, [q EXCEPT !.pc = "replaced"])
          /\ q.new.secret = "none" \/ q.new.event \in Events
          /\ registry' = registry \/ Put(q.new.event, w, <<q.new.target>>)
          /\ UNCHANGED <<rows, lingering>>
      BY <2>2, <2>7 DEF UpdateReplace, ReplaceInRegistry, Put
    <3>2. /\ requests'[r] = [pc |-> "replaced", webhook |-> w, read |-> q.read,
                             new |-> q.new, relabel |-> q.relabel]
          /\ \A x \in Requests \ {r} : requests'[x] = requests[x]
      BY <1>f, <1>t, <2>2, <3>1, AdvanceEffect, SetRequestEffect
    <3>3. \A v \in Webhooks \ {w} : \A e \in Events : registry'[e][v] = registry[e][v]
      BY <1>t, <3>1, RegistryAfter
    <3>4. WebhookInv(w)' BY <1>t, <2>2, <2>3, <2>7, UpdateRegistered
    <3>5. RequestOK(r)' BY <2>3, <3>1, <3>2 DEF RequestOK
    <3> QED BY <1>t, <2>2, <2>4, <3>1, <3>2, <3>3, <3>4, <3>5, OthersKept DEF RegistryInv
  <2>8. CASE UpdateCommit(r)
    <3>1. /\ requests'[r] = NoRequest
          /\ \A x \in Requests \ {r} : requests'[x] = requests[x]
      BY <1>t, <2>8, FinishEffect DEF UpdateCommit
    <3>2. registry' = registry /\ \A v \in Webhooks \ {w} : rows'[v] = rows[v]
      BY <1>f, <2>2, <2>8 DEF UpdateCommit
    <3>3. WebhookInv(w)' BY <1>t, <2>2, <2>3, <2>8, UpdateCommitted
    <3>4. RequestOK(r)' BY <3>1 DEF RequestOK, NoRequest
    <3> QED BY <1>t, <2>2, <2>4, <3>1, <3>2, <3>3, <3>4, OthersKept DEF RegistryInv
  <2> QED BY <1>4, <2>5, <2>6, <2>7, <2>8
<1>5. ASSUME NEW r \in Requests, DeleteRemove(r) \/ DeleteCommit(r) PROVE RegistryInv'
  <2> DEFINE q == requests[r]
  <2>1. q.pc \in {"found", "removed"} /\ q # NoRequest
    BY <1>5 DEF DeleteRemove, DeleteCommit, NoRequest
  <2>2. PICK w \in Webhooks : w = q.webhook BY <1>f, <2>1, RequestFields
  <2>3. WebhookInv(w) /\ On(r, w) BY <2>1, <2>2 DEF RegistryInv, On
  <2>4. UNCHANGED <<unused, history, up>> BY <1>5 DEF DeleteRemove, DeleteCommit
  <2>5. CASE DeleteRemove(r) /\ Finish(r)
    <3>1. /\ requests'[r] = NoRequest
          /\ \A x \in Requests \ {r} : requests'[x] = requests[x]
      BY <1>t, <2>5, FinishEffect
    <3>2. q.pc = "found" BY <2>5 DEF DeleteRemove
    <3>3. SetRequest(r, [q EXCEPT !.pc = "removed"]) =>
            requests'[r] = [pc |-> "removed", webhook |-> w, event |-> q.event]
      BY <1>f, <1>t, <2>2, <3>2, AdvanceEffect, SetRequestEffect
    <3>4. ~SetRequest(r, [q EXCEPT !.pc = "removed"]) BY <3>1, <3>3 DEF NoRequest
    <3>5. UNCHANGED <<rows, registry>> BY <2>5, <3>4 DEF DeleteRemove
    <3>6. WebhookInv(w)' BY <2>2, <2>3, <2>4, <3>1, <3>2, <3>5, RequestEnds
    <3>7. RequestOK(r)' BY <3>1 DEF RequestOK, NoRequest
    <3> QED BY <1>t, <2>2, <2>4, <3>1, <3>5, <3>6, <3>7, OthersKept DEF RegistryInv
  <2>6. CASE DeleteRemove(r) /\ ~Finish(r)
    <3>1. /\ q.pc = "found" /\ SetRequest(r, [q EXCEPT !.pc = "removed"])
          /\ q.event \in Events /\ Put(q.event, w, <<>>) /\ rows' = rows
      BY <2>2, <2>6 DEF DeleteRemove, RemoveFromRegistry, Put
    <3>2. /\ requests'[r] = [pc |-> "removed", webhook |-> w, event |-> q.event]
          /\ \A x \in Requests \ {r} : requests'[x] = requests[x]
      BY <1>f, <1>t, <2>2, <3>1, AdvanceEffect, SetRequestEffect
    <3>3. \A v \in Webhooks \ {w} : \A e \in Events : registry'[e][v] = registry[e][v]
      BY <1>t, <3>1, RegistryAfter
    <3>4. WebhookInv(w)' BY <1>t, <2>2, <2>3, <2>6, DeleteRegistered
    <3>5. RequestOK(r)' BY <3>1, <3>2 DEF RequestOK
    <3> QED BY <1>t, <2>2, <2>4, <3>1, <3>2, <3>3, <3>4, <3>5, OthersKept DEF RegistryInv
  <2>7. CASE DeleteCommit(r)
    <3>1. /\ requests'[r] = NoRequest
          /\ \A x \in Requests \ {r} : requests'[x] = requests[x]
      BY <1>t, <2>7, FinishEffect DEF DeleteCommit
    <3>2. registry' = registry /\ \A v \in Webhooks \ {w} : rows'[v] = rows[v]
      BY <1>f, <2>2, <2>7 DEF DeleteCommit
    <3>3. WebhookInv(w)' BY <1>t, <2>2, <2>3, <2>7, DeleteRegistered
    <3>4. RequestOK(r)' BY <3>1 DEF RequestOK, NoRequest
    <3> QED BY <1>t, <2>2, <2>4, <3>1, <3>2, <3>3, <3>4, OthersKept DEF RegistryInv
  <2> QED BY <1>5, <2>5, <2>6, <2>7
<1>6. ASSUME NEW r \in Requests, RequestFail(r) PROVE RegistryInv'
  <2> DEFINE q == requests[r]
  <2>1. /\ requests'[r] = NoRequest
        /\ \A x \in Requests \ {r} : requests'[x] = requests[x]
    BY <1>6, <1>t, FinishEffect DEF RequestFail
  <2>2. PICK w \in Webhooks : w = q.webhook /\ On(r, w)
    BY <1>6, <1>f, RequestFields DEF RequestFail, On
  <2>3. /\ UNCHANGED <<rows, registry, unused, up, overlapped>>
        /\ missable \subseteq missable' /\ lingering \subseteq lingering'
        /\ q.pc \in {"created", "replaced", "removed"} => w \in missable' /\ w \in lingering'
    BY <1>6, <2>2 DEF RequestFail
  <2>4. WebhookInv(w)' BY <2>1, <2>2, <2>3, RequestEnds DEF RegistryInv
  <2>5. RequestOK(r)' BY <2>1 DEF RequestOK, NoRequest
  <2> QED BY <1>t, <2>1, <2>2, <2>3, <2>4, <2>5, OthersKept DEF RegistryInv
<1>7. CASE ToggleSecret \/ DeleteSecret \/ UNCHANGED vars
  <2>1. UNCHANGED <<rows, registry, requests, unused, history, up>>
    BY <1>7 DEF ToggleSecret, DeleteSecret, vars
  <2>2. \A r \in Requests : RequestOK(r)' BY <2>1 DEF RegistryInv, RequestOK
  <2>3. ASSUME NEW w \in Webhooks PROVE WebhookInv(w)'
    <3>1. WebhookInv(w) BY DEF RegistryInv
    <3> QED BY <2>1, <3>1, WebhookFrame
  <2> QED BY <1>t, <2>1, <2>2, <2>3 DEF RegistryInv
<1>8. CASE Restart
  <2>1. \A r \in Requests : requests'[r] = NoRequest BY <1>8 DEF Restart
  <2>2. \A r \in Requests : RequestOK(r)' BY <2>1 DEF RequestOK, NoRequest
  <2>3. UNCHANGED <<rows, unused, overlapped>> BY <1>8 DEF Restart
  <2>4. ASSUME NEW w \in Webhooks PROVE WebhookInv(w)'
    <3>1. \A r \in Requests : ~On(r, w)' BY <2>1 DEF On
    <3>2. \A e \in Events :
            registry'[e][w] = IF Loaded(e, w) THEN <<rows[w].target>> ELSE <<>>
      BY <1>8 DEF Restart
    <3>3. FreshInv(w)'
      BY <2>3, <3>1, <3>2 DEF RegistryInv, WebhookInv, FreshInv, Idle, Loaded
    <3>4. SingleInv(w)'
      <4>1. ASSUME NEW e \in Events PROVE Len(registry'[e][w]) <= 1
        <5>1. registry'[e][w] = <<rows[w].target>> \/ registry'[e][w] = <<>> BY <3>2
        <5>2. CASE registry'[e][w] = <<rows[w].target>> BY <5>2, ShortLists
        <5>3. CASE registry'[e][w] = <<>> BY <5>3, ShortLists
        <5> QED BY <5>1, <5>2, <5>3
      <4> QED BY <4>1 DEF SingleInv
    <3>5. ViewInv(w)' BY <3>1 DEF ViewInv
    <3>6. PresentInv(w)'
      <4>1. ASSUME w \notin missable', NEW e \in Events, Wants(w, e)' PROVE Loaded(e, w)
        BY <1>8, <4>1 DEF Restart, Wants, Loaded
      <4> QED BY <2>3, <3>1, <3>2, <4>1 DEF PresentInv, Ahead
    <3>7. AbsentInv(w)'
      <4>1. \A e \in Events : registry'[e][w] # <<>> => Wants(w, e)'
        BY <2>3, <3>2 DEF Wants, Loaded
      <4> QED BY <3>1, <4>1 DEF AbsentInv
    <3>8. StartInv(w)' BY <2>3 DEF RegistryInv, WebhookInv, StartInv
    <3> QED BY <3>3, <3>4, <3>5, <3>6, <3>7, <3>8 DEF WebhookInv
  <2>5. ~up' => overlapped' # {}
    <3> SUFFICES ASSUME ~up' PROVE overlapped # {} BY <2>3
    <3>1. PICK w \in Webhooks : Loaded("*", w) BY <1>8 DEF Restart
    <3>2. StartInv(w) BY DEF RegistryInv, WebhookInv
    <3> QED BY <3>1, <3>2, ParametersAssumption DEF Loaded, StartInv
  <2> QED BY <1>t, <2>2, <2>4, <2>5 DEF RegistryInv
<1> QED BY <1>1, <1>2, <1>3, <1>4, <1>5, <1>6, <1>7, <1>8 DEF Next

LEMMA RegistryInvariant == Spec => []RegistryInv
  BY RegistryInit, RegistryInvStep, PTL DEF Spec

(* However requests interleave, fail and are cut off, an event is never     *)
(* posted to a webhook twice.                                              *)
THEOREM NeverTwice == Spec => []OneConfigPerWebhook
<1>1. RegistryInv => OneConfigPerWebhook
  BY DEF RegistryInv, WebhookInv, SingleInv, OneConfigPerWebhook
<1> QED BY <1>1, RegistryInvariant, PTL

(* What a row asks for is registered once its requests are through, but for *)
(* the named exceptions.                                                   *)
THEOREM RowsAreRegistered == Spec => []RegisteredWhereWanted
<1>1. RegistryInv => RegisteredWhereWanted
  BY DEF RegistryInv, WebhookInv, PresentInv, RegisteredWhereWanted, Idle
<1> QED BY <1>1, RegistryInvariant, PTL

(* Nothing is registered that its row does not ask for, but for the named   *)
(* exceptions.                                                             *)
THEOREM RegistrationsAreOfRows == Spec => []RegisteredOnlyWhereWanted
<1>1. RegistryInv => RegisteredOnlyWhereWanted
  BY DEF RegistryInv, WebhookInv, AbsentInv, Ahead, RegisteredOnlyWhereWanted, Idle
<1> QED BY <1>1, RegistryInvariant, PTL

(* It takes two overlapping requests to leave a row that stops the next     *)
(* start of the server.                                                    *)
THEOREM StartsAgain == Spec => []StartsUnlessOverlapped
<1>1. RegistryInv => StartsUnlessOverlapped
  BY ParametersAssumption DEF RegistryInv, WebhookInv, StartInv, StartsUnlessOverlapped, Loaded
<1> QED BY <1>1, RegistryInvariant, PTL

=============================================================================
