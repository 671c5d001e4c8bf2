--------------------------- MODULE WebhookDelivery ---------------------------
(***************************************************************************)
(* Delivery of events: dispatcher.dispatch hands an event to its processor,*)
(* whose handle posts it to the webhooks of an in-memory list, one after   *)
(* the other, retrying each.  Posting waits for the network, so the list   *)
(* may be edited by webhook requests (module WebhookRegistry) and another  *)
(* task may dispatch the same event while a dispatch is under way.         *)
(*                                                                         *)
(* One processor: the alert processor, which keeps its list sorted, filters*)
(* and lets errors through, or one of the four others, which do none of    *)
(* this.  A config is its webhook's id and the rank of its parameters: the *)
(* sort key, and what a reading is compared with.                          *)
(*                                                                         *)
(* At the other end is the receiver of the repository, or anything else    *)
(* that answers at the URL; every post and every answer may be lost.       *)
(***************************************************************************)
EXTENDS Integers, Sequences, FiniteSetsExt

CONSTANTS
  Webhooks,      \* webhook ids
  Ranks,         \* sort keys of alert parameters
  Tasks,         \* tasks that dispatch: the MQTT listener, REST handlers
  Listener,      \* the listener, the only one to dispatch alerts
  Sharing,       \* webhooks whose receiver has their secret as SHARED_SECRET
  Trickling,     \* webhooks whose receiver may answer bit by bit, without an end
  MaxAttempts,   \* MAX_ATTEMPTS_PER_WEBHOOK
  MaxDispatches, \* bound: events each task dispatches
  MaxEdits,      \* bound: edits of the list
  MaxFailures    \* bound: writes of last_error that raise

ASSUME ParametersAssumption ==
  /\ Ranks \subseteq Nat \ {0} /\ Listener \in Tasks
  /\ Sharing \subseteq Webhooks /\ Trickling \subseteq Webhooks
  /\ MaxAttempts \in Nat \ {0}
  /\ {MaxDispatches, MaxEdits, MaxFailures} \subseteq Nat

VARIABLES
  alert,      \* the processor is the alert processor
  list,       \* its _webhooks
  tasks,      \* the dispatch each task is in or has done last
  dispatched, \* events each task has dispatched
  saved,      \* webhooks with last_error and last_triggered_at set
  registered, \* history: configs the edits left registered
  budget      \* what is left of the two bounds

vars == <<alert, list, tasks, dispatched, saved, registered, budget>>

Config == [id : Webhooks, rank : Ranks]
Verdicts == {"match", "skip", "raise"}

\* A dispatch iterates the list object it started with: the processor's own as
\* long as no remove has rebound _webhooks, its own copy from then on.
\* From visits on: history of the dispatch.  due: configs it must post to;
\* accepted: posts each receiver accepted; unsure: webhooks it did not hear of
\* an acceptance from; cut: rank of the config at which an error ended it.
History ==
  [visits : [Webhooks -> Nat], due : SUBSET Config, accepted : [Webhooks -> Nat],
   unsure : SUBSET Webhooks, refused : SUBSET Webhooks, failed : SUBSET Webhooks]
Dispatch ==
  [pc : {"post", "save"}, live : BOOLEAN, own : Seq(Config), next : Nat,
   target : Config, attempt : 0 .. MaxAttempts, payload : [Ranks -> Verdicts],
   poisoned : BOOLEAN, history : History, offered : SUBSET Config, grown : BOOLEAN]
Ended ==
  [pc : {"done", "raised"}, poisoned : BOOLEAN, grown : BOOLEAN, history : History,
   cut : Ranks \cup {0}]
NoDispatch == [pc |-> "none"]

Under(t) == tasks[t].pc \in {"post", "save"}

-----------------------------------------------------------------------------
(* add, remove, replace.                                                   *)

\* The configs stay sorted, so sorting after an append only moves the new one.
Added(lst, c) ==
  LET k == IF alert THEN Cardinality({i \in DOMAIN lst : lst[i].rank <= c.rank})
                    ELSE Len(lst) IN
  SubSeq(lst, 1, k) \o <<c>> \o SubSeq(lst, k + 1, Len(lst))

\* Mutant of Removed: the filter compares whole configs, not their ids.
RemovedSame(lst, w) == SelectSeq(lst, LAMBDA c : c # [id |-> w, rank |-> Min(Ranks)])

\* The filter of remove, config by config: what it keeps of the first i.
Removed(lst, w) ==
  LET kept[i \in 0 .. Len(lst)] ==
        IF i = 0 THEN <<>>
        ELSE IF lst[i].id = w THEN kept[i - 1] ELSE Append(kept[i - 1], lst[i])
  IN kept[Len(lst)]

\* Mutant of Rebound: the list is edited in place.
ReboundInPlace(q) == q

\* _webhooks is a new list: a dispatch under way goes on with the old one.
Rebound(q) ==
  IF q.pc \in {"post", "save"} /\ q.live
    THEN [q EXCEPT !.live = FALSE, !.own = list]
    ELSE q

\* load: the enabled rows of the processor's event, sorted by the alert processor.
LoadedList(lst) ==
  /\ \A i, j \in DOMAIN lst : lst[i].id = lst[j].id => i = j
  /\ alert => \A i, j \in DOMAIN lst : i < j => lst[i].rank <= lst[j].rank

Init ==
  /\ alert \in BOOLEAN
  /\ list \in {lst \in UNION {[1 .. n -> Config] : n \in 0 .. Cardinality(Webhooks)} :
                LoadedList(lst)}
  /\ tasks = [t \in Tasks |-> NoDispatch]
  /\ dispatched = [t \in Tasks |-> 0]
  /\ saved = {} /\ registered = {list[i] : i \in DOMAIN list}
  /\ budget = [edits |-> MaxEdits, failures |-> MaxFailures]

SpendEdit == budget.edits > 0 /\ budget' = [budget EXCEPT !.edits = @ - 1]

\* A created webhook is added to the list every running dispatch shares.
Add(c) ==
  /\ SpendEdit
  /\ \A i \in DOMAIN list : list[i].id # c.id
  /\ list' = Added(list, c)
  /\ tasks' = [t \in Tasks |->
                 IF Under(t) /\ tasks[t].live
                   THEN [tasks[t] EXCEPT !.offered = @ \cup {c}, !.grown = TRUE]
                   ELSE tasks[t]]
  /\ registered' = registered \cup {c}
  /\ UNCHANGED <<alert, dispatched, saved>>

Remove(w) ==
  /\ SpendEdit
  /\ list' = Removed(list, w)
  /\ tasks' = [t \in Tasks |-> Rebound(tasks[t])]
  /\ registered' = {c \in registered : c.id # w}
  /\ UNCHANGED <<alert, dispatched, saved>>

\* remove, then add, in one go.
Replace(c) ==
  /\ SpendEdit
  /\ list' = Added(Removed(list, c.id), c)
  /\ tasks' = [t \in Tasks |-> Rebound(tasks[t])]
  /\ registered' = {d \in registered : d.id # c.id} \cup {c}
  /\ UNCHANGED <<alert, dispatched, saved>>

-----------------------------------------------------------------------------
(* handle and send_webhook.                                                *)

View(q) == IF q.live THEN list ELSE q.own

\* Only the alert processor looks at the parameters.
Payloads == IF alert THEN [Ranks -> Verdicts] ELSE [Ranks -> {"match"}]
Verdict(q, c) == q.payload[c.rank]

\* The end of a dispatch.  (After a failed write its last commit may raise too.)
End(q, pc, cut) ==
  [pc |-> pc, poisoned |-> q.poisoned, grown |-> q.grown, history |-> q.history,
   cut |-> cut]

\* The next config the payload does not skip; the loop reaches it without a wait.
\* A condition that cannot be compared raises, and the dispatch ends.
Advance(q) ==
  LET ahead == {i \in q.next .. Len(View(q)) : Verdict(q, View(q)[i]) # "skip"}
      i == Min(ahead)
      c == View(q)[i] IN
  IF ahead = {} THEN End(q, "done", 0)
  ELSE IF Verdict(q, c) = "raise" THEN End(q, "raised", c.rank)
  ELSE [q EXCEPT !.pc = "post", !.next = i + 1, !.target = c, !.attempt = 1,
                 !.history.visits[c.id] = @ + 1]

\* dispatch, handle, and the first post.
Start(t) ==
  /\ ~Under(t) /\ dispatched[t] < MaxDispatches /\ (alert => t = Listener)
  /\ dispatched' = [dispatched EXCEPT ![t] = @ + 1]
  /\ \E payload \in Payloads :
       LET due == {list[i] : i \in {j \in DOMAIN list : payload[list[j].rank] = "match"}}
           fresh == [pc |-> "post", live |-> TRUE, own |-> <<>>, next |-> 1,
                     target |-> CHOOSE c \in Config : TRUE, attempt |-> 0,
                     payload |-> payload, poisoned |-> FALSE, grown |-> FALSE,
                     offered |-> registered,
                     history |-> [visits |-> [w \in Webhooks |-> 0], due |-> due,
                                  accepted |-> [w \in Webhooks |-> 0], unsure |-> {},
                                  refused |-> {}, failed |-> {}]] IN
       tasks' = [tasks EXCEPT ![t] = Advance(fresh)]
  /\ UNCHANGED <<alert, list, saved, registered, budget>>

\* Mutant of Retried: the count starts over.
RetriedForEver(q) ==
  [q EXCEPT !.attempt = IF @ < MaxAttempts THEN @ + 1 ELSE 1]

Retried(q) ==
  IF q.attempt < MaxAttempts
    THEN [q EXCEPT !.attempt = @ + 1]
    ELSE [q EXCEPT !.pc = "save", !.history.failed = @ \cup {q.target.id}]

\* receive_webhook rejects a post whose signature it does not compute itself:
\* with a 500, since its last handler catches its own HTTPException(403) too.
Rejected(w) == w \notin Sharing

\* The receiver has got the post.
Received(q) ==
  IF Rejected(q.target.id) THEN q ELSE [q EXCEPT !.history.accepted[q.target.id] = @ + 1]

\* Mutant of Answered: the loop over the attempts is not left after a 2xx.
AnsweredOn(t) ==
  /\ tasks[t].pc = "post"
  /\ tasks' = [tasks EXCEPT ![t] = Retried(Received(@))]
  /\ UNCHANGED <<alert, list, dispatched, saved, registered, budget>>

\* The receiver's answer arrives: 200, or the 500 of a rejected signature.
Answered(t) ==
  /\ tasks[t].pc = "post"
  /\ tasks' = [tasks EXCEPT ![t] =
                  IF Rejected(@.target.id) THEN Retried(@) ELSE Advance(Received(@))]
  /\ UNCHANGED <<alert, list, dispatched, saved, registered, budget>>

RefusedBy(q) == [q EXCEPT !.history.refused = @ \cup {q.target.id}]

\* Something else answers with a status that is neither 2xx nor 5xx: no retry,
\* nothing saved.
Refused(t) ==
  /\ tasks[t].pc = "post"
  /\ tasks' = [tasks EXCEPT ![t] = Advance(RefusedBy(@))]
  /\ UNCHANGED <<alert, list, dispatched, saved, registered, budget>>

\* The receiver has got the post, but is not heard of.
ReceivedUnheard(q) ==
  [Received(q) EXCEPT !.history.unsure = @ \cup {q.target.id}]

\* A timeout (five seconds without a byte), a connection error or another 5xx:
\* the post did not reach the receiver, or its answer did not come back.
Unanswered(t) ==
  /\ tasks[t].pc = "post"
  /\ \/ tasks' = [tasks EXCEPT ![t] = Retried(@)]
     \/ /\ ~Rejected(tasks[t].target.id)
        /\ tasks' = [tasks EXCEPT ![t] = Retried(ReceivedUnheard(@))]
  /\ UNCHANGED <<alert, list, dispatched, saved, registered, budget>>

\* Mutant of Save: the error is left to the commit at the end of the dispatch.
SaveLater(t) ==
  /\ tasks[t].pc = "save" /\ ~tasks[t].poisoned
  /\ tasks' = [tasks EXCEPT ![t] = Advance(@)]
  /\ UNCHANGED <<alert, list, dispatched, saved, registered, budget>>

\* update_webhook_retry: UPDATE and commit at once.
Save(t) ==
  /\ tasks[t].pc = "save" /\ ~tasks[t].poisoned
  /\ saved' = saved \cup {tasks[t].target.id}
  /\ tasks' = [tasks EXCEPT ![t] = Advance(@)]
  /\ UNCHANGED <<alert, list, dispatched, registered, budget>>

\* Mutant of AfterError: the other processors do not catch the exception either.
AfterErrorRaise(q) == End(q, "raised", q.target.rank)

\* The alert processor lets the exception end the dispatch; the others log it
\* and go on, in a session no later write of the dispatch succeeds in.
AfterError(q) ==
  IF alert THEN End(q, "raised", q.target.rank)
           ELSE Advance([q EXCEPT !.poisoned = TRUE])

SaveFails(t) ==
  /\ tasks[t].pc = "save"
  /\ \/ tasks[t].poisoned /\ UNCHANGED budget
     \/ /\ ~tasks[t].poisoned /\ budget.failures > 0
        /\ budget' = [budget EXCEPT !.failures = @ - 1]
  /\ tasks' = [tasks EXCEPT ![t] = AfterError(@)]
  /\ UNCHANGED <<alert, list, dispatched, saved, registered>>

Step(t) == Answered(t) \/ Refused(t) \/ Unanswered(t) \/ Save(t) \/ SaveFails(t)

Next ==
  \/ \E c \in Config : Add(c) \/ Replace(c)
  \/ \E w \in Webhooks : Remove(w)
  \/ \E t \in Tasks : Start(t) \/ Step(t)

Spec == Init /\ [][Next]_vars

\* The post at hand may never end.
Trickles(t) == tasks[t].pc = "post" /\ tasks[t].target.id \in Trickling

\* A database call returns or raises.  The HTTP client gives up after five seconds
\* of silence: its timeout bounds each wait for the network, not the request, so
\* nothing ends a post whose receiver keeps sending.
FairSpec == Spec /\ \A t \in Tasks : WF_vars(Step(t) /\ ~Trickles(t))

-----------------------------------------------------------------------------
(* Properties.                                                             *)

(* Types of every variable.                                                *)
TypeOK ==
  /\ alert \in BOOLEAN
  /\ list \in Seq(Config)
  /\ tasks \in [Tasks -> Dispatch \cup Ended \cup {NoDispatch}]
  /\ dispatched \in [Tasks -> 0 .. MaxDispatches]
  /\ saved \in SUBSET Webhooks
  /\ registered \in SUBSET Config
  /\ budget \in [edits : Nat, failures : Nat]

(* A dispatch that has ended posted to every config that was in the list   *)
(* when it began and whose conditions the payload met, however the list    *)
(* was edited while it ran and whichever of its webhooks failed.  The      *)
(* exception: an error at one config, be it a condition that cannot be     *)
(* compared or the write of last_error, ends a dispatch of the alert       *)
(* processor; it keeps the alert from the configs sorted behind that one,  *)
(* never from those before it.                                             *)
NoneSkipped ==
  \A t \in Tasks :
    tasks[t].pc \in {"done", "raised"} =>
      \A c \in tasks[t].history.due :
        \/ tasks[t].history.visits[c.id] > 0
        \/ alert /\ tasks[t].pc = "raised" /\ c.rank >= tasks[t].cut

(* Apart from retries a dispatch posts to a webhook once, though others    *)
(* are removed and replaced while it iterates.  The exception: a webhook   *)
(* was added to the list it iterates, and sorting moved the ones behind.   *)
PostedOnce ==
  \A t \in Tasks, w \in Webhooks :
    Under(t) /\ ~(alert /\ tasks[t].grown) => tasks[t].history.visits[w] <= 1

(* A dispatch posts only to configs that were registered when it began or  *)
(* were added since: never to one removed or replaced before.              *)
PostedOnlyRegistered ==
  \A t \in Tasks : Under(t) => tasks[t].target \in tasks[t].offered

(* A dispatch that came to the end of its list leaves no webhook in the    *)
(* dark: the receiver of each one it had to post to accepted the event, or *)
(* something refused it for good, or the webhook is marked as failed.  The *)
(* exception: a write of the dispatch raised, and with it all later ones.  *)
DeliveredOrMarked ==
  \A t \in Tasks :
    tasks[t].pc = "done" /\ ~tasks[t].poisoned =>
      \A c \in tasks[t].history.due :
        \/ tasks[t].history.accepted[c.id] > 0
        \/ c.id \in tasks[t].history.refused
        \/ c.id \in tasks[t].history.failed \cap saved

(* Retries and edits of the list do not make a receiver accept an event    *)
(* twice.  The exceptions: its answer to the first one was lost, or a      *)
(* webhook was added to the sorted list under the dispatch.                *)
AcceptedOnce ==
  \A t \in Tasks, w \in Webhooks :
    tasks[t].pc # "none" /\ ~(alert /\ tasks[t].grown) /\ w \notin tasks[t].history.unsure
      => tasks[t].history.accepted[w] <= 1

(* Every dispatch ends, and the MQTT listener that waits for it goes on to *)
(* the next message, whatever receivers refuse or leave unanswered.  The   *)
(* exception: a receiver whose answer goes on for ever keeps the dispatch. *)
DispatchEnds ==
  \A t \in Tasks : []<>~Trickles(t) => (Under(t) ~> ~Under(t))

=============================================================================
