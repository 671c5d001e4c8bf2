--------------------------- MODULE WebhookRegistry ---------------------------
(***************************************************************************)
(* Webhook management: REST requests create, update and delete rows of the *)
(* table webhooks and, inside the same transaction but before its commit,  *)
(* mirror the change in the dispatcher's per-event registries.  The        *)
(* registries are otherwise filled only at startup.                        *)
(*                                                                         *)
(* rows holds what is committed.  A request that flushed a change of a row *)
(* holds its lock until it ends.  A processor's list is reduced to the     *)
(* target URLs it holds for each webhook; its order is of no concern here. *)
(***************************************************************************)
EXTENDS Naturals, Sequences

CONSTANTS
  Webhooks,    \* webhook ids
  Events,      \* WebhookEvent: each has its processor
  Targets,     \* target URLs, standing for every field without effect here
  Payloads,    \* bodies of update requests
  Requests,    \* concurrent REST requests
  MaxToggles,  \* bound: activations, deactivations and deletions of the user's secret
  MaxFailures, \* bound: database calls that raise
  MaxRestarts  \* bound: restarts of the server

\* update_webhook takes any event name; "*" is the one that no processor has.
EventNames == Events \cup {"*"}

ASSUME ParametersAssumption ==
  /\ "*" \notin Events /\ "keep" \notin Events /\ "keep" \notin Targets
  /\ Payloads \subseteq [event : EventNames \cup {"keep"}, enabled : {"on", "off", "keep"},
                         secret : {"set", "keep"}, target : Targets \cup {"keep"}]
  /\ {MaxToggles, MaxFailures, MaxRestarts} \subseteq Nat

VARIABLES
  rows,         \* table webhooks
  unused,       \* ids no webhook was given yet (uuid4)
  secretExists, \* the user's secret has a row in user_secrets
  secretActive, \* its is_active
  registry,     \* registry[e][w]: targets the processor of e holds for w
  requests,     \* REST requests in progress
  up,           \* the server is running
  budget,       \* what is left of the three bounds
  missable,     \* history: webhooks whose registration may be wrong or missing
  lingering,    \* history: webhooks that may be registered where they should not
  overlapped    \* history: webhooks two requests on which ever overlapped

history == <<missable, lingering, overlapped>>
secretRow == <<secretExists, secretActive>>
vars == <<rows, unused, secretRow, registry, requests, up, budget, history>>

Row == [event : EventNames, enabled : {"on", "off"}, secret : {"set", "none"},
        target : Targets]
NoRow == [event |-> "none"]

\* new: the session's object; read: the row as the session read it.
NoRequest == [pc |-> "none"]
RequestStates ==
  {NoRequest}
    \cup [pc : {"inserted", "created"}, webhook : Webhooks, new : Row]
    \cup [pc : {"read", "flushed", "replaced"}, webhook : Webhooks, read : Row, new : Row,
          relabel : BOOLEAN]
    \cup [pc : {"found", "removed"}, webhook : Webhooks, event : EventNames]

On(r, w) == requests[r] # NoRequest /\ requests[r].webhook = w
Idle(w) == \A r \in Requests : ~On(r, w)

\* Request q holds the lock of its row.
Locks(q) ==
  \/ q.pc \in {"flushed", "replaced"} /\ q.new # q.read
  \/ q.pc = "removed"
Unlocked(w) == \A r \in Requests : On(r, w) => ~Locks(requests[r])

-----------------------------------------------------------------------------

Init ==
  /\ rows = [w \in Webhooks |-> NoRow]
  /\ unused = Webhooks
  /\ secretExists = TRUE /\ secretActive = TRUE
  /\ registry = [e \in Events |-> [w \in Webhooks |-> <<>>]]
  /\ requests = [r \in Requests |-> NoRequest]
  /\ up = TRUE
  /\ budget = [toggles |-> MaxToggles, failures |-> MaxFailures, restarts |-> MaxRestarts]
  /\ missable = {} /\ lingering = {} /\ overlapped = {}

SetRequest(r, q) == requests' = [requests EXCEPT ![r] = q]
Finish(r) == SetRequest(r, NoRequest)

\* A request that starts while another works on webhook w may leave its
\* registration wrong: neither sees what the other has not committed.
NoteOverlap(w) ==
  /\ missable' = IF Idle(w) THEN missable ELSE missable \cup {w}
  /\ lingering' = IF Idle(w) THEN lingering ELSE lingering \cup {w}
  /\ overlapped' = IF Idle(w) THEN overlapped ELSE overlapped \cup {w}

-----------------------------------------------------------------------------
(* The processors' lists.                                                  *)

AddToRegistry(e, w, target) == registry' = [registry EXCEPT ![e][w] = Append(@, target)]
RemoveFromRegistry(e, w) == registry' = [registry EXCEPT ![e][w] = <<>>]

\* Mutant of ReplaceInRegistry: the old config is not removed first.
ReplaceWithoutRemove(e, w, target) == AddToRegistry(e, w, target)

\* replace: remove, then add, in the list of the config's own event.
ReplaceInRegistry(e, w, target) == registry' = [registry EXCEPT ![e][w] = <<target>>]

\* Mutant of Loaded: disabled rows are loaded too.
LoadedAlsoDisabled(e, w) ==
  rows[w] # NoRow /\ rows[w].event = e /\ rows[w].secret = "set" /\ secretActive

\* load: enabled rows of the event whose secret is active.  (The alert
\* processor also skips rows without parameters, to which it never sends.)
Loaded(e, w) ==
  rows[w] # NoRow /\ rows[w].event = e /\ rows[w].enabled = "on"
    /\ rows[w].secret = "set" /\ secretActive

-----------------------------------------------------------------------------
(* create_webhook.                                                         *)

\* The role allows only processors' events; a secret must be active; INSERT.
CreateInsert(r, w, e, secret, target) ==
  /\ up /\ requests[r] = NoRequest /\ w \in unused
  /\ secret = "set" => secretActive
  /\ unused' = unused \ {w}
  /\ SetRequest(r, [pc |-> "inserted", webhook |-> w,
                    new |-> [event |-> e, enabled |-> "on", secret |-> secret,
                             target |-> target]])
  /\ UNCHANGED <<rows, secretRow, registry, up, budget, history>>

\* The secret is looked up again by label, active or not; then add_to_registry.
CreateRegister(r) ==
  LET q == requests[r] IN
  /\ up /\ q.pc = "inserted"
  /\ IF q.new.secret = "set" THEN AddToRegistry(q.new.event, q.webhook, q.new.target)
                             ELSE UNCHANGED registry
  /\ SetRequest(r, [q EXCEPT !.pc = "created"])
  /\ UNCHANGED <<rows, unused, secretRow, up, budget, history>>

CreateCommit(r) ==
  LET q == requests[r] IN
  /\ up /\ q.pc = "created"
  /\ rows' = [rows EXCEPT ![q.webhook] = q.new]
  /\ Finish(r)
  /\ UNCHANGED <<unused, secretRow, registry, up, budget, history>>

-----------------------------------------------------------------------------
(* update_webhook.                                                         *)

Set(value, old) == IF value = "keep" THEN old ELSE value

Merge(row, p) ==
  [event |-> Set(p.event, row.event), enabled |-> Set(p.enabled, row.enabled),
   secret |-> Set(p.secret, row.secret), target |-> Set(p.target, row.target)]

\* SELECT by id and user; an unknown webhook is a 404 and changes nothing.
UpdateRead(r, w, p) ==
  /\ up /\ requests[r] = NoRequest /\ rows[w] # NoRow
  /\ SetRequest(r, [pc |-> "read", webhook |-> w, read |-> rows[w],
                    new |-> Merge(rows[w], p), relabel |-> p.secret = "set"])
  /\ NoteOverlap(w)
  /\ UNCHANGED <<rows, unused, secretRow, registry, up, budget>>

\* A new secret label must name an active secret.  The flush emits an UPDATE
\* only if an attribute changed: it waits for the row's lock, and raises if
\* the row is gone.
UpdateFlush(r) ==
  LET q == requests[r]
      refused == q.relabel /\ ~secretActive
      dirty == q.new # q.read IN
  /\ up /\ q.pc = "read"
  /\ refused \/ ~dirty \/ Unlocked(q.webhook)
  /\ IF refused \/ (dirty /\ rows[q.webhook] = NoRow)
       THEN Finish(r)
       ELSE SetRequest(r, [q EXCEPT !.pc = "flushed"])
  /\ UNCHANGED <<rows, unused, secretRow, registry, up, budget, history>>

\* Mutant of UpdateReplace: the config is built from the row before the update.
UpdateReplaceOld(r) ==
  LET q == requests[r] IN
  /\ up /\ q.pc = "flushed"
  /\ IF q.read.secret = "set" /\ secretActive /\ q.read.event \in Events
       THEN ReplaceInRegistry(q.read.event, q.webhook, q.read.target)
       ELSE UNCHANGED registry
  /\ SetRequest(r, [q EXCEPT !.pc = "replaced"])
  /\ UNCHANGED <<rows, unused, secretRow, up, budget, history>>

\* Mutant of UpdateReplace: an event without a processor is skipped.
UpdateReplaceAnyEvent(r) ==
  LET q == requests[r] IN
  /\ up /\ q.pc = "flushed"
  /\ IF q.new.secret = "none" \/ (secretActive /\ q.new.event \notin Events)
       THEN UNCHANGED registry /\ SetRequest(r, [q EXCEPT !.pc = "replaced"])
       ELSE IF secretActive
              THEN /\ ReplaceInRegistry(q.new.event, q.webhook, q.new.target)
                   /\ SetRequest(r, [q EXCEPT !.pc = "replaced"])
              ELSE UNCHANGED registry /\ Finish(r)
  /\ UNCHANGED <<rows, unused, secretRow, up, budget, history>>

\* replace_in_registry with the session's object.  An inactive secret or an
\* event that is no WebhookEvent raises, and the transaction rolls back.
UpdateReplace(r) ==
  LET q == requests[r] IN
  /\ up /\ q.pc = "flushed"
  /\ IF q.new.secret = "none"
       THEN UNCHANGED registry /\ SetRequest(r, [q EXCEPT !.pc = "replaced"])
       ELSE IF secretActive /\ q.new.event \in Events
              THEN /\ ReplaceInRegistry(q.new.event, q.webhook, q.new.target)
                   /\ SetRequest(r, [q EXCEPT !.pc = "replaced"])
              ELSE UNCHANGED registry /\ Finish(r)
  /\ UNCHANGED <<rows, unused, secretRow, up, budget, history>>

\* The UPDATE names only the attributes that changed.
Written(row, q) ==
  [f \in {"event", "enabled", "secret", "target"} |->
     IF q.new[f] = q.read[f] THEN row[f] ELSE q.new[f]]

UpdateCommit(r) ==
  LET q == requests[r]
      w == q.webhook IN
  /\ up /\ q.pc = "replaced"
  /\ rows' = IF q.new = q.read THEN rows ELSE [rows EXCEPT ![w] = Written(rows[w], q)]
  /\ Finish(r)
  /\ lingering' = IF q.new.event # q.read.event \/ q.new.enabled = "off"
                    THEN lingering \cup {w} ELSE lingering
  /\ UNCHANGED <<unused, secretRow, registry, up, budget, missable, overlapped>>

-----------------------------------------------------------------------------
(* delete_webhook.                                                         *)

DeleteRead(r, w) ==
  /\ up /\ requests[r] = NoRequest /\ rows[w] # NoRow
  /\ SetRequest(r, [pc |-> "found", webhook |-> w, event |-> rows[w].event])
  /\ NoteOverlap(w)
  /\ UNCHANGED <<rows, unused, secretRow, registry, up, budget>>

\* DELETE waits for the lock; no row is a 404.  remove_from_registry follows at
\* once, under the event read before; an event without a processor raises.
DeleteRemove(r) ==
  LET q == requests[r] IN
  /\ up /\ q.pc = "found" /\ Unlocked(q.webhook)
  /\ IF rows[q.webhook] = NoRow \/ q.event \notin Events
       THEN UNCHANGED registry /\ Finish(r)
       ELSE /\ RemoveFromRegistry(q.event, q.webhook)
            /\ SetRequest(r, [q EXCEPT !.pc = "removed"])
  /\ UNCHANGED <<rows, unused, secretRow, up, budget, history>>

DeleteCommit(r) ==
  LET q == requests[r] IN
  /\ up /\ q.pc = "removed"
  /\ rows' = [rows EXCEPT ![q.webhook] = NoRow]
  /\ Finish(r)
  /\ UNCHANGED <<unused, secretRow, registry, up, budget, history>>

-----------------------------------------------------------------------------

\* A database call of the request raises and its transaction rolls back: what it
\* did to a registry stays.
RequestFail(r) ==
  LET q == requests[r]
      registered == q.pc \in {"created", "replaced", "removed"} IN
  /\ up /\ q # NoRequest /\ budget.failures > 0
  /\ budget' = [budget EXCEPT !.failures = @ - 1]
  /\ Finish(r)
  /\ missable' = IF registered THEN missable \cup {q.webhook} ELSE missable
  /\ lingering' = IF registered THEN lingering \cup {q.webhook} ELSE lingering
  /\ UNCHANGED <<rows, unused, secretRow, registry, up, overlapped>>

\* set_secret_active_status: the registries are not told.
ToggleSecret ==
  /\ up /\ secretExists /\ budget.toggles > 0
  /\ budget' = [budget EXCEPT !.toggles = @ - 1]
  /\ secretActive' = ~secretActive
  /\ UNCHANGED <<rows, unused, secretExists, registry, requests, up, history>>

\* A row refers to the secret, or a change that makes one do so is flushed.
SecretUsed ==
  \/ \E w \in Webhooks : rows[w] # NoRow /\ rows[w].secret = "set"
  \/ \E r \in Requests :
       LET q == requests[r] IN
       \/ q.pc \in {"inserted", "created"} /\ q.new.secret = "set"
       \/ q.pc \in {"flushed", "replaced"} /\ q.new.secret # q.read.secret

\* delete_secret_by_label: the foreign key of webhooks refuses it as long as a
\* row refers to the secret, and makes it wait for the flushed ones.
DeleteSecret ==
  /\ up /\ secretExists /\ ~SecretUsed /\ budget.toggles > 0
  /\ budget' = [budget EXCEPT !.toggles = @ - 1]
  /\ secretExists' = FALSE /\ secretActive' = FALSE
  /\ UNCHANGED <<rows, unused, registry, requests, up, history>>

\* The process stops; open transactions roll back.  At startup every processor
\* loads the rows of its event and those of event "*"; the latter raise
\* (WebhookEvent("*") is no member), and the server does not start.
Restart ==
  /\ up /\ budget.restarts > 0
  /\ budget' = [budget EXCEPT !.restarts = @ - 1]
  /\ requests' = [r \in Requests |-> NoRequest]
  /\ up' = \A w \in Webhooks : ~Loaded("*", w)
  /\ registry' = [e \in Events |-> [w \in Webhooks |->
                    IF Loaded(e, w) THEN <<rows[w].target>> ELSE <<>>]]
  /\ missable' = IF secretActive THEN {}
                  ELSE {w \in Webhooks : rows[w] # NoRow /\ rows[w].secret = "set"}
  /\ lingering' = {}
  /\ UNCHANGED <<rows, unused, secretRow, overlapped>>

Next ==
  \/ \E r \in Requests :
       \/ \E w \in Webhooks, e \in Events, secret \in {"set", "none"}, t \in Targets :
            CreateInsert(r, w, e, secret, t)
       \/ CreateRegister(r) \/ CreateCommit(r)
       \/ \E w \in Webhooks, p \in Payloads : UpdateRead(r, w, p)
       \/ UpdateFlush(r) \/ UpdateReplace(r) \/ UpdateCommit(r)
       \/ \E w \in Webhooks : DeleteRead(r, w)
       \/ DeleteRemove(r) \/ DeleteCommit(r)
       \/ RequestFail(r)
  \/ ToggleSecret \/ DeleteSecret
  \/ Restart

Spec == Init /\ [][Next]_vars

-----------------------------------------------------------------------------
(* Properties.                                                             *)

(* Types of every variable.                                                *)
TypeOK ==
  /\ rows \in [Webhooks -> Row \cup {NoRow}]
  /\ unused \in SUBSET Webhooks
  /\ secretExists \in BOOLEAN /\ secretActive \in BOOLEAN
  /\ registry \in [Events -> [Webhooks -> Seq(Targets)]]
  /\ requests \in [Requests -> RequestStates]
  /\ up \in BOOLEAN
  /\ budget \in [toggles : Nat, failures : Nat, restarts : Nat]
  /\ missable \in SUBSET Webhooks
  /\ lingering \in SUBSET Webhooks
  /\ overlapped \in SUBSET Webhooks

(* However requests interleave, fail and roll back, no processor holds two *)
(* configs of one webhook: an event is never posted to it twice.           *)
OneConfigPerWebhook ==
  \A e \in Events, w \in Webhooks : Len(registry[e][w]) <= 1

\* The row of w asks for the events of e.
Wants(w, e) ==
  rows[w] # NoRow /\ rows[w].event = e /\ rows[w].enabled = "on" /\ rows[w].secret = "set"

(* With no request on it in progress, an enabled webhook with a secret is  *)
(* registered for its event with the target its row holds, although the    *)
(* registry is written before the row is committed.  The exceptions, until *)
(* the next restart: two requests on it overlapped, one rolled back after  *)
(* writing the registry, or its secret was inactive when the server        *)
(* started.                                                                *)
RegisteredWhereWanted ==
  \A w \in Webhooks, e \in Events :
    up /\ Idle(w) /\ w \notin missable /\ Wants(w, e)
      => registry[e][w] = <<rows[w].target>>

(* With no request on it in progress, a webhook is registered for no event *)
(* its row does not ask for: a deleted one for none.  The exceptions, until*)
(* the next restart: two requests on it overlapped, one rolled back after  *)
(* writing the registry, or an update moved it to another event or left it *)
(* disabled.                                                               *)
RegisteredOnlyWhereWanted ==
  \A w \in Webhooks, e \in Events :
    up /\ Idle(w) /\ w \notin lingering /\ registry[e][w] # <<>> => Wants(w, e)

(* No single request leaves a row that stops the next start of the server  *)
(* (an enabled one of event "*" with an active secret): it takes two that  *)
(* overlapped on the webhook, each of which saw half of it.                *)
StartsUnlessOverlapped ==
  /\ \A w \in Webhooks : Loaded("*", w) => w \in overlapped
  /\ ~up => overlapped # {}

=============================================================================
