# Air Quilty: models, checks and proofs

A TLA+ development for the air-quality system: the server in `src/Server`, the
firmware that feeds it (`src/Arduino`), the webhooks it serves with their
receiver, and the dashboard (`src/Frontend`). Nine modules model the parts whose
correctness depends on the order of things, and two state abstractly what a part
promises. TLC checks them on small instances; TLAPS proves every safety property
that a passing run checks for every instance. Paths below are under `src/Server/app` unless
they say otherwise.

## 1. The system

The server is one Python process with one event loop: a listener task that
consumes MQTT messages, and one task per REST or GraphQL request. A task gives
way only at an `await`. All durable state is in PostgreSQL; each
`run_in_transaction` (`infrastructure/database/transaction.py`) is one session
that commits when its block ends and rolls back when it raises, at the default
isolation READ COMMITTED. Next to the tables the process keeps state in memory
that is rebuilt at startup: the webhook registries, the list of API keys, the
cache of login sessions and the listener's own state. The devices and the pages
in a browser run programs of their own.

| Component | State | Operations | Interacts with |
|---|---|---|---|
| Device firmware (`src/Arduino`) | UUID in NVS, counter, MQTT session | set up, connect, report every interval | the broker |
| MQTT listener (`domain/mqtt_listener.py`) | `mqtt_state`, the message in hand | subscribe, handle a status, handle a reading, reconnect | broker, sensor tables, dispatcher |
| Sensor metadata REST (`api/rest/sensor_metadata.py`) | table `sensors` | update, delete | listener (same rows), dispatcher |
| Queries (`domain/sensor_data_logic.py`, `domain/pagination.py`, GraphQL) | none of their own | filter, count, page, latest | both sensor tables |
| Webhook management (`domain/webhooks/webhook_logic.py`) | table `webhooks`, five in-memory registries | create, update, delete, load | secrets, dispatcher |
| Webhook delivery (`dispatcher.py`, `*_processor.py`, `send_webhook.py`) | the registries while a dispatch iterates them, `last_error` | dispatch, post, retry, save | listener and REST tasks, receivers |
| Webhook receiver (`src/webhook receiver`) | none | verify a signature, accept or refuse | delivery |
| API keys (`domain/api_key_processor.py`, `auth_logic.py`) | table `api_keys`, in-memory list | generate, delete, revoke all, match | API-key middleware, password change |
| Accounts (`auth_logic.py`, `login_auth_processor.py`) | tables `users`, `user_secrets`, session cache | onboard, login, validate, change password, edit secrets, delete user | login middleware |
| Startup (`lifespan`, `infrastructure/database/init_db.py`, `docker-compose.yml`) | tables and first administrator | init_db, loads, restart; requests about the administrator | database, all of the above |
| Dashboard (`src/Frontend`) | data of the load, selected room, requests in flight | load, refresh, choose a room | a data file |
| Access control (`middleware/*_auth_middleware.py`) | none | map of paths to roles | API keys, accounts |
| Rate limit, HTTPS, logging, configuration | library state | | |

What is hard, and the property that makes each part correct:

* **Firmware.** Power and network fail at any step, the connection dies unnoticed,
  the millisecond counter wraps. Correct: one identity per device, a reading only
  in a session that announced itself, readings an interval apart, and it goes on.
* **Ingestion.** Connections break with a clean session, so messages are lost;
  QoS 2 readings may be handled after a later QoS 1 status; each handler is
  several transactions and dispatches, any of which may raise; REST requests edit
  and delete the same rows. Correct: nothing is announced before it is stored, a
  stored reading has its sensor, each sensor's flag follows the broker's retained
  status, edits do not undo one another, nothing deleted comes back, and nothing
  wedges the one listener task.
* **Webhook registries.** Memory is changed before the commit. Correct: a webhook
  is registered exactly where its row asks for it, once, and no row keeps the
  server from starting.
* **Delivery.** `handle` iterates a list over awaits while requests edit it; posts,
  answers and writes are lost. Correct: no webhook is skipped or posted to
  twice, and none that was removed before the dispatch began is posted to (one
  removed meanwhile may be); every event is accepted, refused or recorded as
  failed; every dispatch ends, but for a receiver whose answer never does.
* **API keys.** Table and list change at different moments. Correct: accepted
  keys are the active ones, and the limit holds but for requests in flight.
* **Accounts.** Tokens are cached with a user object and without their secret,
  batches commit half way, passwords change concurrently. Correct: a token's life
  is bounded, revoked or not, and so is an old password's; one active login
  secret; nobody is locked out.
* **Queries.** Count and page are separate statements, each page a new query, the
  latest readings one transaction per sensor. Correct: a walk through the pages
  misses nothing, page and total agree up to what arrived between them, filters
  select what they say, the latest readings are.
* **Startup.** One half swallows errors, the other lets them end the process.
  The administrator it makes is a user like others, who may be deleted or change
  the password. Correct: no service without tables or, but for named exceptions,
  without an administrator who can log in, and service in the end.
* **Dashboard.** Refreshes overlap, answers come in any order, a listener keeps
  the data of the load. Correct: the page shows the selected room and goes
  forward in time.

`PROJECT.json` lists every hazard with the line where it bites.

## 2. The modules

Common conventions. A transaction is split at every `await` after which something
may have changed: one action per statement or commit, with the values read
earlier held in a request record, and the awaits in between left to the
interleaving. A commit of several writes is one step. A call that can raise has
a failing twin (`ListenerFail`, `RequestFail`, the raising branches of a save).
`Restart` resets what is in memory, keeps the tables and reloads. PostgreSQL's
row locks are guards (`Locks`, and the rows and users held by a request).
Variables marked "history" are read by properties only: they record which
documented exception applies. The definitions commented "Mutant of X" are
deliberate faults used to show that a property depends on X; no specification
uses them.

**Presence** — what the broker sees of the devices and all the server relies on:
a reading comes only from a session that announced itself, and no session ends
without its retained "offline". It composes the two sides of the broker:
SensorIngest's device actions are conjunctions with the actions of Presence, so
that what it assumes of a device is a Presence and nothing else, and Firmware,
the device's program, implements it.

**ReadingPipeline** — what the ingestion promises of readings: one at a time
through the table, the data webhooks, the alert webhooks and the counter, in this
order, never back, given up at any stage. Abstract; SensorIngest implements it.

**Firmware** — `setup` and `loop` as a program counter over the calls that wait;
Wi-Fi and broker that come and go, power lost at any step, `millis` modulo
`Width`, the connection as it is (`tcp`) and as the client believes (`connected`),
the broker's sessions with their last wills and take-overs.

**SensorIngest** — devices, broker, listener, metadata REST. `inbox[s]` holds one
device's messages on their way to the listener; `retained` the broker's retained
statuses. The listener is a program counter `lpc` over the awaits of
`handle_mqtt_message`:

| Action | Code |
|---|---|
| `DeviceConnect`, `DeviceLost`, `DeviceFlap`, `DevicePublish` | `connectToMQTT`, the last will, `sendMQTTMessage` |
| `LinkDrop`, `LinkError`, `Subscribe` | the reconnect loop of `listen_to_mqtt`; a subscription brings the retained statuses |
| `Overtake` | QoS 2 handshake against QoS 1 status |
| `Receive`, `StatusLookup`, `StatusLoad`, `StatusCommit`, `StatusAnnounce` | `process_status_message`, `ensure_sensor_exists`, `modify_sensor`, the dispatch |
| `DataLookup`, `CreatePlaceholder`, `CreatedDispatch`, `InsertReading`, `DispatchReceived`, `DispatchAlert`, `CountReading` | `process_sensor_data`, call by call |
| `ListenerFail` | the two `except` clauses of the message loop |
| `UpdateLoad/Commit/Announce`, `DeleteLoad/Commit/Announce`, `RequestFail` | `update_sensor`, `delete_sensor` |
| `Restart` | `lifespan` |

`dispatcher.dispatch` is one step here; its inside is WebhookDelivery.

**WebhookRegistry** — `webhook_logic.py` against the registries of the five
processors, which are the same list logic. A webhook's row is its event,
`enabled`, whether it has a secret, and its target; a registry maps an event and
a webhook to the configs the processor holds. An update reads, flushes, writes
the registry and commits in four steps. The user's secret is activated,
deactivated and deleted; a restart loads the rows whose secret is active, and
fails on one of an event no processor has.

**WebhookDelivery** — one processor in detail: the alert processor (sorted,
filtering, errors end the dispatch) or one of the other four; Init chooses.
A dispatch iterates the list object it started with (`View`): the processor's own
until a `remove` rebinds `_webhooks`, then its private copy. An index into a list
that `add` sorts is what can repeat an entry. The receiver accepts what it can
verify (`Sharing`) and answers 500 to anything else; a post or an answer may be
lost, or another receiver may refuse with 4xx; a raised write poisons the
session for the rest of the dispatch.

**ApiKeys** — rows and list; a raw key and its hash are different texts
(`Verifies`), which is what the deletion by label gets wrong.

**Accounts** — users, login secrets, tokens, the session cache with its TTL, a
clock. A password is the number of changes before it, and `replaced` tells when
each made way for the next; a session holds the user object it was made with, and
so a password that may be an old one. A token belongs to the secret that signed
it. One budget bounds failing calls and restarts together.

**Queries** — one client asks one request at a time, and may go on to the next
page. `Select` is what a request's body becomes (the mappers and repositories),
`Matching` what it selects now, `Slices` the sets OFFSET/LIMIT may return when
ORDER BY leaves ties open. `Request` says which fields the schema of each
endpoint has; a field it lacks has its default. The writers are the commits of SensorIngest.

**Startup** — `lifespan` call by call: `CreateTables`, `LookupAdmin`,
`CreateAdmin`, `CreateSecret` (each goes on to the loads when the database does
not answer), `LoadRegistries`, `LoadKeys` (each ends the process), `Start` by the
container runtime, `Stop` and outages at any step. While the server serves, the
administrator signs in, changes the password (`ChangePassword`: the active
secrets are revoked and one more is labelled `login`), edits secrets of that
label (`AddLogin`, `ToggleLogin`, `DeleteLogins`) and is deleted by any
administrator (`DeleteAdmin`); the label's rows are counted by `is_active`, which
is all the login looks at. These requests are one step each: what their overlap
does is in Accounts, and one that a foreign key or the database refuses changes
nothing. Its definitions are named
`StartupInit`, `StartupNext` and so on, because one proof module extends it
together with Queries.

**Dashboard** — the two pages of `script.js`. The data is the number of its
version; a page shows a version and a room. Requests in flight are served and
answered in any order; `Choose` draws from `data`, which the listener of
`roomSelect` closed over at the load.

The modules meet at a dispatch (SensorIngest emits an event, WebhookDelivery
delivers it), at the processors' lists (WebhookRegistry's edits are
WebhookDelivery's `Add`, `Remove`, `Replace`), at the row that keeps the server
from starting (WebhookRegistry makes it, Startup meets it), at the users
(Startup has the one `init_db` makes, Accounts those of batches), at the tables, and at the broker, where Presence joins Firmware and SensorIngest.
They are checked apart. At these meeting points a module takes any step of the
other at any time: any event is dispatched, any config the list lacks added, any removed or
replaced, a row made unreadable, a reading or a sensor written. What is not free
is named: a dispatch that may never end is a premise in SensorIngest because it
is one in WebhookDelivery, and Startup takes ADMIN_EMAIL not to be an address
onboarding makes (`first.last@tuni.fi`), so that only a start makes that row.

## 3. What the runs check

Every passing run explores its instance completely.

| Run | Question | Properties | Bounds |
|---|---|---|---|
| `ingest_loss` | Loss, restart, failure, reordering against one REST request; progress | `OrphansOnlyAfterDelete`, `StatusInSync`, `EventuallyInSync`, `BacklogDrains` | 1 sensor, 1 request, 1 reading, 2 device sessions, 1 drop, 1 restart, 1 failure |
| `ingest_writers` | Two REST requests and the listener on one row | `AnnouncedStatusIsCurrent`, `ImplementsPipeline`, `NoResurrection` | 1 sensor, 2 requests, 2 readings, 1 restart, 1 failure, no drop |
| `webhook_registry` | Overlapping edits, rollback, secrets, restart | `OneConfigPerWebhook`, `RegisteredWhereWanted`, `RegisteredOnlyWhereWanted`, `StartsUnlessOverlapped` | 1 webhook, 2 requests, 2 events and `*`, 1 toggle, failure, restart |
| `webhook_delivery` | Iteration against edits, losses and failed writes | `NoneSkipped`, `PostedOnce`, `PostedOnlyRegistered`, `DeliveredOrMarked`, `AcceptedOnce`, `DispatchEnds` | 2 webhooks, of which 1 shares its secret and 1 may answer without end, 1 task, 2 dispatches, 2 attempts, 3 edits, 1 failed write |
| `api_keys` | List against table | `AcceptedIsActive`, `ActiveIsAccepted`, `LimitSlack` | 2 users, 3 keys, 2 labels, 2 requests, 1 failure, 1 restart |
| `api_key_deleted` | Is a deleted key refused? | `DeletedIsRefused` violated | 1 user, 2 keys, 1 request |
| `accounts` | How long are tokens and old passwords accepted, and who is locked out? | `TokenLifetime`, `StaleSessionBound`, `OldPasswordBound`, `OneActiveLogin`, `LockedOutOnly` | 1 email, in a batch twice, 2 requests, lifetime 2, clock 4, 3 secrets, 1 token, 1 fault |
| `accounts_changed` | Can one log in after a password change? | `ChangedCanLogin` violated | 1 user |
| `queries` | Queries against writers | `WalkMissesOnlyTies`, `PageAgreesWithTotal`, `OnlyWanted`, `LatestIsFresh` | 2 sensors, 3 readings at 3 times, pages of 1 and 2, 1 change of a sensor |
| `firmware` | Power, network and the wrap of the counter | `OneIdentity`, `ImplementsPresence`, `SpacedReadings`, `KeepsReporting` | 2 identities, counter modulo 4, interval 2, 2 readings, 2 boots |
| `startup` | Starts against outages, stops and what requests make of the administrator | `ServesWithTables`, `AdminWorks`, `ComesUp` | 3 stops, 3 outages, 3 login secrets |
| `dashboard` | Refreshes that overlap and fail, against choices of room | `RoomAsSelected`, `ForwardInTime`, `StaysCurrent` | 2 rooms, data whose rooms change, 2 requests in flight, 1 failure |

Type invariants are not properties of runs: they are proved (`TypeCorrect`,
`StartupTypeCorrect`, `QueriesTypeCorrect`).

Why the bounds are enough. The properties of SensorIngest speak of one sensor,
and the listener handles one message at a time: a second sensor adds only
unrelated steps (the proofs cover any number). One failure, one drop and one
restart are each placed at every step; two requests are the fewest that overlap,
and two with the listener are three writers of one row. Two device sessions give
a stale last will after a new "online". Two webhooks are the fewest of which one
can be skipped or repeated; two attempts tell the last from the others; three
edits remove, replace and add within one dispatch. Dispatches of two tasks share
the list, which the edits change at every step anyway, and the marks of failure,
which only grow; so one task with two dispatches, the second of which meets what
the first left, stands for them. With a limit of one key, two users' requests
reach and exceed it. A clock of twice the lifetime is what a token's longest life
takes; a batch that names its user twice is the shortest in which a user is
committed by a later name and met again, and two such batches overlap. Users
onboarded again after a deletion, and batches of several names, are left to the
proofs. Three readings of different times and pages of one or two give walks
during which both an older and a newer reading arrive. A counter of four with an
interval of two wraps within two readings; two boots and two identities are what
a second identity takes. Three stops and outages hit each of the calls of one
start and the next, with a deletion in between; three secrets labelled `login`
are two changes of the password. Two requests in flight are the fewest that are answered out
of order.

Deadlock is not checked where the bounds bring the system to an end (no message
left to publish, no request left to make). It is in `queries`, `firmware`,
`startup` and `dashboard`, which never end.

### What the code does against its documentation

* `api_key_deleted`: `delete_api_key` hands the stored hash to a function that
  verifies raw keys; the deleted key stays accepted until a restart or a password
  change.
* `accounts_changed`: a password change leaves two rows labelled `login`, and the
  login reads them with `scalar_one_or_none`; no later login succeeds.

Met while modelling, in the models, with no run of their own:

* `update_webhook` puts every webhook with a secret back into the registry,
  disabled or not; it stays there until the next restart. It is a named exception
  of `RegisteredOnlyWhereWanted` (`lingering`).
* `auth_schemas.py:29` says a password change invalidates all sessions. A cached
  token is accepted until its cache entry ends; `StaleSessionBound` says how long.
* The old password is checked against the user object of the session cache, so a
  second change within one session wants the password before the first;
  `OldPasswordBound` says how long.
* A row with the event `*` makes `load_all_registries` raise, and the server does
  not start, nor ever again by itself. It takes two overlapping updates to get
  one (`StartsUnlessOverlapped`).
* `init_db` looks for the administrator's row, not for one who can log in, and
  commits the row before its login secret. A start cut off in between leaves one
  who cannot log in (`cut`), and so does a change of the password or of the login
  secrets (`edited`); no later start mends it unless another administrator
  deletes the row first. Both are named exceptions of `AdminWorks`.
* `timeout=5.0` (`send_webhook.py:59`) bounds each wait for the network, not the
  request. A receiver that sends its answer bit by bit keeps the post, with it the
  dispatch, and with it the listener and all ingestion: the premise of
  `DispatchEnds`, and in SensorIngest of `BacklogDrains` and `EventuallyInSync`.
* The receiver's docstring (`webhook_receiver.py:32`) promises 403 for a wrong
  signature. The 403 is raised inside a `try` whose last handler turns it into
  500, which the server takes for a failure worth a retry.
* `last_triggered_at` is written on final failure only; `webhook_schema.py:85`
  says "successful or attempted". A 4xx answer is given up on without being saved.
* A condition on a field that is not a number raises for every reading and keeps
  the alert from the webhooks sorted behind.
* The metadata GraphQL mapper drops `page` and `page_size`
  (`main_schema.py:88` lists them as supported): every page is the first.
* An empty list of exact timestamps is no filter for GraphQL, and matches nothing
  for REST.
* `index.html:16` announces real-time monitoring. The cards are refreshed; the
  chart beside them never is, as `updateChart` (`script.js:58`) is not defined.
* A choice of room draws the data of the load (`script.js:262`), a named exception
  of `ForwardInTime`; a first load that fails is not tried again; the address of a
  room without readings leaves the selector blank.

## 4. Fairness

* `ingest_loss` (`FairSpec` of SensorIngest): weak fairness of the listener's next
  step and of the commit of a REST request — the event loop runs every ready task,
  and a database call returns or raises (`ListenerFail` is not required to
  happen). None of a dispatch, as a receiver may keep it waiting: the listener's
  own is the stated premise of both liveness properties (`DispatchesEnd`), and a
  REST request's is needed by neither. Strong fairness of `Receive(s)` — the client's queue is
  FIFO, so one device's messages are not overtaken for ever; the model has one
  inbox per device. Nothing is assumed of devices, broker or link: they may stop
  at any time.
* `webhook_delivery` (`FairSpec` of WebhookDelivery): weak fairness of each task's
  next step — a post ends by answer or by the HTTP client's timeout of five
  seconds of silence, a write returns or raises. None while the post at hand is to
  a receiver of `Trickling`, which may send bit by bit without an end: it may
  also answer, and `DispatchEnds` says that nothing else keeps a dispatch.
* `firmware` (`FairSpec` of Firmware): weak fairness of the program (the processor
  runs) and of `Tick` (time passes); strong fairness of `NoticeLoss` — `loop`
  polls the client library at every pass, and it closes a connection on which
  nothing came for two keep-alive intervals. Strong, because the program is at a
  poll again and again, not all the time.
* `startup` (`FairSpec` of Startup): weak fairness of `Lifespan` — the calls
  return or raise, and `restart: unless-stopped` of `docker-compose.yml` starts
  the process again (one stopped by hand is taken to be started by hand). That the database stays up is the premise of `ComesUp`.
* `dashboard` (`FairSpec` of Dashboard): weak fairness of the timer
  (`setInterval`), and for each request of its service and of the drawing of its
  answer. No fairness of failures, choices or new data.

The specifications of the other runs state none: their properties are safety.

## 5. What is proved

Eight modules hold proofs, for every value of the constants. Each proof assumes
the named assumptions of the module it is about (bounds are naturals, special
values are apart, the counter is wider than the interval, sensors are finitely
many, a request is one its endpoint's schema admits) and nothing else. The
argument is the same throughout: `Init` implies an inductive invariant, every
action preserves it (one step per action), and it implies the property. Every
invariant and safety action property of the passing runs is the conclusion of a
theorem, and so are the refinements.

| Proof module | Theorems | Inductive invariants |
|---|---|---|
| `SensorIngest_proofs` | `TypeCorrect`, `PipelineOrdered`, `OrphansOnlyByDelete`, `StatusFollowsBroker`, `EventsTellTheTable`, `MetadataEditSafe`, `RowsOnlyForReadings`, `ReadingsPassInOrder` | `TypeInv`, `PipelineInv`, `OrphanInv`, `SyncInv`, `AnnouncedInv`, `FreshInv` |
| `Firmware_proofs` | `TypeCorrect`, `ReadingsAreSpaced`, `DeviceIsOfPresence`, `OneIdentityShown` | `TypeInv`, `SpaceInv`, `LinkInv`, `IdentityInv` |
| `Server_proofs` | Startup: `StartupTypeCorrect`, `TablesBeforeService`, `AdminBeforeService` | `TablesInv`, `AdminInv` |
| | Queries: `QueriesTypeCorrect`, `PagesHoldWhatIsAsked`, `PagesAgreeWithTotals`, `WalksMissOnlyTies`, `LatestAreFresh` | `TypeInv`, `CountedInv`, `WalkInv`, `LatestInv` |
| `WebhookRegistry_proofs` | `TypeCorrect`, `NeverTwice`, `RowsAreRegistered`, `RegistrationsAreOfRows`, `StartsAgain` | `TypeInv`, `RegistryInv` |
| `WebhookDelivery_proofs` | `TypeCorrect`, `EveryDueConfigIsVisited`, `VisitsAreSingle`, `TargetsAreRegistered`, `NoWebhookInTheDark`, `AcceptancesAreSingle` | `ListInv`, `DispatchInv` (of `PlaceInv`, `DueInv`, `OnceInv`, `HeardInv`, `TargetInv`, `EndedInv`) |
| `ApiKeys_proofs` | `TypeCorrect`, `AcceptedAreActive`, `ActiveAreAccepted`, `LimitSlackBounded` | `ListInv`, `LimitInv` |
| `Accounts_proofs` | `TypeCorrect`, `TokensExpire`, `StaleSessionsExpire`, `OldPasswordsExpire`, `OneLoginEach`, `OnlyTheseLockedOut` | `TablesInv`, `SessionInv`, `LoginsInv` |
| `Dashboard_proofs` | `TypeCorrect`, `SelectedRoomShown`, `GoesForward` | `PageInv` |

Why the invariants are stronger than the properties:

* *SensorIngest.* `TypeOK` is not inductive: the listener's later steps use the
  message in hand as a status or as a reading; `HandlingOK` ties its kind to
  `lpc`. `OrphanInv` adds that from the moment the listener found or made the row
  of the sensor in hand until the insert, the sensor has a row or was deleted.
  `StatusInSync` says nothing while a status is pending; `SyncInv` says of each
  sensor not excused while the listener is subscribed that a message no later
  status supersedes agrees with the retained status, queued (`QueueInv`) or in
  hand (`HandInv`), and that while one is written the flag is what the listener
  last read or has just written (`FlagInv`). `AnnouncedInv` says who, of those at
  work on a row, will yet announce its status.
* *Refinements.* For Firmware's Presence the mapping is the sessions that announced
  themselves; `LinkInv` ties what the firmware believes of
  its connection to the broker's session. For ReadingPipeline the stage is read
  from `lpc`, and `FreshInv` says that every reading queued or in hand is new to
  the table, in whatever order `Overtake` leaves the queue.
* *Firmware.* `SpaceInv`: the counter never shows more time since the last reading
  than has passed; a wrap makes it show less. `IdentityInv`: an identity in use,
  or one the broker ever saw, is stored or failed to be.
* *Startup.* `AdminInv` holds at every step of a start and says who left an
  administrator who cannot log in: the start at work, one that was cut off, or an
  edit; and that past the lookup a missing row is the failure of this start or a
  deletion since. So a row that an earlier start failed to make, or that was
  deleted before, is there again.
* *WebhookRegistry.* `LocksHold` says that a flushed change has its row to itself.
  `RegistryInv` says of each webhook what a request at work on it has already
  registered (`Ahead`) and that, unless two overlapped, the row is still what the
  request read (`ViewInv`).
* *WebhookDelivery.* The properties speak of what a dispatch has done, the
  invariant also of where it stands. `DueInv`: what is due was visited or lies ahead of the index
  in the list the dispatch iterates. `OnceInv`: what was visited lies behind it,
  unless the sorted list grew. `TargetInv`: a config at hand counts as visited and
  is not settled yet, all earlier ones are. `ListInv` says that a list holds no
  webhook twice and the alert processor's is sorted; under each of `add`, `remove`
  and `replace` a lemma says what becomes of that and of the index.
* *ApiKeys.* `ListInv` tracks the keys between table and list and the races that
  excuse a user; `LimitInv` counts a request past the check as the key it will
  make.
* *Accounts.* `TablesInv`: ids of secrets are given once, over committed and
  pending ones, and a change of password has locked the rows it revoked.
  `SessionInv`: a session, or a validation on its way to become one, was backed by
  an active secret and knew the password of the time it was checked.
  `LoginsInv`: a user whose secret a batch has not committed is of that batch
  alone and nobody else works on it (`UnsavedAlone`), and a change of password
  knows every active secret of its user (`RevokedCover`).
* *Dashboard.* `PageInv`: a request that was alone in flight brings nothing older
  than what the page shows or could show by a choice of room.
* *Queries.* `CountedInv`: what was counted before a page is still there when the
  page is read, unless a sensor changed. `WalkInv` is the argument for walks:
  after `n` pages of a walk, a reading of its start that shares its time with none
  and was on no page has at least `n` pages' worth of newer readings before it,
  and no page held an older one. A reading that arrives only adds to those before
  it, so the next page cannot pass it by; a page that is not full is the last, and
  holds it. `LatestInv` counts: a sensor is listed as often as it is still to be
  looked up, known to exist or found, and nothing found is older than what the
  sensor had at the start.

Numbers are counted through without the library's induction theorems, which the
provers cannot instantiate: `Least` derives from the well-foundedness of `<` that
a set of naturals has a least element, and `UpTo` that a set containing 0 and
closed under successor holds all numbers up to a bound. A length or a count that
grows step by step is put as the set of the numbers at which the claim holds. For
the same reason `Removed` of WebhookDelivery filters by a recursive function, and
not by `SelectSeq`, of which the provers know nothing.

## 6. What is only model-checked

* Liveness (`EventuallyInSync`, `BacklogDrains`, `DispatchEnds`, `KeepsReporting`,
  `ComesUp`, `StaysCurrent`): fairness and ENABLED are out of the prover's reach.
* `DeletedIsRefused` and `ChangedCanLogin`, which the code violates: TLC shows the
  counterexamples.

## 7. What is not modelled

* Access control: which roles reach which path is a fixed table without state.
* Sampling and averaging of the sensors, and the display: hardware I/O.
* Values of readings beyond one field, names, locations, models and dates of
  sensors: filters of the form already modelled. The comparison of a reading with
  an alert's conditions is one of three outcomes (`Verdicts`).
* Password values, hashing, encryption and JWT encoding: identities.
* Rate limiting, HTTPS redirection, logging, configuration, exception handlers:
  thin use of libraries.
* Layout and wording of charts, cards and tables of the dashboard.
* A composition of dispatch with registries in one state space: the interfaces are
  covered from both sides (section 2).

## 8. Plan

The order was: ingestion first (the system's purpose, and its most concurrent
part), then the registries, keys, delivery, accounts and queries; then what lies
around the server — firmware, startup, receiver, dashboard —, the two abstract
specifications with their refinements, and the proofs of every safety property.
Left, in this order:

1. *Abstract specifications.* For ApiKeys, a set of accepted keys that follows the
   table with a delay; for WebhookRegistry, a relation of rows and registries that
   holds whenever no request is in flight.
2. *Model.* Access control as a pure module (both path maps, first match wins,
   against a reference table); alert conditions against a reference definition.

## 9. Running

    tlc -workers 2 -config MCSensorIngest_loss.cfg MCSensorIngest
    tlapm SensorIngest_proofs.tla

and likewise for each run of `PROJECT.json`. The longest run, `accounts`, takes
about two minutes, a proof module up to ten.
