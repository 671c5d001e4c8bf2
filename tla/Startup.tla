-------------------------------- MODULE Startup --------------------------------
(***************************************************************************)
(* The server process from start to stop: init_db creates the tables and   *)
(* the first administrator and swallows every error, the registries and    *)
(* the API keys are loaded and let every error stop the process, and the   *)
(* container runtime starts it again ("restart: unless-stopped").  The     *)
(* compose file starts it five seconds after the database container, ready *)
(* or not.                                                                 *)
(*                                                                         *)
(* While the server serves, requests change what init_db made: the         *)
(* administrator's password and login secrets, and whether there is one.   *)
(* Each is one transaction here; how the steps of two overlap is module    *)
(* Accounts.  ADMIN_EMAIL is taken not to be an address onboarding makes   *)
(* of a name.                                                              *)
(***************************************************************************)
EXTENDS Naturals

CONSTANTS
  MaxCrashes,  \* bound: times the process is killed or stopped
  MaxOutages,  \* bound: times the database goes away
  MaxLogins    \* bound: secrets labelled login the administrator has

ASSUME BoundsAssumption ==
  {MaxCrashes, MaxOutages} \subseteq Nat /\ MaxLogins \in Nat \ {0}

VARIABLES
  pc,       \* the call lifespan is at
  db,       \* the database answers
  tables,   \* the tables exist
  admin,    \* the row of the administrator exists
  login,    \* secrets of the administrator labelled login, by is_active
  signedIn, \* the administrator has a session in the cache
  others,   \* there is another administrator
  readable, \* no enabled row of webhooks makes a processor's load raise
  budget,   \* what is left of the two bounds
  failed,   \* history: a call of init_db failed in this start
  cut,      \* history: the row's start ended before its secret was saved
  edited,   \* history: the row's password or login secrets were changed
  removed   \* history: the row was deleted since this start

account  == <<admin, login>>
sessions == <<signedIn, others>>
excuses  == <<failed, cut, edited, removed>>
startupVars == <<pc, db, tables, account, sessions, readable, budget, excuses>>

Steps == {"down", "tables", "lookup", "user", "secret", "registries", "keys", "serving"}

Logins == [active : 0 .. MaxLogins, inactive : 0 .. MaxLogins]
NoLogins == [active |-> 0, inactive |-> 0]
OneLogin == [active |-> 1, inactive |-> 0]
Room == login.active + login.inactive < MaxLogins

\* scalar_one_or_none of the secrets labelled login, and its is_active.
CanLogin == admin /\ login = OneLogin

StartupInit ==
  /\ pc = "down"
  /\ db = FALSE /\ tables = FALSE /\ readable = TRUE
  /\ admin = FALSE /\ login = NoLogins
  /\ signedIn = FALSE /\ others = FALSE
  /\ budget = [crashes |-> MaxCrashes, outages |-> MaxOutages]
  /\ failed = FALSE /\ cut = FALSE /\ edited = FALSE /\ removed = FALSE

-----------------------------------------------------------------------------
(* lifespan.                                                               *)

\* The container runtime starts the process.
Start ==
  /\ pc = "down"
  /\ pc' = "tables"
  /\ failed' = FALSE /\ removed' = FALSE
  /\ UNCHANGED <<db, tables, account, sessions, readable, budget, cut, edited>>

\* init_db, step 1: create_all; an error ends init_db, and nothing else.
CreateTables ==
  /\ pc = "tables"
  /\ tables' = (tables \/ db)
  /\ pc' = IF db THEN "lookup" ELSE "registries"
  /\ failed' = ~db
  /\ UNCHANGED <<db, account, sessions, readable, budget, cut, edited, removed>>

\* Mutant of LookupAdmin: an administrator who cannot log in stops the process.
LookupAdminStrict ==
  /\ pc = "lookup"
  /\ pc' = IF ~db \/ CanLogin THEN "registries" ELSE IF admin THEN "down" ELSE "user"
  /\ failed' = ~db
  /\ UNCHANGED <<db, tables, account, sessions, readable, budget, cut, edited, removed>>

\* init_db, step 2, in one transaction: an error of any call ends it, and so
\* does the row, whether or not its user can log in.
LookupAdmin ==
  /\ pc = "lookup"
  /\ pc' = IF db /\ ~admin THEN "user" ELSE "registries"
  /\ failed' = ~db
  /\ UNCHANGED <<db, tables, account, sessions, readable, budget, cut, edited, removed>>

\* Mutant of CreateAdmin: the user is committed and the step is over.
CreateAdminOnly ==
  /\ pc = "user"
  /\ admin' = db
  /\ pc' = "registries"
  /\ failed' = ~db
  /\ UNCHANGED <<db, tables, login, sessions, readable, budget, cut, edited, removed>>

\* create_user commits the row of the administrator.
CreateAdmin ==
  /\ pc = "user"
  /\ admin' = db
  /\ pc' = IF db THEN "secret" ELSE "registries"
  /\ failed' = ~db
  /\ UNCHANGED <<db, tables, login, sessions, readable, budget, cut, edited, removed>>

\* create_user_secret, and the commit at the end of the transaction.
CreateSecret ==
  /\ pc = "secret"
  /\ login' = IF db THEN OneLogin ELSE login
  /\ pc' = "registries"
  /\ failed' = ~db /\ cut' = ~db
  /\ UNCHANGED <<db, tables, admin, sessions, readable, budget, edited, removed>>

\* Mutant of LoadRegistries: an error is swallowed as in init_db.
LoadRegistriesSwallow ==
  /\ pc = "registries"
  /\ pc' = "keys"
  /\ UNCHANGED <<db, tables, account, sessions, readable, budget, excuses>>

\* load_all_registries: each processor selects its rows; any error leaves
\* lifespan and ends the process.
LoadRegistries ==
  /\ pc = "registries"
  /\ pc' = IF db /\ tables /\ readable THEN "keys" ELSE "down"
  /\ UNCHANGED <<db, tables, account, sessions, readable, budget, excuses>>

\* APIKeyAuthProcessor.load; then the listener task is created and requests
\* are served.
LoadKeys ==
  /\ pc = "keys"
  /\ pc' = IF db THEN "serving" ELSE "down"
  /\ UNCHANGED <<db, tables, account, sessions, readable, budget, excuses>>

\* The process is killed, or ends (the listener task is cancelled), and the
\* cache of sessions with it.
Stop ==
  /\ pc # "down" /\ budget.crashes > 0
  /\ budget' = [budget EXCEPT !.crashes = @ - 1]
  /\ pc' = "down"
  /\ signedIn' = FALSE
  /\ cut' = (cut \/ pc = "secret")
  /\ UNCHANGED <<db, tables, account, others, readable, failed, edited, removed>>

-----------------------------------------------------------------------------
(* Requests about the administrator.                                       *)

Serving == pc = "serving" /\ db

\* login_user, or the validation of a token it issued before.
SignIn ==
  /\ Serving /\ CanLogin
  /\ signedIn' = TRUE
  /\ UNCHANGED <<pc, db, tables, account, others, readable, budget, excuses>>

\* The TTL of the session ends.
SignOut ==
  /\ pc = "serving"
  /\ signedIn' = FALSE
  /\ UNCHANGED <<pc, db, tables, account, others, readable, budget, excuses>>

\* An administrator onboards another one, or deletes the last other one.
OtherAdmins ==
  /\ Serving /\ (signedIn \/ others)
  /\ others' \in BOOLEAN
  /\ UNCHANGED <<pc, db, tables, account, signedIn, readable, budget, excuses>>

SetLogins(rows) ==
  /\ Serving /\ signedIn /\ admin
  /\ login' = rows
  /\ edited' = TRUE
  /\ UNCHANGED <<pc, db, tables, admin, sessions, readable, budget, failed, cut, removed>>

\* change_user_password: the active secrets are revoked, and a new one is
\* labelled login beside them.
ChangePassword ==
  Room /\ SetLogins([active |-> 1, inactive |-> login.active + login.inactive])

\* create_secret_for_user, with the label login.
AddLogin ==
  /\ Room
  /\ \/ SetLogins([login EXCEPT !.active = @ + 1])
     \/ SetLogins([login EXCEPT !.inactive = @ + 1])

\* set_secret_active_status: every secret of the label that is not so becomes so.
ToggleLogin ==
  LET all == login.active + login.inactive IN
  \/ login.inactive > 0 /\ SetLogins([active |-> all, inactive |-> 0])
  \/ login.active > 0 /\ SetLogins([active |-> 0, inactive |-> all])

\* delete_secret_by_label: every secret of the label.
DeleteLogins == login # NoLogins /\ SetLogins(NoLogins)

\* delete_user_by_identifier, at the request of any administrator: secrets and
\* row go; a session stays until its TTL ends.
DeleteAdmin ==
  /\ Serving /\ (signedIn \/ others) /\ admin
  /\ admin' = FALSE /\ login' = NoLogins
  /\ removed' = TRUE /\ cut' = FALSE /\ edited' = FALSE
  /\ UNCHANGED <<pc, db, tables, sessions, readable, budget, failed>>

-----------------------------------------------------------------------------
(* Around the process.                                                     *)

Outage ==
  /\ db /\ budget.outages > 0
  /\ budget' = [budget EXCEPT !.outages = @ - 1]
  /\ db' = FALSE
  /\ UNCHANGED <<pc, tables, account, sessions, readable, excuses>>

DatabaseUp ==
  /\ ~db
  /\ db' = TRUE
  /\ UNCHANGED <<pc, tables, account, sessions, readable, budget, excuses>>

\* Overlapping updates leave a row of event "*" with a secret (WebhookRegistry).
UnreadableRow ==
  /\ Serving
  /\ readable' = FALSE
  /\ UNCHANGED <<pc, db, tables, account, sessions, budget, excuses>>

Lifespan ==
  \/ Start \/ CreateTables \/ LookupAdmin \/ CreateAdmin \/ CreateSecret
  \/ LoadRegistries \/ LoadKeys

AdminRequest ==
  \/ SignIn \/ SignOut \/ OtherAdmins
  \/ ChangePassword \/ AddLogin \/ ToggleLogin \/ DeleteLogins
  \/ DeleteAdmin

StartupNext ==
  Lifespan \/ Stop \/ AdminRequest \/ Outage \/ DatabaseUp \/ UnreadableRow

StartupSpec == StartupInit /\ [][StartupNext]_startupVars

(* Fairness: the process runs, and the runtime starts it again.            *)
FairSpec == StartupSpec /\ WF_startupVars(Lifespan)

-----------------------------------------------------------------------------
(* Properties.                                                             *)

(* Types of every variable.                                                *)
StartupTypeOK ==
  /\ pc \in Steps
  /\ db \in BOOLEAN /\ tables \in BOOLEAN /\ readable \in BOOLEAN
  /\ admin \in BOOLEAN /\ login \in Logins
  /\ login.active + login.inactive <= MaxLogins
  /\ signedIn \in BOOLEAN /\ others \in BOOLEAN
  /\ budget \in [crashes : Nat, outages : Nat]
  /\ failed \in BOOLEAN /\ cut \in BOOLEAN
  /\ edited \in BOOLEAN /\ removed \in BOOLEAN

(* init_db swallows its errors, and still the server never serves without  *)
(* its tables: what init_db lets pass, the loads after it do not.          *)
ServesWithTables == pc = "serving" => tables

(* The server serves with an administrator who can log in, and a start     *)
(* makes up for a deletion of the row and for a call of init_db that       *)
(* failed before.  The exceptions: a call of init_db failed in this very   *)
(* start; the row was deleted since; or the row that stands has been left  *)
(* without its secret by a start that ended between the two commits, or    *)
(* had its password or login secrets changed.  Those no start makes up     *)
(* for: init_db finds the row and is content.                              *)
AdminWorks == pc = "serving" => CanLogin \/ failed \/ removed \/ cut \/ edited

(* Whenever the database stays up, and no row stops the loads, the server  *)
(* comes up for good, however many starts failed or were cut off before    *)
(* and whatever has become of the administrator.                           *)
ComesUp == <>[]db /\ []readable => <>[](pc = "serving")

=============================================================================
