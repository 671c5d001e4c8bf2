------------------------------ MODULE Accounts ------------------------------
(***************************************************************************)
(* Users, their login secrets and their sessions: onboarding, login, the   *)
(* validation of tokens with its cache, password changes, and the requests *)
(* by which users edit their own secrets, the ones labelled login too.     *)
(*                                                                         *)
(* A user is an email and a life, as a deleted user may be onboarded again *)
(* under a new id; a token is the secret that signed it and when.          *)
(* A password is the number of the user's changes before it.  The          *)
(* administrator whom init_db makes has an email of no batch: module       *)
(* Startup has how he is made, and what requests then do to him.           *)
(***************************************************************************)
EXTENDS Integers, Sequences, FiniteSetsExt, SequencesExt, TLC

CONSTANTS
  Emails,      \* emails of the names administrators onboard
  Batches,     \* the lists of names they send
  Requests,    \* requests in flight that take several steps
  Lifetime,    \* JWT_EXPIRATION_MINUTES: of a token, and of a cached session
  MaxTime,     \* bound: the clock
  MaxSecrets,  \* bound: login secrets made
  MaxTokens,   \* bound: tokens issued
  MaxLives,    \* bound: users made of one email
  MaxFaults    \* bound: database calls that raise, and restarts of the server

ASSUME BoundsAssumption ==
  /\ {Lifetime, MaxSecrets} \subseteq Nat \ {0}
  /\ {MaxTime, MaxTokens, MaxLives, MaxFaults} \subseteq Nat
  /\ Batches \subseteq Seq(Emails)

VARIABLES
  now,      \* the clock
  users,    \* table users
  lives,    \* users made of each email so far
  secrets,  \* table user_secrets, its rows labelled login
  serial,   \* secrets made so far
  replaced, \* replaced[u][p + 1]: when password p of u made way for the next,
            \* which is all there is to hashed_password and its history
  tokens,   \* tokens issued
  sessions, \* LoginAuthProcessor._session_cache, without what its TTL ended
  requests, \* requests under way
  closed,   \* history: when each secret was last revoked or deleted
  lost,     \* history: users whose batch failed before it saved their secret
  changed,  \* history: users who changed their password
  meddled,  \* history: users who edited secrets labelled login
  budget    \* faults that may still happen

tables == <<users, secrets, replaced>>
Password(u) == Len(replaced[u])
vars == <<now, tables, lives, serial, tokens, sessions, requests,
          closed, lost, changed, meddled, budget>>

User == [email : Emails, life : 1 .. MaxLives]
Secret == [user : User, n : 1 .. MaxSecrets, active : BOOLEAN]
Token == [user : User, n : 1 .. MaxSecrets, iat : 0 .. MaxTime]
\* The user object a session holds is as it was read when the token was checked.
Session == [checked : 0 .. MaxTime, since : 0 .. MaxTime, password : Nat]

\* A request validates a token, changes a password or onboards a batch, whose
\* session holds at most one secret that is flushed and not committed.
Idle == [pc |-> "idle"]
Request ==
  {Idle} \cup [pc : {"verified"}, token : Token, at : 0 .. MaxTime, password : Nat]
         \cup [pc : {"change", "revoked"}, user : User, rows : SUBSET Secret]
         \cup [pc : {"lookup", "create"}, todo : Seq(Emails), pending : SUBSET Secret]
         \cup [pc : {"secret"}, todo : Seq(Emails), pending : SUBSET Secret, user : User]

-----------------------------------------------------------------------------
(* Reads.                                                                  *)

LoginRows(u) == {s \in secrets : s.user = u}

\* get_user_secret_by_label: none, or more than one, is an error.
UsableSecret(u) == {s \in LoginRows(u) : LoginRows(u) = {s} /\ s.active}
CanLogin(u) == u \in users /\ UsableSecret(u) # {}

Registered(email) == \E u \in users : u.email = email

Onboarding(q) == requests[q].pc \in {"lookup", "create", "secret"}

\* Users whose secret a batch has not yet committed.
Unsaved(q) ==
  IF ~Onboarding(q) THEN {}
  ELSE {s.user : s \in requests[q].pending}
         \cup (IF requests[q].pc = "secret" THEN {requests[q].user} ELSE {})

\* Rows that transactions hold: of users, and of their secrets.
HeldUsers == {requests[q].user : q \in {r \in Requests : requests[r].pc = "revoked"}}
HeldRows == UNION {requests[q].rows : q \in {r \in Requests : requests[r].pc = "revoked"}}

\* Mutant of Live: sessions are kept in a plain dict.
LiveForEver(session, time) == TRUE

Live(session, time) == time < session.since + Lifetime

Unexpired(token) == now < token.iat + Lifetime

-----------------------------------------------------------------------------
Init ==
  /\ now = 0
  /\ users = {} /\ lives = [e \in Emails |-> 0]
  /\ secrets = {} /\ serial = 0
  /\ replaced = [u \in User |-> <<>>]
  /\ tokens = {} /\ sessions = <<>>
  /\ requests = [q \in Requests |-> Idle]
  /\ closed = [n \in 1 .. MaxSecrets |-> 0]
  /\ lost = {} /\ changed = {} /\ meddled = {}
  /\ budget = MaxFaults

SetRequest(q, req) == requests' = [requests EXCEPT ![q] = req]

\* Time passes, and sessions end.
Tick ==
  /\ now < MaxTime
  /\ now' = now + 1
  /\ sessions' = [t \in {s \in DOMAIN sessions : Live(sessions[s], now + 1)} |-> sessions[t]]
  /\ UNCHANGED <<tables, lives, serial, tokens, requests, closed, lost, changed, meddled, budget>>

\* login_user.  A token whose secret is revoked between the read and the answer
\* is as good as one revoked right after.
Login(u) ==
  /\ u \in users /\ Cardinality(tokens) < MaxTokens
  /\ \E s \in UsableSecret(u) :
       tokens' = tokens \cup {[user |-> u, n |-> s.n, iat |-> now]}
  /\ UNCHANGED <<now, tables, lives, serial, sessions, requests, closed,
               lost, changed, meddled, budget>>

-----------------------------------------------------------------------------
(* LoginAuthMiddleware.dispatch.  A token in the cache is accepted as it   *)
(* is, which changes nothing.                                              *)

\* Mutant of Verified: is_active is not looked at.
VerifiedInactive(t) ==
  /\ t.user \in users /\ Unexpired(t)
  /\ \E s \in LoginRows(t.user) : LoginRows(t.user) = {s} /\ s.n = t.n

Verified(t) ==
  /\ t.user \in users /\ Unexpired(t)
  /\ \E s \in UsableSecret(t.user) : s.n = t.n

AuthVerify(q, t) ==
  /\ requests[q] = Idle
  /\ t \in tokens \ DOMAIN sessions
  /\ Verified(t)
  /\ SetRequest(q, [pc |-> "verified", token |-> t, at |-> now, password |-> Password(t.user)])
  /\ UNCHANGED <<now, tables, lives, serial, tokens, sessions, closed,
               lost, changed, meddled, budget>>

AuthCache(q) ==
  /\ requests[q].pc = "verified"
  /\ LET req == requests[q]
         entry == [checked |-> req.at, since |-> now, password |-> req.password] IN
     sessions' = [t \in DOMAIN sessions \cup {req.token} |->
                    IF t = req.token THEN entry ELSE sessions[t]]
  /\ SetRequest(q, Idle)
  /\ UNCHANGED <<now, tables, lives, serial, tokens, closed, lost, changed, meddled, budget>>

-----------------------------------------------------------------------------
(* Requests of a user with a session.                                      *)

SignedIn(u) == \E t \in DOMAIN sessions : t.user = u

\* Whoever gives the password of the session's user object, current or not,
\* passes; any other is refused and changes nothing.
ChangeStart(q, u) ==
  /\ requests[q] = Idle /\ SignedIn(u)
  /\ SetRequest(q, [pc |-> "change", user |-> u, rows |-> {}])
  /\ UNCHANGED <<now, tables, lives, serial, tokens, sessions, closed,
               lost, changed, meddled, budget>>

Free(u) == u \notin HeldUsers

\* Mutant of ChangeRevoke: the secrets are revoked before the user's row is
\* updated, so that no lock orders two changes.
ChangeRevokeFirst(q) ==
  LET u == requests[q].user
      rows == {s \in LoginRows(u) : s.active} IN
  /\ requests[q].pc = "change" /\ u \in users
  /\ SetRequest(q, [requests[q] EXCEPT !.pc = "revoked", !.rows = rows])
  /\ UNCHANGED <<now, tables, lives, serial, tokens, sessions, closed,
               lost, changed, meddled, budget>>

\* The UPDATE of the user's row, which waits for other changes, and of the rows
\* of the active secrets.  Without the user the INSERT to come would raise.
ChangeRevoke(q) ==
  LET u == requests[q].user
      rows == {s \in LoginRows(u) : s.active} IN
  /\ requests[q].pc = "change" /\ u \in users /\ Free(u)
  /\ SetRequest(q, [requests[q] EXCEPT !.pc = "revoked", !.rows = rows])
  /\ UNCHANGED <<now, tables, lives, serial, tokens, sessions, closed,
               lost, changed, meddled, budget>>

Inactive(rows) == {[s EXCEPT !.active = FALSE] : s \in rows}
CloseAll(rows) ==
  closed' = [n \in DOMAIN closed |-> IF \E s \in rows : s.n = n THEN now ELSE closed[n]]

\* A new secret labelled login beside the revoked ones.
ChangeCommit(q) ==
  LET u == requests[q].user
      rows == requests[q].rows IN
  /\ requests[q].pc = "revoked" /\ serial < MaxSecrets
  /\ serial' = serial + 1
  /\ secrets' = (secrets \ rows) \cup Inactive(rows)
                  \cup {[user |-> u, n |-> serial + 1, active |-> TRUE]}
  /\ replaced' = [replaced EXCEPT ![u] = Append(@, now)]
  /\ CloseAll(rows)
  /\ changed' = changed \cup {u}
  /\ SetRequest(q, Idle)
  /\ UNCHANGED <<now, users, lives, tokens, sessions, lost, meddled, budget>>

CreateSecret(u, active) ==
  /\ SignedIn(u) /\ u \in users /\ serial < MaxSecrets
  /\ serial' = serial + 1
  /\ secrets' = secrets \cup {[user |-> u, n |-> serial + 1, active |-> active]}
  /\ meddled' = meddled \cup {u}
  /\ UNCHANGED <<now, users, replaced, lives, tokens, sessions, requests,
               closed, lost, changed, budget>>

DeleteSecret(u) ==
  /\ SignedIn(u) /\ LoginRows(u) # {}
  /\ LoginRows(u) \cap HeldRows = {}
  /\ secrets' = secrets \ LoginRows(u)
  /\ CloseAll(LoginRows(u))
  /\ meddled' = meddled \cup {u}
  /\ UNCHANGED <<now, users, replaced, lives, serial, tokens, sessions,
               requests, lost, changed, budget>>

ToggleSecret(u, active) ==
  LET rows == {s \in LoginRows(u) : s.active # active} IN
  /\ SignedIn(u) /\ rows # {} /\ rows \cap HeldRows = {}
  /\ secrets' = (secrets \ rows) \cup {[s EXCEPT !.active = active] : s \in rows}
  /\ IF active THEN UNCHANGED closed ELSE CloseAll(rows)
  /\ meddled' = meddled \cup {u}
  /\ UNCHANGED <<now, users, replaced, lives, serial, tokens, sessions,
               requests, lost, changed, budget>>

-----------------------------------------------------------------------------
(* Requests of administrators.                                             *)

\* Waits for transactions that refer to the user's row; those that insert a
\* secret and commit before it make it raise.
DeleteUser(u) ==
  /\ u \in users \ HeldUsers
  /\ \A q \in Requests : ~(Onboarding(q) /\ \E s \in requests[q].pending : s.user = u)
  /\ users' = users \ {u}
  /\ secrets' = secrets \ LoginRows(u)
  /\ CloseAll(LoginRows(u))
  /\ UNCHANGED <<now, replaced, lives, serial, tokens, sessions,
               requests, lost, changed, meddled, budget>>

OnboardStart(q, batch) ==
  /\ requests[q] = Idle
  /\ SetRequest(q, [pc |-> "lookup", todo |-> batch, pending |-> {}])
  /\ UNCHANGED <<now, tables, lives, serial, tokens, sessions, closed,
               lost, changed, meddled, budget>>

OnboardLookup(q) ==
  LET req == requests[q] IN
  /\ req.pc = "lookup" /\ req.todo # <<>>
  /\ SetRequest(q, IF Registered(Head(req.todo)) THEN [req EXCEPT !.todo = Tail(@)]
                                                 ELSE [req EXCEPT !.pc = "create"])
  /\ UNCHANGED <<now, tables, lives, serial, tokens, sessions, closed,
               lost, changed, meddled, budget>>

\* create_user commits, and with the user the secret of the one before.
OnboardCreate(q) ==
  LET req == requests[q]
      e == Head(req.todo)
      u == [email |-> e, life |-> lives[e] + 1] IN
  /\ req.pc = "create" /\ ~Registered(e) /\ lives[e] < MaxLives
  /\ users' = users \cup {u}
  /\ lives' = [lives EXCEPT ![e] = @ + 1]
  /\ secrets' = secrets \cup req.pending
  /\ SetRequest(q, [pc |-> "secret", todo |-> req.todo, pending |-> {}, user |-> u])
  /\ UNCHANGED <<now, replaced, serial, tokens, sessions, closed, lost, changed, meddled, budget>>

\* create_user_secret only flushes.
OnboardSecret(q) ==
  LET req == requests[q] IN
  /\ req.pc = "secret" /\ req.user \in users /\ serial < MaxSecrets
  /\ serial' = serial + 1
  /\ SetRequest(q, [pc |-> "lookup", todo |-> Tail(req.todo),
                    pending |-> {[user |-> req.user, n |-> serial + 1, active |-> TRUE]}])
  /\ UNCHANGED <<now, tables, lives, tokens, sessions, closed, lost, changed, meddled, budget>>

\* Mutant of OnboardEnd: the session is closed without a commit.
OnboardEndNoCommit(q) ==
  /\ requests[q].pc = "lookup" /\ requests[q].todo = <<>>
  /\ SetRequest(q, Idle)
  /\ UNCHANGED <<now, tables, lives, serial, tokens, sessions, closed,
               lost, changed, meddled, budget>>

OnboardEnd(q) ==
  /\ requests[q].pc = "lookup" /\ requests[q].todo = <<>>
  /\ secrets' = secrets \cup requests[q].pending
  /\ SetRequest(q, Idle)
  /\ UNCHANGED <<now, users, replaced, lives, serial, tokens, sessions,
               closed, lost, changed, meddled, budget>>

\* An INSERT the constraints refuse: the email is taken, the user is gone.
Refused(q) ==
  \/ requests[q].pc = "create" /\ Registered(Head(requests[q].todo))
  \/ requests[q].pc \in {"change", "secret"} /\ requests[q].user \notin users

\* The request raises and rolls back.  A batch raises too: it catches the error,
\* but its session is of no further use.
RequestFail(q) ==
  /\ requests[q].pc \notin {"idle", "verified"}
  /\ \/ Refused(q) /\ UNCHANGED budget
     \/ budget > 0 /\ budget' = budget - 1
  /\ lost' = lost \cup Unsaved(q)
  /\ SetRequest(q, Idle)
  /\ UNCHANGED <<now, tables, lives, serial, tokens, sessions, closed, changed, meddled>>

Restart ==
  /\ budget > 0
  /\ budget' = budget - 1
  /\ lost' = lost \cup UNION {Unsaved(q) : q \in Requests}
  /\ requests' = [q \in Requests |-> Idle]
  /\ sessions' = <<>>
  /\ UNCHANGED <<now, tables, lives, serial, tokens, closed, changed, meddled>>

Next ==
  \/ Tick \/ Restart
  \/ \E u \in users : Login(u) \/ DeleteUser(u)
  \/ \E u \in User : DeleteSecret(u)
  \/ \E u \in User, active \in BOOLEAN : CreateSecret(u, active) \/ ToggleSecret(u, active)
  \/ \E q \in Requests, t \in tokens : AuthVerify(q, t)
  \/ \E q \in Requests, u \in User : ChangeStart(q, u)
  \/ \E q \in Requests, batch \in Batches : OnboardStart(q, batch)
  \/ \E q \in Requests :
       \/ AuthCache(q) \/ ChangeRevoke(q) \/ ChangeCommit(q)
       \/ OnboardLookup(q) \/ OnboardCreate(q) \/ OnboardSecret(q) \/ OnboardEnd(q)
       \/ RequestFail(q)

Spec == Init /\ [][Next]_vars

-----------------------------------------------------------------------------
(* Properties.                                                             *)

(* Types, and the constraints of the tables: one user of an email, one     *)
(* secret of an id, secrets of users there are.                            *)
TypeOK ==
  /\ now \in 0 .. MaxTime
  /\ users \in SUBSET User
  /\ \A u, v \in users : u.email = v.email => u = v
  /\ lives \in [Emails -> 0 .. MaxLives]
  /\ secrets \subseteq Secret
  /\ \A s \in secrets : s.user \in users
  /\ \A s, t \in secrets : s.n = t.n => s = t
  /\ serial \in 0 .. MaxSecrets
  /\ replaced \in [User -> Seq(0 .. MaxTime)]
  /\ tokens \subseteq Token
  /\ DOMAIN sessions \subseteq tokens /\ Range(sessions) \subseteq Session
  /\ requests \in [Requests -> Request]
  /\ closed \in [1 .. MaxSecrets -> 0 .. MaxTime]
  /\ {lost, changed, meddled} \subseteq SUBSET User

(* A token is accepted for less than two lifetimes after its issue: one    *)
(* until its last validation, one in the cache, which adds the time the    *)
(* middleware took between the two.                                        *)
TokenLifetime ==
  \A t \in DOMAIN sessions :
    LET s == sessions[t] IN now < t.iat + 2 * Lifetime + (s.since - s.checked)

(* Once its secret was revoked or deleted, be it with the user, a token is *)
(* accepted for less than a lifetime, and the same delay.                  *)
StaleSessionBound ==
  \A t \in DOMAIN sessions :
    LET s == sessions[t] IN
    (\A row \in secrets : row.n = t.n => ~row.active)
      => now < closed[t.n] + Lifetime + (s.since - s.checked)

(* A change of password is verified against the session's user object: it  *)
(* takes a password that was replaced only for less than a lifetime, and   *)
(* the same delay, whatever became of the secrets meanwhile.               *)
OldPasswordBound ==
  \A t \in DOMAIN sessions :
    LET s == sessions[t] IN
    s.password < Password(t.user)
      => now < replaced[t.user][s.password + 1] + Lifetime + (s.since - s.checked)

(* A user has at most one active login secret, however password changes   *)
(* overlap, unless the user made others by the requests on secrets.        *)
OneActiveLogin ==
  \A u \in users \ meddled : Cardinality({s \in LoginRows(u) : s.active}) <= 1

(* Every user can log in, but for one still being onboarded, one whose     *)
(* onboarding failed or was cut off half way, one who changed the password *)
(* and one who edited secrets labelled login.                              *)
LockedOutOnly ==
  \A u \in users \ (lost \cup changed \cup meddled) :
    (\A q \in Requests : u \notin Unsaved(q)) => CanLogin(u)

(* Not so: whoever changed the password can log in with the new one, as    *)
(* "Replaces the login secret" (auth_schemas.py:29) says.                  *)
ChangedCanLogin == \A u \in users \cap (changed \ meddled) : CanLogin(u)

=============================================================================
