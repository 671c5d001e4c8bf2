------------------------------ MODULE ApiKeys -------------------------------
(***************************************************************************)
(* API keys: the table api_keys, and the in-memory list APIKeyAuthProcessor*)
(* matches every request to /sensor against.  The list is loaded at startup*)
(* and then kept by the handlers that generate and delete a key or change  *)
(* a password: each commits to the table first and edits the list after.   *)
(*                                                                         *)
(* A key is an identity; what the list and the table hold of it is its     *)
(* bcrypt hash.  A transaction holds the locks of the rows it wrote until  *)
(* it commits.                                                             *)
(***************************************************************************)
EXTENDS Naturals, FiniteSets

CONSTANTS
  Users,          \* users
  Keys,           \* keys that may be generated
  Labels,         \* labels of keys
  Requests,       \* concurrent REST requests
  MaxKeysPerUser, \* MAX_API_KEYS_PER_USER
  MaxFailures,    \* bound: database calls that raise
  MaxRestarts     \* bound: restarts of the server

ASSUME ParametersAssumption ==
  /\ IsFiniteSet(Keys) /\ IsFiniteSet(Requests)
  /\ MaxKeysPerUser \in Nat \ {0} /\ MaxFailures \in Nat /\ MaxRestarts \in Nat

VARIABLES
  users,    \* ids in table users
  rows,     \* table api_keys
  unissued, \* keys not generated yet
  owner,    \* user each key is generated for: user_id of its entry in the list
  cache,    \* keys of APIKeyAuthProcessor._api_keys
  requests, \* REST requests in progress
  budget,   \* what is left of the two bounds
  raced,    \* history: users of whom a generate and a password change overlapped
  broken,   \* history: users of whom a request failed after its commit
  removed   \* history: keys deleted by label since the last start

history == <<raced, broken, removed>>
vars == <<users, rows, unissued, owner, cache, requests, budget, history>>

Row == [user : Users, label : Labels, active : BOOLEAN]
NoRow == [label |-> "none"]

NoRequest == [pc |-> "none"]
RequestStates ==
  {NoRequest}
    \cup [pc : {"checked"}, user : Users, label : Labels]
    \cup [pc : {"stored", "deleting", "deleted"}, user : Users, key : Keys]
    \cup [pc : {"revoking", "revoked"}, user : Users, keys : SUBSET Keys]

Init ==
  /\ users = Users
  /\ rows = [k \in Keys |-> NoRow]
  /\ unissued = Keys
  /\ owner \in [Keys -> Users]
  /\ cache = {}
  /\ requests = [r \in Requests |-> NoRequest]
  /\ budget = [failures |-> MaxFailures, restarts |-> MaxRestarts]
  /\ raced = {} /\ broken = {} /\ removed = {}

SetRequest(r, q) == requests' = [requests EXCEPT ![r] = q]
Finish(r) == SetRequest(r, NoRequest)

KeysOf(u) == {k \in Keys : rows[k] # NoRow /\ rows[k].user = u}
Active(k) == rows[k] # NoRow /\ rows[k].active

Generating(u) == \E r \in Requests :
  requests[r].pc \in {"checked", "stored"} /\ requests[r].user = u
Changing(u) == \E r \in Requests :
  requests[r].pc \in {"revoking", "revoked"} /\ requests[r].user = u

\* Some open transaction has written row k.
Locked(k) == \E r \in Requests :
  \/ requests[r].pc = "deleting" /\ requests[r].key = k
  \/ requests[r].pc = "revoking" /\ k \in requests[r].keys

-----------------------------------------------------------------------------
(* generate_api_key.                                                       *)

\* Mutant of GenerateCheck: an off-by-one limit.
GenerateCheckOffByOne(r, u, label) ==
  /\ requests[r] = NoRequest
  /\ Cardinality(KeysOf(u)) <= MaxKeysPerUser
  /\ \A k \in KeysOf(u) : rows[k].label # label
  /\ SetRequest(r, [pc |-> "checked", user |-> u, label |-> label])
  /\ raced' = IF Changing(u) THEN raced \cup {u} ELSE raced
  /\ UNCHANGED <<users, rows, unissued, owner, cache, budget, broken, removed>>

\* The user's keys, revoked ones included, are read once: the limit and the
\* label are checked against them.
GenerateCheck(r, u, label) ==
  /\ requests[r] = NoRequest
  /\ Cardinality(KeysOf(u)) < MaxKeysPerUser
  /\ \A k \in KeysOf(u) : rows[k].label # label
  /\ SetRequest(r, [pc |-> "checked", user |-> u, label |-> label])
  /\ raced' = IF Changing(u) THEN raced \cup {u} ELSE raced
  /\ UNCHANGED <<users, rows, unissued, owner, cache, budget, broken, removed>>

\* INSERT and commit.  The handler's user may come from the session cache: one
\* deleted meanwhile violates the foreign key.
GenerateCommit(r, k) ==
  LET q == requests[r] IN
  /\ q.pc = "checked" /\ k \in unissued /\ owner[k] = q.user
  /\ IF q.user \in users
       THEN /\ rows' = [rows EXCEPT ![k] = [user |-> q.user, label |-> q.label,
                                            active |-> TRUE]]
            /\ unissued' = unissued \ {k}
            /\ SetRequest(r, [pc |-> "stored", user |-> q.user, key |-> k])
       ELSE Finish(r) /\ UNCHANGED <<rows, unissued>>
  /\ UNCHANGED <<users, owner, cache, budget, history>>

\* Mutant of GenerateCache: replace instead of add.
GenerateCacheReplace(r) ==
  LET q == requests[r] IN
  /\ q.pc = "stored"
  /\ cache' = {k \in cache : owner[k] # q.user} \cup {q.key}
  /\ Finish(r)
  /\ UNCHANGED <<users, rows, unissued, owner, budget, history>>

\* APIKeyAuthProcessor.add.
GenerateCache(r) ==
  LET q == requests[r] IN
  /\ q.pc = "stored"
  /\ cache' = cache \cup {q.key}
  /\ Finish(r)
  /\ UNCHANGED <<users, rows, unissued, owner, budget, history>>

-----------------------------------------------------------------------------
(* delete_api_key.                                                         *)

\* DELETE ... RETURNING waits for the rows' locks; no row is a 404, and several
\* rows with the label raise MultipleResultsFound: both roll back.
DeleteExecute(r, u, label) ==
  LET found == {k \in KeysOf(u) : rows[k].label = label} IN
  /\ requests[r] = NoRequest
  /\ Cardinality(found) = 1
  /\ \E k \in found :
       ~Locked(k) /\ SetRequest(r, [pc |-> "deleting", user |-> u, key |-> k])
  /\ UNCHANGED <<users, rows, unissued, owner, cache, budget, history>>

DeleteCommit(r) ==
  LET q == requests[r] IN
  /\ q.pc = "deleting"
  /\ rows' = [rows EXCEPT ![q.key] = NoRow]
  /\ SetRequest(r, [q EXCEPT !.pc = "deleted"])
  /\ UNCHANGED <<users, unissued, owner, cache, budget, history>>

\* verify_value: a text verifies against the hash it was hashed to.
Raw(k)  == <<"raw", k>>
Hash(k) == <<"hash", k>>
Verifies(text, k) == text = Raw(k)

\* APIKeyAuthProcessor.remove.
Remaining(text) == {k \in cache : ~Verifies(text, k)}

\* remove gets what RETURNING yields, the column key: the hash.
DeleteUncache(r) ==
  LET q == requests[r] IN
  /\ q.pc = "deleted"
  /\ cache' = Remaining(Hash(q.key))
  /\ removed' = removed \cup {q.key}
  /\ Finish(r)
  /\ UNCHANGED <<users, rows, unissued, owner, budget, raced, broken>>

-----------------------------------------------------------------------------
(* change_password.                                                        *)

\* The UPDATE of the user's row serialises two changes; then the keys committed
\* by now are marked inactive.
ChangeRevoke(r, u) ==
  LET revoked == {k \in KeysOf(u) : rows[k].active} IN
  /\ requests[r] = NoRequest /\ u \in users
  /\ ~ \E q \in Requests : requests[q].pc = "revoking" /\ requests[q].user = u
  /\ \A k \in revoked : ~Locked(k)
  /\ SetRequest(r, [pc |-> "revoking", user |-> u, keys |-> revoked])
  /\ raced' = IF Generating(u) THEN raced \cup {u} ELSE raced
  /\ UNCHANGED <<users, rows, unissued, owner, cache, budget, broken, removed>>

ChangeCommit(r) ==
  LET q == requests[r] IN
  /\ q.pc = "revoking"
  /\ rows' = [k \in Keys |-> IF k \in q.keys THEN [rows[k] EXCEPT !.active = FALSE]
                                             ELSE rows[k]]
  /\ SetRequest(r, [q EXCEPT !.pc = "revoked"])
  /\ UNCHANGED <<users, unissued, owner, cache, budget, history>>

\* Mutant of ChangeInvalidate: remove, given the hashes of the revoked keys.
ChangeInvalidateByHash(r) ==
  LET q == requests[r] IN
  /\ q.pc = "revoked"
  /\ cache' = {c \in cache : \A k \in q.keys : ~Verifies(Hash(k), c)}
  /\ Finish(r)
  /\ UNCHANGED <<users, rows, unissued, owner, budget, history>>

\* APIKeyAuthProcessor.invalidate_user.
ChangeInvalidate(r) ==
  LET q == requests[r] IN
  /\ q.pc = "revoked"
  /\ cache' = {k \in cache : owner[k] # q.user}
  /\ Finish(r)
  /\ UNCHANGED <<users, rows, unissued, owner, budget, history>>

-----------------------------------------------------------------------------

\* delete_user_by_identifier: the keys and the user go in one transaction; the
\* list is not told.
DeleteUser(u) ==
  /\ u \in users
  /\ \A k \in KeysOf(u) : ~Locked(k)
  /\ ~ \E r \in Requests : requests[r].pc = "revoking" /\ requests[r].user = u
  /\ users' = users \ {u}
  /\ rows' = [k \in Keys |-> IF k \in KeysOf(u) THEN NoRow ELSE rows[k]]
  /\ UNCHANGED <<unissued, owner, cache, requests, budget, history>>

\* A database call raises: a rollback, or an error after the commit took effect.
RequestFail(r) ==
  LET q == requests[r] IN
  /\ q # NoRequest /\ budget.failures > 0
  /\ budget' = [budget EXCEPT !.failures = @ - 1]
  /\ Finish(r)
  /\ broken' = IF q.pc \in {"stored", "revoked"} THEN broken \cup {q.user} ELSE broken
  /\ removed' = IF q.pc = "deleted" THEN removed \cup {q.key} ELSE removed
  /\ UNCHANGED <<users, rows, unissued, owner, cache, raced>>

\* The process stops, open transactions roll back; load takes the active rows.
Restart ==
  /\ budget.restarts > 0
  /\ budget' = [budget EXCEPT !.restarts = @ - 1]
  /\ requests' = [r \in Requests |-> NoRequest]
  /\ cache' = {k \in Keys : Active(k)}
  /\ raced' = {} /\ broken' = {} /\ removed' = {}
  /\ UNCHANGED <<users, rows, unissued, owner>>

Next ==
  \/ \E r \in Requests :
       \/ \E u \in Users, label \in Labels : GenerateCheck(r, u, label)
       \/ \E k \in Keys : GenerateCommit(r, k)
       \/ GenerateCache(r)
       \/ \E u \in Users, label \in Labels : DeleteExecute(r, u, label)
       \/ DeleteCommit(r) \/ DeleteUncache(r)
       \/ \E u \in Users : ChangeRevoke(r, u)
       \/ ChangeCommit(r) \/ ChangeInvalidate(r)
       \/ RequestFail(r)
  \/ \E u \in Users : DeleteUser(u)
  \/ Restart

Spec == Init /\ [][Next]_vars

-----------------------------------------------------------------------------
(* Properties.                                                             *)

\* The middleware lets a request with raw key k in: its first match in the list
\* whose user still exists.
Accepted(k) == \E c \in cache : Verifies(Raw(k), c) /\ owner[c] \in users

(* Types of every variable.                                                *)
TypeOK ==
  /\ users \in SUBSET Users
  /\ rows \in [Keys -> Row \cup {NoRow}]
  /\ unissued \in SUBSET Keys
  /\ owner \in [Keys -> Users]
  /\ cache \in SUBSET Keys
  /\ requests \in [Requests -> RequestStates]
  /\ budget \in [failures : Nat, restarts : Nat]
  /\ raced \in SUBSET Users
  /\ broken \in SUBSET Users
  /\ removed \in SUBSET Keys

\* No key of user u is between the table and the list.
Settled(u) ==
  /\ u \notin raced \cup broken
  /\ \A r \in Requests :
       requests[r].pc \in {"stored", "deleted", "revoked"} => requests[r].user # u

(* A key the server accepts is active in the table: the password change    *)
(* revokes it in both, the restart reloads it.  The exceptions are a key   *)
(* being generated or revoked, a user of whom a generate and a password    *)
(* change overlapped or a request failed after its commit, and a key       *)
(* deleted by its label since the last start.                              *)
AcceptedIsActive ==
  \A k \in Keys : Accepted(k) /\ Settled(owner[k]) => Active(k) \/ k \in removed

(* Every active key is accepted as soon as the request that generated it   *)
(* is done, with the same exceptions but the last.                         *)
ActiveIsAccepted ==
  \A k \in Keys : Active(k) /\ Settled(owner[k]) => Accepted(k)

(* The limit is checked before the insert, in no lock: it can be exceeded, *)
(* but by no more than one key for each further request in flight.         *)
LimitSlack ==
  \A u \in Users : Cardinality(KeysOf(u)) < MaxKeysPerUser + Cardinality(Requests)

(* What delete-api-key documents ("Deletes an API key"): a key whose row   *)
(* a finished request deleted is not accepted any more.                    *)
DeletedIsRefused == \A k \in removed : ~Accepted(k)

=============================================================================
