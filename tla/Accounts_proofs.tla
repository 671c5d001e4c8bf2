--------------------------- MODULE Accounts_proofs ---------------------------
(***************************************************************************)
(* Proofs about login secrets and sessions, for any users, batches and     *)
(* requests, any lifetime and any bounds.                                  *)
(***************************************************************************)
EXTENDS Accounts, TLAPS, FiniteSetTheorems

(* What a request's record holds in each of its states. *)
LEMMA RequestKinds ==
  \A r \in Request :
    /\ r.pc \in {"idle", "verified", "change", "revoked", "lookup", "create", "secret"}
    /\ r.pc = "idle" <=> r = Idle
    /\ r.pc = "verified"
         => r \in [pc : {"verified"}, token : Token, at : 0 .. MaxTime, password : Nat]
    /\ r.pc \in {"change", "revoked"}
         => r \in [pc : {"change", "revoked"}, user : User, rows : SUBSET Secret]
    /\ r.pc \in {"lookup", "create"}
         => r \in [pc : {"lookup", "create"}, todo : Seq(Emails), pending : SUBSET Secret]
    /\ r.pc = "secret"
         => r \in [pc : {"secret"}, todo : Seq(Emails), pending : SUBSET Secret, user : User]
  BY DEF Request, Idle

(* Only the request that takes a step changes its record.                  *)
LEMMA SetRequestFacts ==
  ASSUME TypeOK, NEW q \in Requests, NEW r, SetRequest(q, r)
  PROVE  requests'[q] = r /\ \A p \in Requests \ {q} : requests'[p] = requests[p]
  BY DEF TypeOK, SetRequest

(* Bounds as numbers. *)
LEMMA Numbers ==
  /\ Lifetime \in Nat \ {0} /\ MaxSecrets \in Nat \ {0}
  /\ MaxTime \in Nat /\ MaxTokens \in Nat /\ MaxLives \in Nat
  /\ MaxFaults \in Nat
  BY BoundsAssumption

-----------------------------------------------------------------------------
(* The secrets a batch has flushed and not committed.                      *)
Pending(q) == IF Onboarding(q) THEN requests[q].pending ELSE {}

(* Ids of secrets are given once.                                          *)
IdsGivenOnce ==
  /\ \A s \in secrets : s.n <= serial
  /\ \A q \in Requests : \A s \in Pending(q) :
       /\ s.n <= serial /\ s.active /\ s.user \in users
       /\ \A t \in secrets : t.n # s.n
  /\ \A p, q \in Requests : \A s \in Pending(p), t \in Pending(q) :
       s.n = t.n => p = q /\ s = t

(* The rows a password change has locked stay as they are.                 *)
LocksHold ==
  /\ \A q \in Requests :
       requests[q].pc = "revoked" =>
         /\ requests[q].user \in users
         /\ requests[q].rows \subseteq LoginRows(requests[q].user)
  /\ \A p, q \in Requests :
       requests[p].pc = "revoked" /\ requests[q].pc = "revoked"
         /\ requests[p].user = requests[q].user => p = q

(* A batch that creates a user has a name left, and a validated token was  *)
(* issued.                                                                 *)
RequestsReady ==
  \A q \in Requests :
    /\ requests[q].pc \in {"create", "secret"} => requests[q].todo # <<>>
    /\ requests[q].pc = "verified" => requests[q].token \in tokens

TablesInv == TypeOK /\ IdsGivenOnce /\ LocksHold /\ RequestsReady

LEMMA TablesInit == Init => TablesInv
<1> SUFFICES ASSUME Init PROVE TablesInv OBVIOUS
<1>0. \A q \in Requests : requests[q] = Idle BY DEF Init
<1>1. TypeOK
  <2>1. requests \in [Requests -> Request] BY DEF Init, Request
  <2>2. sessions = <<>> /\ DOMAIN sessions = {} BY DEF Init
  <2>3. Range(sessions) = {} BY <2>2 DEF Range
  <2>4. replaced \in [User -> Seq(0 .. MaxTime)] BY DEF Init
  <2>5. /\ lives \in [Emails -> 0 .. MaxLives]
        /\ closed \in [1 .. MaxSecrets -> 0 .. MaxTime]
        /\ now \in 0 .. MaxTime /\ serial \in 0 .. MaxSecrets
    BY Numbers DEF Init
  <2> QED BY <2>1, <2>2, <2>3, <2>4, <2>5 DEF Init, TypeOK
<1>2. IdsGivenOnce BY <1>0 DEF Init, IdsGivenOnce, Pending, Onboarding, Idle
<1>3. LocksHold BY <1>0 DEF LocksHold, Idle
<1>4. RequestsReady BY <1>0 DEF RequestsReady, Idle
<1> QED BY <1>1, <1>2, <1>3, <1>4 DEF TablesInv

LEMMA RequestTyped ==
  ASSUME TypeOK, NEW q \in Requests, NEW r \in Request, SetRequest(q, r)
  PROVE  requests' \in [Requests -> Request]
  BY DEF TypeOK, SetRequest

(* A step that leaves the tables of users and secrets alone, and flushes   *)
(* nothing, keeps the ids.                                                 *)
LEMMA SameIds ==
  ASSUME IdsGivenOnce, secrets' = secrets, serial' = serial, users' = users,
         \A q \in Requests : Pending(q)' \subseteq Pending(q)
  PROVE  IdsGivenOnce'
  BY DEF IdsGivenOnce

(* Closing secrets keeps their histories times.                            *)
LEMMA ClosedTyped ==
  ASSUME TypeOK, NEW rows, CloseAll(rows)
  PROVE  closed' \in [1 .. MaxSecrets -> 0 .. MaxTime]
  BY DEF TypeOK, CloseAll

(* Time, logins and validations. *)
LEMMA SessionTablesStep ==
  ASSUME TablesInv,
         \/ Tick \/ \E u \in users : Login(u)
         \/ \E q \in Requests, t \in tokens : AuthVerify(q, t)
         \/ \E q \in Requests : AuthCache(q)
  PROVE  TablesInv'
<1> USE DEF TablesInv, tables
<1>1. CASE Tick
  <2>1. now' \in 0 .. MaxTime BY <1>1, Numbers DEF Tick, TypeOK
  <2>2. DOMAIN sessions' \subseteq tokens /\ Range(sessions') \subseteq Session
    BY <1>1 DEF Tick, TypeOK, Range
  <2>3. TypeOK' BY <1>1, <2>1, <2>2 DEF Tick, TypeOK
  <2>4. IdsGivenOnce' BY <1>1, SameIds DEF Tick, Pending, Onboarding
  <2>5. LocksHold' /\ RequestsReady' BY <1>1 DEF Tick, LocksHold, RequestsReady, LoginRows
  <2> QED BY <2>3, <2>4, <2>5
<1>2. ASSUME NEW u \in users, Login(u) PROVE TablesInv'
  <2>1. tokens' \subseteq Token /\ tokens \subseteq tokens'
    BY <1>2 DEF Login, UsableSecret, LoginRows, TypeOK, Token, Secret
  <2>3. TypeOK' BY <1>2, <2>1 DEF Login, TypeOK
  <2>4. IdsGivenOnce' BY <1>2, SameIds DEF Login, Pending, Onboarding
  <2>5. LocksHold' /\ RequestsReady' BY <1>2 DEF Login, LocksHold, RequestsReady, LoginRows
  <2> QED BY <2>3, <2>4, <2>5
<1>3. ASSUME NEW q \in Requests, NEW t \in tokens, AuthVerify(q, t) PROVE TablesInv'
  <2>1. \A p \in Requests \ {q} : requests'[p] = requests[p]
    BY <1>3, SetRequestFacts DEF AuthVerify
  <2>2. requests'[q].pc = "verified" /\ requests'[q].token = t
    BY <1>3, SetRequestFacts DEF AuthVerify
  <2>3. Password(t.user) \in Nat
    BY DEF Password, TypeOK, Token
  <2>4. [pc |-> "verified", token |-> t, at |-> now, password |-> Password(t.user)] \in Request
    BY <2>3 DEF TypeOK, Request
  <2>5. requests' \in [Requests -> Request] BY <1>3, <2>4, RequestTyped DEF AuthVerify
  <2>6. TypeOK' BY <1>3, <2>5 DEF AuthVerify, TypeOK
  <2>7. IdsGivenOnce' BY <1>3, <2>1, <2>2, SameIds DEF AuthVerify, Pending, Onboarding
  <2>8. LocksHold' /\ RequestsReady'
    BY <1>3, <2>1, <2>2 DEF AuthVerify, LocksHold, RequestsReady, LoginRows
  <2> QED BY <2>6, <2>7, <2>8
<1>4. ASSUME NEW q \in Requests, AuthCache(q) PROVE TablesInv'
  <2>1. \A p \in Requests \ {q} : requests'[p] = requests[p]
    BY <1>4, SetRequestFacts DEF AuthCache
  <2>2. requests'[q].pc = "idle"
    BY <1>4, SetRequestFacts DEF AuthCache, Idle
  <2>3. requests' \in [Requests -> Request] BY <1>4, RequestTyped DEF AuthCache, Request
  <2>4. requests[q] \in [pc : {"verified"}, token : Token, at : 0 .. MaxTime, password : Nat]
    BY <1>4, RequestKinds DEF AuthCache, TypeOK
  <2>5. requests[q].token \in tokens
    BY <1>4 DEF AuthCache, RequestsReady
  <2>6. DOMAIN sessions' \subseteq tokens /\ Range(sessions') \subseteq Session
    <3> DEFINE entry == [checked |-> requests[q].at, since |-> now,
                         password |-> requests[q].password]
    <3>1. sessions' = [x \in DOMAIN sessions \cup {requests[q].token} |->
                         IF x = requests[q].token THEN entry ELSE sessions[x]]
      BY <1>4 DEF AuthCache
    <3>2. entry \in Session BY <2>4 DEF Session, TypeOK
    <3> HIDE DEF entry
    <3>3. DOMAIN sessions' = {requests[q].token} \cup DOMAIN sessions BY <3>1
    <3>4. \A x \in DOMAIN sessions' :
            sessions'[x] = IF x = requests[q].token THEN entry ELSE sessions[x]
      BY <3>1, <3>3
    <3> QED BY <2>5, <3>2, <3>3, <3>4 DEF Range, TypeOK
  <2>7. TypeOK' BY <1>4, <2>3, <2>6 DEF AuthCache, TypeOK
  <2>8. IdsGivenOnce' BY <1>4, <2>1, <2>2, SameIds DEF AuthCache, Pending, Onboarding
  <2>9. LocksHold' /\ RequestsReady'
    BY <1>4, <2>1, <2>2 DEF AuthCache, LocksHold, RequestsReady, LoginRows
  <2> QED BY <2>7, <2>8, <2>9
<1> QED BY <1>1, <1>2, <1>3, <1>4

(* Rows that change their flag keep their ids and users.                   *)
LEMMA Flagged ==
  ASSUME TypeOK, NEW rows \in SUBSET secrets, NEW active \in BOOLEAN,
         NEW S, S = (secrets \ rows) \cup {[s EXCEPT !.active = active] : s \in rows}
  PROVE  /\ S \subseteq Secret
         /\ \A s \in S : \E t \in secrets : t.n = s.n /\ t.user = s.user
         /\ \A s \in S : s.user \in users
         /\ \A s, t \in S : s.n = t.n => s = t
<1>1. \A s \in rows : [s EXCEPT !.active = active] \in Secret
                      /\ [s EXCEPT !.active = active].n = s.n
                      /\ [s EXCEPT !.active = active].user = s.user
  <2>1. \A s \in rows : s \in Secret BY DEF TypeOK
  <2> QED BY <2>1 DEF Secret
<1>2. S \subseteq Secret BY <1>1 DEF TypeOK
<1>3. ASSUME NEW s \in S PROVE \E t \in secrets : t.n = s.n /\ t.user = s.user
  BY <1>1
<1>4. ASSUME NEW s \in S PROVE s.user \in users
  BY <1>3 DEF TypeOK
<1>5. ASSUME NEW s \in S, NEW t \in S, s.n = t.n PROVE s = t
  <2>1. CASE s \in secrets \ rows /\ t \in secrets \ rows BY <2>1, <1>5 DEF TypeOK
  <2>2. CASE \E x \in rows : s = [x EXCEPT !.active = active]
    <3>1. PICK x \in rows : s = [x EXCEPT !.active = active] BY <2>2
    <3>2. s.n = x.n BY <1>1, <3>1
    <3>3. t \notin secrets \ rows BY <3>2, <1>5 DEF TypeOK
    <3>4. PICK y \in rows : t = [y EXCEPT !.active = active] BY <3>3
    <3>5. t.n = y.n BY <1>1, <3>4
    <3>6. x = y BY <3>2, <3>5, <1>5 DEF TypeOK
    <3> QED BY <3>1, <3>4, <3>6
  <2>3. CASE s \in secrets \ rows /\ \E y \in rows : t = [y EXCEPT !.active = active]
    <3>1. PICK y \in rows : t = [y EXCEPT !.active = active] BY <2>3
    <3>2. t.n = y.n BY <1>1, <3>1
    <3> QED BY <3>2, <2>3, <1>5 DEF TypeOK
  <2> QED BY <2>1, <2>2, <2>3
<1> QED BY <1>2, <1>3, <1>4, <1>5

(* Password changes and edits of the user's own secrets. *)
LEMMA SecretTablesStep ==
  ASSUME TablesInv,
         \/ \E q \in Requests, u \in User : ChangeStart(q, u)
         \/ \E q \in Requests : ChangeRevoke(q) \/ ChangeCommit(q)
         \/ \E u \in User : DeleteSecret(u)
         \/ \E u \in User, active \in BOOLEAN : CreateSecret(u, active) \/ ToggleSecret(u, active)
  PROVE  TablesInv'
<1> USE DEF TablesInv, tables
<1>1. ASSUME NEW q \in Requests, NEW u \in User, ChangeStart(q, u) PROVE TablesInv'
  <2>1. \A p \in Requests \ {q} : requests'[p] = requests[p]
    BY <1>1, SetRequestFacts DEF ChangeStart
  <2>2. requests'[q].pc = "change"
    BY <1>1, SetRequestFacts DEF ChangeStart
  <2>3. requests' \in [Requests -> Request] BY <1>1, RequestTyped DEF ChangeStart, Request
  <2>4. TypeOK' BY <1>1, <2>3 DEF ChangeStart, TypeOK
  <2>5. IdsGivenOnce' BY <1>1, <2>1, <2>2, SameIds DEF ChangeStart, Pending, Onboarding
  <2>6. LocksHold' /\ RequestsReady'
    BY <1>1, <2>1, <2>2 DEF ChangeStart, LocksHold, RequestsReady, LoginRows
  <2> QED BY <2>4, <2>5, <2>6
<1>2. ASSUME NEW q \in Requests, ChangeRevoke(q) PROVE TablesInv'
  <2> DEFINE u == requests[q].user
             rows == {s \in LoginRows(u) : s.active}
  <2>0. requests[q] \in [pc : {"change", "revoked"}, user : User, rows : SUBSET Secret]
    BY <1>2, RequestKinds DEF ChangeRevoke, TypeOK
  <2>1. \A p \in Requests \ {q} : requests'[p] = requests[p]
    BY <1>2, SetRequestFacts DEF ChangeRevoke
  <2>r. requests'[q] = [requests[q] EXCEPT !.pc = "revoked", !.rows = rows]
    BY <1>2, SetRequestFacts DEF ChangeRevoke
  <2>2. requests'[q].pc = "revoked" /\ requests'[q].user = u /\ requests'[q].rows = rows
    BY <2>0, <2>r
  <2>3. rows \in SUBSET Secret BY DEF TypeOK, LoginRows
  <2>4. [requests[q] EXCEPT !.pc = "revoked", !.rows = rows] \in Request
    BY <2>0, <2>3 DEF Request
  <2>5. requests' \in [Requests -> Request] BY <1>2, <2>4, RequestTyped DEF ChangeRevoke
  <2>6. TypeOK' BY <1>2, <2>5 DEF ChangeRevoke, TypeOK
  <2>7. IdsGivenOnce' BY <1>2, <2>1, <2>2, SameIds DEF ChangeRevoke, Pending, Onboarding
  <2>8. \A p \in Requests : requests[p].pc = "revoked" => requests[p].user # u
    BY <1>2 DEF ChangeRevoke, Free, HeldUsers
  <2>9. LocksHold'
    <3>1. secrets' = secrets /\ users' = users /\ u \in users BY <1>2 DEF ChangeRevoke
    <3>2. \A s \in rows : s \in secrets' /\ s.user = requests'[q].user
      BY <2>2, <3>1 DEF LoginRows
    <3>3. \A p \in Requests \ {q} : requests'[p].pc = "revoked" => requests'[p].user # u
      BY <2>1, <2>8
    <3> HIDE DEF u, rows
    <3>4. ASSUME NEW p \in Requests, requests'[p].pc = "revoked"
          PROVE  /\ requests'[p].user \in users'
                 /\ \A s \in requests'[p].rows : s \in secrets' /\ s.user = requests'[p].user
      BY <2>1, <2>2, <3>1, <3>2, <3>4 DEF LocksHold, LoginRows
    <3>5. ASSUME NEW p \in Requests, NEW r \in Requests, requests'[p].pc = "revoked",
                 requests'[r].pc = "revoked", requests'[p].user = requests'[r].user
          PROVE  p = r
      BY <2>1, <2>2, <3>3, <3>5 DEF LocksHold
    <3> QED BY <3>4, <3>5 DEF LocksHold, LoginRows
  <2>10. RequestsReady'
    BY <1>2, <2>1, <2>2 DEF ChangeRevoke, RequestsReady
  <2> QED BY <2>6, <2>7, <2>9, <2>10
<1>3. ASSUME NEW q \in Requests, ChangeCommit(q) PROVE TablesInv'
  <2> DEFINE u == requests[q].user
             rows == requests[q].rows
             new == [user |-> u, n |-> serial + 1, active |-> TRUE]
             kept == (secrets \ rows) \cup Inactive(rows)
  <2>0. requests[q] \in [pc : {"change", "revoked"}, user : User, rows : SUBSET Secret]
    BY <1>3, RequestKinds DEF ChangeCommit, TypeOK
  <2>1. \A p \in Requests \ {q} : requests'[p] = requests[p]
    BY <1>3, SetRequestFacts DEF ChangeCommit
  <2>2. requests'[q].pc = "idle"
    BY <1>3, SetRequestFacts DEF ChangeCommit, Idle
  <2>3. requests' \in [Requests -> Request] BY <1>3, RequestTyped DEF ChangeCommit, Request
  <2>4. u \in users /\ rows \subseteq LoginRows(u) BY <1>3 DEF ChangeCommit, LocksHold
  <2>5. /\ kept \subseteq Secret
        /\ \A s \in kept : \E t \in secrets : t.n = s.n /\ t.user = s.user
        /\ \A s \in kept : s.user \in users
        /\ \A s, t \in kept : s.n = t.n => s = t
    <3>1. rows \in SUBSET secrets BY <2>4 DEF LoginRows
    <3> HIDE DEF rows
    <3> QED BY <3>1, Flagged DEF Inactive
  <2>6. secrets' = kept \cup {new} /\ users' = users /\ serial' = serial + 1
    BY <1>3 DEF ChangeCommit
  <2>7. new \in Secret /\ new.n = serial + 1 /\ new.user = u /\ serial' \in 0 .. MaxSecrets
    BY <1>3, <2>0, <2>6, Numbers DEF ChangeCommit, Secret, TypeOK
  <2>8. replaced' \in [User -> Seq(0 .. MaxTime)]
    <3>1. replaced' = [replaced EXCEPT ![u] = Append(@, now)] BY <1>3 DEF ChangeCommit
    <3>2. Append(replaced[u], now) \in Seq(0 .. MaxTime) BY <2>0 DEF TypeOK
    <3> QED BY <3>1, <3>2 DEF TypeOK
  <2>9. closed' \in [1 .. MaxSecrets -> 0 .. MaxTime] BY <1>3, ClosedTyped DEF ChangeCommit
  <2>10. serial \in Nat /\ \A s \in kept : s.n \in Nat /\ s.n <= serial
    BY <2>5 DEF IdsGivenOnce, TypeOK, Secret
  <2> HIDE DEF kept, new
  <2>11. /\ secrets' \subseteq Secret /\ \A s \in secrets' : s.user \in users
         /\ \A s, t \in secrets' : s.n = t.n => s = t
    BY <2>4, <2>5, <2>6, <2>7, <2>10
  <2>12. TypeOK'
    BY <1>3, <2>0, <2>3, <2>6, <2>7, <2>8, <2>9, <2>11 DEF ChangeCommit, TypeOK
  <2>13. IdsGivenOnce'
    <3>1. \A p \in Requests : Pending(p)' \subseteq Pending(p)
      BY <2>1, <2>2 DEF Pending, Onboarding
    <3>2. \A s \in secrets' : s.n <= serial' BY <2>6, <2>7, <2>10
    <3>3. ASSUME NEW p \in Requests, NEW s \in Pending(p)
          PROVE  /\ s.n <= serial' /\ s.active /\ s.user \in users'
                 /\ \A t \in secrets' : t.n # s.n
      <4>1. /\ s.n <= serial /\ s.active /\ s.user \in users /\ \A t \in secrets : t.n # s.n
        BY DEF IdsGivenOnce
      <4>2. s \in Secret BY RequestKinds DEF Pending, Onboarding, TypeOK
      <4> QED BY <2>5, <2>6, <2>7, <2>10, <4>1, <4>2 DEF Secret
    <3> QED BY <3>1, <3>2, <3>3 DEF IdsGivenOnce
  <2>14. LocksHold'
    <3>1. ASSUME NEW p \in Requests, requests'[p].pc = "revoked"
          PROVE  /\ requests'[p] = requests[p] /\ requests[p].user \in users
                 /\ requests[p].rows \subseteq LoginRows(requests[p].user)'
      <4>1. p # q /\ requests'[p] = requests[p] /\ requests[p].pc = "revoked" BY <2>1, <2>2, <3>1
      <4>2. requests[p].user # u BY <1>3, <4>1 DEF ChangeCommit, LocksHold
      <4> QED BY <2>1, <2>4, <2>6, <4>1, <4>2 DEF LocksHold, LoginRows, kept
    <3> QED BY <2>6, <3>1 DEF LocksHold
  <2>15. RequestsReady' BY <1>3, <2>1, <2>2 DEF ChangeCommit, RequestsReady
  <2> QED BY <2>12, <2>13, <2>14, <2>15
<1>4. ASSUME NEW u \in User, NEW active \in BOOLEAN, CreateSecret(u, active) PROVE TablesInv'
  <2> DEFINE new == [user |-> u, n |-> serial + 1, active |-> active]
  <2>1. secrets' = secrets \cup {new} /\ users' = users /\ serial' = serial + 1
    BY <1>4 DEF CreateSecret
  <2>2. new \in Secret /\ new.n = serial + 1 /\ new.user \in users /\ serial' \in 0 .. MaxSecrets
    BY <1>4, Numbers DEF CreateSecret, Secret, TypeOK
  <2>3. serial \in Nat /\ \A s \in secrets : s.n \in Nat /\ s.n <= serial
    BY DEF IdsGivenOnce, TypeOK, Secret
  <2> HIDE DEF new
  <2>4. /\ secrets' \subseteq Secret /\ \A s \in secrets' : s.user \in users
        /\ \A s, t \in secrets' : s.n = t.n => s = t
    BY <2>1, <2>2, <2>3 DEF TypeOK
  <2>5. TypeOK' BY <1>4, <2>1, <2>2, <2>4 DEF CreateSecret, TypeOK
  <2>6. IdsGivenOnce'
    <3>1. \A p \in Requests : Pending(p)' = Pending(p)
      BY <1>4 DEF CreateSecret, Pending, Onboarding
    <3>2. \A s \in secrets' : s.n <= serial' BY <2>1, <2>2, <2>3
    <3>3. ASSUME NEW p \in Requests, NEW s \in Pending(p)
          PROVE  /\ s.n <= serial' /\ s.active /\ s.user \in users'
                 /\ \A t \in secrets' : t.n # s.n
      <4>1. /\ s.n <= serial /\ s.active /\ s.user \in users /\ \A t \in secrets : t.n # s.n
        BY DEF IdsGivenOnce
      <4>2. s \in Secret BY RequestKinds DEF Pending, Onboarding, TypeOK
      <4> QED BY <2>1, <2>2, <2>3, <4>1, <4>2 DEF Secret
    <3> QED BY <3>1, <3>2, <3>3 DEF IdsGivenOnce
  <2>7. LocksHold' /\ RequestsReady'
    BY <1>4, <2>1 DEF CreateSecret, LocksHold, RequestsReady, LoginRows
  <2> QED BY <2>5, <2>6, <2>7
<1>5. ASSUME NEW u \in User, DeleteSecret(u) PROVE TablesInv'
  <2>1. secrets' = secrets \ LoginRows(u) /\ users' = users /\ requests' = requests
        /\ serial' = serial
    BY <1>5 DEF DeleteSecret
  <2>2. closed' \in [1 .. MaxSecrets -> 0 .. MaxTime] BY <1>5, ClosedTyped DEF DeleteSecret
  <2>3. TypeOK' BY <1>5, <2>1, <2>2 DEF DeleteSecret, TypeOK
  <2>4. IdsGivenOnce' BY <2>1 DEF IdsGivenOnce, Pending, Onboarding
  <2>5. \A p \in Requests : requests[p].pc = "revoked" => requests[p].rows \cap LoginRows(u) = {}
    BY <1>5 DEF DeleteSecret, HeldRows
  <2>6. LocksHold'
    BY <2>1, <2>5 DEF LocksHold, LoginRows
  <2>7. RequestsReady' BY <1>5 DEF DeleteSecret, RequestsReady
  <2> QED BY <2>3, <2>4, <2>6, <2>7
<1>6. ASSUME NEW u \in User, NEW active \in BOOLEAN, ToggleSecret(u, active) PROVE TablesInv'
  <2> DEFINE rows == {s \in LoginRows(u) : s.active # active}
             toggled == {[s EXCEPT !.active = active] : s \in rows}
  <2>1. /\ secrets' = (secrets \ rows) \cup toggled /\ users' = users /\ requests' = requests
        /\ serial' = serial
    BY <1>6 DEF ToggleSecret
  <2>2. closed' \in [1 .. MaxSecrets -> 0 .. MaxTime]
    BY <1>6, ClosedTyped DEF ToggleSecret, TypeOK
  <2>3. /\ secrets' \subseteq Secret
        /\ \A s \in secrets' : \E t \in secrets : t.n = s.n /\ t.user = s.user
        /\ \A s \in secrets' : s.user \in users
        /\ \A s, t \in secrets' : s.n = t.n => s = t
    <3> DEFINE flagged == (secrets \ rows) \cup toggled
    <3>1. rows \in SUBSET secrets BY DEF LoginRows
    <3>2. secrets' = flagged BY <2>1
    <3> HIDE DEF rows
    <3>3. /\ flagged \subseteq Secret
          /\ \A s \in flagged : \E t \in secrets : t.n = s.n /\ t.user = s.user
          /\ \A s \in flagged : s.user \in users
          /\ \A s, t \in flagged : s.n = t.n => s = t
      BY <3>1, Flagged
    <3> QED BY <3>2, <3>3
  <2>4. TypeOK' BY <1>6, <2>1, <2>2, <2>3 DEF ToggleSecret, TypeOK
  <2>5. IdsGivenOnce'
    <3>1. \A p \in Requests : Pending(p)' = Pending(p) BY <2>1 DEF Pending, Onboarding
    <3> HIDE DEF toggled, rows
    <3> QED BY <2>1, <2>3, <3>1 DEF IdsGivenOnce
  <2>6. \A p \in Requests : requests[p].pc = "revoked" => requests[p].rows \cap rows = {}
    BY <1>6 DEF ToggleSecret, HeldRows
  <2>7. LocksHold'
    <3> HIDE DEF toggled, rows
    <3> QED BY <2>1, <2>6 DEF LocksHold, LoginRows
  <2>8. RequestsReady' BY <1>6 DEF ToggleSecret, RequestsReady
  <2> QED BY <2>4, <2>5, <2>7, <2>8
<1> QED BY <1>1, <1>2, <1>3, <1>4, <1>5, <1>6

(* Administrators, failures and restarts. *)
LEMMA AdminTablesStep ==
  ASSUME TablesInv,
         \/ \E u \in users : DeleteUser(u)
         \/ \E q \in Requests, batch \in Batches : OnboardStart(q, batch)
         \/ \E q \in Requests : \/ OnboardLookup(q) \/ OnboardCreate(q) \/ OnboardSecret(q)
                                \/ OnboardEnd(q) \/ RequestFail(q)
         \/ Restart
  PROVE  TablesInv'
<1> USE DEF TablesInv, tables
<1>p. \A q \in Requests : \A s \in Pending(q) : s \in Secret
  BY RequestKinds DEF Pending, Onboarding, TypeOK
<1>1. ASSUME NEW u \in users, DeleteUser(u) PROVE TablesInv'
  <2>1. /\ secrets' = secrets \ LoginRows(u) /\ users' = users \ {u} /\ requests' = requests
        /\ serial' = serial
    BY <1>1 DEF DeleteUser
  <2>2. closed' \in [1 .. MaxSecrets -> 0 .. MaxTime] BY <1>1, ClosedTyped DEF DeleteUser
  <2>3. TypeOK' BY <1>1, <2>1, <2>2 DEF DeleteUser, TypeOK, LoginRows
  <2>4. \A q \in Requests : \A s \in Pending(q) : s.user # u
    BY <1>1 DEF DeleteUser, Pending
  <2>5. \A q \in Requests : Pending(q)' = Pending(q) BY <2>1 DEF Pending, Onboarding
  <2>6. IdsGivenOnce' BY <2>1, <2>4, <2>5 DEF IdsGivenOnce
  <2>7. \A q \in Requests : requests[q].pc = "revoked" => requests[q].user # u
    BY <1>1 DEF DeleteUser, HeldUsers
  <2>8. LocksHold' BY <2>1, <2>7 DEF LocksHold, LoginRows
  <2>9. RequestsReady' BY <1>1 DEF DeleteUser, RequestsReady
  <2> QED BY <2>3, <2>6, <2>8, <2>9
<1>2. ASSUME NEW q \in Requests, NEW batch \in Batches, OnboardStart(q, batch) PROVE TablesInv'
  <2>1. \A p \in Requests \ {q} : requests'[p] = requests[p]
    BY <1>2, SetRequestFacts DEF OnboardStart
  <2>2. requests'[q].pc = "lookup" /\ requests'[q].pending = {}
    BY <1>2, SetRequestFacts DEF OnboardStart
  <2>3. [pc |-> "lookup", todo |-> batch, pending |-> {}] \in Request
    BY BoundsAssumption DEF Request
  <2>4. requests' \in [Requests -> Request] BY <1>2, <2>3, RequestTyped DEF OnboardStart
  <2>5. TypeOK' BY <1>2, <2>4 DEF OnboardStart, TypeOK
  <2>6. IdsGivenOnce' BY <1>2, <2>1, <2>2, SameIds DEF OnboardStart, Pending, Onboarding
  <2>7. LocksHold' /\ RequestsReady'
    BY <1>2, <2>1, <2>2 DEF OnboardStart, LocksHold, RequestsReady, LoginRows
  <2> QED BY <2>5, <2>6, <2>7
<1>3. ASSUME NEW q \in Requests, OnboardLookup(q) PROVE TablesInv'
  <2>0. requests[q] \in [pc : {"lookup", "create"}, todo : Seq(Emails), pending : SUBSET Secret]
    BY <1>3, RequestKinds DEF OnboardLookup, TypeOK
  <2>1. \A p \in Requests \ {q} : requests'[p] = requests[p]
    BY <1>3, SetRequestFacts DEF OnboardLookup
  <2>r. requests'[q] = IF Registered(Head(requests[q].todo))
                         THEN [requests[q] EXCEPT !.todo = Tail(@)]
                         ELSE [requests[q] EXCEPT !.pc = "create"]
    BY <1>3, SetRequestFacts DEF OnboardLookup
  <2>2. /\ requests'[q].pc \in {"lookup", "create"} /\ requests'[q].pending = requests[q].pending
        /\ requests'[q].pc = "create" => requests'[q].todo # <<>>
    BY <1>3, <2>0, <2>r DEF OnboardLookup
  <2>3. requests'[q] \in Request
    <3>1. requests[q].todo \in Seq(Emails) /\ requests[q].todo # <<>>
      BY <1>3, <2>0 DEF OnboardLookup
    <3>2. Tail(requests[q].todo) \in Seq(Emails) BY <3>1
    <3> QED BY <2>0, <2>r, <3>2 DEF Request
  <2>4. requests' \in [Requests -> Request]
    BY <1>3, <2>r, <2>3, RequestTyped DEF OnboardLookup, SetRequest, TypeOK
  <2>5. TypeOK' BY <1>3, <2>4 DEF OnboardLookup, TypeOK
  <2>6. IdsGivenOnce' BY <1>3, <2>1, <2>2, SameIds DEF OnboardLookup, Pending, Onboarding
  <2>7. LocksHold' /\ RequestsReady'
    BY <1>3, <2>1, <2>2 DEF OnboardLookup, LocksHold, RequestsReady, LoginRows
  <2> QED BY <2>5, <2>6, <2>7
<1>4. ASSUME NEW q \in Requests, OnboardCreate(q) PROVE TablesInv'
  <2> DEFINE e == Head(requests[q].todo)
             u == [email |-> e, life |-> lives[e] + 1]
  <2>0. requests[q] \in [pc : {"lookup", "create"}, todo : Seq(Emails), pending : SUBSET Secret]
    BY <1>4, RequestKinds DEF OnboardCreate, TypeOK
  <2>1. \A p \in Requests \ {q} : requests'[p] = requests[p]
    BY <1>4, SetRequestFacts DEF OnboardCreate
  <2>r. requests'[q] = [pc |-> "secret", todo |-> requests[q].todo, pending |-> {}, user |-> u]
    BY <1>4, SetRequestFacts DEF OnboardCreate
  <2>e. requests[q].todo # <<>> /\ e \in Emails
    BY <1>4, <2>0 DEF OnboardCreate, RequestsReady
  <2>u. u \in User /\ u.email = e
    BY <1>4, <2>e, Numbers DEF OnboardCreate, User, TypeOK
  <2>3. requests' \in [Requests -> Request]
    <3>1. requests'[q] \in Request BY <2>0, <2>r, <2>u DEF Request
    <3> QED BY <1>4, <2>r, <3>1, RequestTyped DEF OnboardCreate
  <2> HIDE DEF u
  <2>4. /\ secrets' = secrets \cup Pending(q) /\ users' = users \cup {u} /\ serial' = serial
    BY <1>4 DEF OnboardCreate, Pending, Onboarding, u
  <2>5. lives' \in [Emails -> 0 .. MaxLives]
    BY <1>4, <2>e, Numbers DEF OnboardCreate, TypeOK
  <2>6. \A v \in users : v.email # e BY <1>4 DEF OnboardCreate, Registered
  <2>7. \A s \in Pending(q) : s \in Secret /\ s.user \in users /\ \A t \in secrets : t.n # s.n
    BY <1>p DEF IdsGivenOnce
  <2>8. \A s, t \in Pending(q) : s.n = t.n => s = t BY DEF IdsGivenOnce
  <2>9. TypeOK'
    <3>1. users' \subseteq User /\ \A v, w \in users' : v.email = w.email => v = w
      BY <2>4, <2>6, <2>u DEF TypeOK
    <3>2. /\ secrets' \subseteq Secret /\ \A s \in secrets' : s.user \in users'
          /\ \A s, t \in secrets' : s.n = t.n => s = t
      BY <2>4, <2>7, <2>8 DEF TypeOK
    <3> QED BY <1>4, <2>3, <2>4, <2>5, <3>1, <3>2 DEF OnboardCreate, TypeOK
  <2>10. IdsGivenOnce'
    <3>1. Pending(q)' = {} BY <2>r DEF Pending, Onboarding
    <3>2. \A p \in Requests \ {q} : Pending(p)' = Pending(p) BY <2>1 DEF Pending, Onboarding
    <3> QED BY <2>4, <3>1, <3>2 DEF IdsGivenOnce
  <2>11. LocksHold'
    BY <2>1, <2>4, <2>r DEF LocksHold, LoginRows
  <2>12. RequestsReady'
    BY <1>4, <2>1, <2>r, <2>e DEF OnboardCreate, RequestsReady
  <2> QED BY <2>9, <2>10, <2>11, <2>12
<1>5. ASSUME NEW q \in Requests, OnboardSecret(q) PROVE TablesInv'
  <2> DEFINE new == [user |-> requests[q].user, n |-> serial + 1, active |-> TRUE]
  <2>0. requests[q] \in [pc : {"secret"}, todo : Seq(Emails), pending : SUBSET Secret, user : User]
    BY <1>5, RequestKinds DEF OnboardSecret, TypeOK
  <2>1. \A p \in Requests \ {q} : requests'[p] = requests[p]
    BY <1>5, SetRequestFacts DEF OnboardSecret
  <2>r. requests'[q] = [pc |-> "lookup", todo |-> Tail(requests[q].todo), pending |-> {new}]
    BY <1>5, SetRequestFacts DEF OnboardSecret
  <2>2. new \in Secret /\ new.n = serial + 1 /\ new.user \in users /\ new.active
        /\ serial' = serial + 1 /\ serial' \in 0 .. MaxSecrets /\ secrets' = secrets /\ users' = users
    BY <1>5, <2>0, Numbers DEF OnboardSecret, Secret, TypeOK
  <2>3. requests' \in [Requests -> Request]
    <3>1. requests[q].todo # <<>> BY <1>5 DEF OnboardSecret, RequestsReady
    <3>2. Tail(requests[q].todo) \in Seq(Emails) BY <2>0, <3>1
    <3>3. requests'[q] \in Request BY <2>r, <2>2, <3>2 DEF Request
    <3> QED BY <1>5, <2>r, <3>3, RequestTyped DEF OnboardSecret
  <2> HIDE DEF new
  <2>4. TypeOK' BY <1>5, <2>2, <2>3 DEF OnboardSecret, TypeOK
  <2>5. IdsGivenOnce'
    <3>1. Pending(q)' = {new} BY <2>r DEF Pending, Onboarding
    <3>2. \A p \in Requests \ {q} : Pending(p)' = Pending(p) BY <2>1 DEF Pending, Onboarding
    <3>3. serial \in Nat /\ \A s \in secrets : s.n \in Nat /\ s.n <= serial
      BY DEF IdsGivenOnce, TypeOK, Secret
    <3>4. \A p \in Requests : \A s \in Pending(p) : s.n \in Nat /\ s.n <= serial
      BY <1>p DEF IdsGivenOnce, Secret
    <3>5. \A s \in secrets : s.n <= serial' /\ s.n # new.n BY <2>2, <3>3
    <3>6. \A p \in Requests : \A s \in Pending(p) : s.n <= serial' /\ s.n # new.n BY <2>2, <3>3, <3>4
    <3>7. new.n <= serial' BY <2>2, <3>3
    <3> QED BY <2>2, <3>1, <3>2, <3>5, <3>6, <3>7 DEF IdsGivenOnce
  <2>6. LocksHold' BY <2>1, <2>2, <2>r DEF LocksHold, LoginRows
  <2>7. RequestsReady' BY <1>5, <2>1, <2>r DEF OnboardSecret, RequestsReady
  <2> QED BY <2>4, <2>5, <2>6, <2>7
<1>6. ASSUME NEW q \in Requests, OnboardEnd(q) PROVE TablesInv'
  <2>1. \A p \in Requests \ {q} : requests'[p] = requests[p]
    BY <1>6, SetRequestFacts DEF OnboardEnd
  <2>2. requests'[q].pc = "idle" BY <1>6, SetRequestFacts DEF OnboardEnd, Idle
  <2>3. requests' \in [Requests -> Request] BY <1>6, RequestTyped DEF OnboardEnd, Request
  <2>4. /\ secrets' = secrets \cup Pending(q) /\ users' = users /\ serial' = serial
    BY <1>6 DEF OnboardEnd, Pending, Onboarding
  <2>5. \A s \in Pending(q) : s \in Secret /\ s.user \in users /\ \A t \in secrets : t.n # s.n
    BY <1>p DEF IdsGivenOnce
  <2>6. \A s, t \in Pending(q) : s.n = t.n => s = t BY DEF IdsGivenOnce
  <2>7. TypeOK'
    <3>1. /\ secrets' \subseteq Secret /\ \A s \in secrets' : s.user \in users'
          /\ \A s, t \in secrets' : s.n = t.n => s = t
      BY <2>4, <2>5, <2>6 DEF TypeOK
    <3> QED BY <1>6, <2>3, <2>4, <3>1 DEF OnboardEnd, TypeOK
  <2>8. IdsGivenOnce'
    <3>1. Pending(q)' = {} BY <2>2 DEF Pending, Onboarding
    <3>2. \A p \in Requests \ {q} : Pending(p)' = Pending(p) BY <2>1 DEF Pending, Onboarding
    <3> QED BY <2>4, <3>1, <3>2 DEF IdsGivenOnce
  <2>9. LocksHold' /\ RequestsReady'
    BY <1>6, <2>1, <2>2, <2>4 DEF OnboardEnd, LocksHold, LoginRows, RequestsReady
  <2> QED BY <2>7, <2>8, <2>9
<1>7. ASSUME NEW q \in Requests, RequestFail(q) PROVE TablesInv'
  <2>1. \A p \in Requests \ {q} : requests'[p] = requests[p]
    BY <1>7, SetRequestFacts DEF RequestFail
  <2>2. requests'[q].pc = "idle" BY <1>7, SetRequestFacts DEF RequestFail, Idle
  <2>3. requests' \in [Requests -> Request] BY <1>7, RequestTyped DEF RequestFail, Request
  <2>4. lost' \in SUBSET User
    <3>1. Unsaved(q) \subseteq User
      BY RequestKinds DEF Unsaved, Onboarding, TypeOK, Secret
    <3> QED BY <1>7, <3>1 DEF RequestFail, TypeOK
  <2>5. TypeOK' BY <1>7, <2>3, <2>4 DEF RequestFail, TypeOK
  <2>6. IdsGivenOnce' BY <1>7, <2>1, <2>2, SameIds DEF RequestFail, Pending, Onboarding
  <2>7. LocksHold' /\ RequestsReady'
    BY <1>7, <2>1, <2>2 DEF RequestFail, LocksHold, LoginRows, RequestsReady
  <2> QED BY <2>5, <2>6, <2>7
<1>8. CASE Restart
  <2>1. \A q \in Requests : requests'[q].pc = "idle" BY <1>8 DEF Restart, Idle
  <2>2. requests' \in [Requests -> Request] BY <1>8 DEF Restart, Request
  <2>3. lost' \in SUBSET User
    <3>1. \A q \in Requests : Unsaved(q) \subseteq User
      BY RequestKinds DEF Unsaved, Onboarding, TypeOK, Secret
    <3> QED BY <1>8, <3>1 DEF Restart, TypeOK
  <2>4. DOMAIN sessions' \subseteq tokens /\ Range(sessions') \subseteq Session
    <3>1. sessions' = <<>> /\ DOMAIN sessions' = {} BY <1>8 DEF Restart
    <3> QED BY <3>1 DEF Range
  <2>5. TypeOK' BY <1>8, <2>2, <2>3, <2>4 DEF Restart, TypeOK
  <2>6. IdsGivenOnce' BY <1>8, <2>1, SameIds DEF Restart, Pending, Onboarding
  <2>7. LocksHold' /\ RequestsReady'
    BY <1>8, <2>1 DEF Restart, LocksHold, LoginRows, RequestsReady
  <2> QED BY <2>5, <2>6, <2>7
<1> QED BY <1>1, <1>2, <1>3, <1>4, <1>5, <1>6, <1>7, <1>8

LEMMA TablesStep == ASSUME TablesInv, [Next]_vars PROVE TablesInv'
<1>1. CASE UNCHANGED vars
  BY <1>1 DEF vars, tables, TablesInv, TypeOK, IdsGivenOnce, LocksHold, RequestsReady, Pending,
     Onboarding, LoginRows
<1>2. CASE Next
  BY <1>2, SessionTablesStep, SecretTablesStep, AdminTablesStep DEF Next
<1> QED BY <1>1, <1>2

(* Types, and the constraints of the tables, hold through overlapping      *)
(* batches, password changes, edits of secrets and restarts.               *)
THEOREM TypeCorrect == Spec => []TypeOK
<1>1. TablesInv => TypeOK BY DEF TablesInv
<1> QED BY <1>1, TablesInit, TablesStep, PTL DEF Spec

-----------------------------------------------------------------------------
(* Token t, last validated at time at: its secret is still good, or was    *)
(* closed no earlier.                                                      *)
Backed(t, at) == (\E s \in secrets : s.n = t.n /\ s.active) \/ at <= closed[t.n]

(* The password read then is the user's, or was replaced no earlier.       *)
Known(t, at, password) ==
  /\ password <= Password(t.user)
  /\ password < Password(t.user) => at <= replaced[t.user][password + 1]

SessionOK(t) ==
  LET s == sessions[t] IN
  /\ s.checked <= s.since /\ s.since <= now /\ now < s.since + Lifetime
  /\ s.checked < t.iat + Lifetime
  /\ Backed(t, s.checked) /\ Known(t, s.checked, s.password)

VerifiedOK(q) ==
  LET r == requests[q] IN
  r.pc = "verified" =>
    /\ r.at <= now /\ r.at < r.token.iat + Lifetime
    /\ Backed(r.token, r.at) /\ Known(r.token, r.at, r.password)

SessionsOK == \A t \in DOMAIN sessions : SessionOK(t)
ValidationsOK == \A q \in Requests : VerifiedOK(q)

HistoryOK ==
  /\ \A n \in 1 .. MaxSecrets : closed[n] <= now
  /\ \A u \in User : \A i \in 1 .. Len(replaced[u]) : replaced[u][i] <= now

SessionInv == TablesInv /\ SessionsOK /\ ValidationsOK /\ HistoryOK

LEMMA SessionInit == Init => SessionInv
<1> SUFFICES ASSUME Init PROVE SessionInv OBVIOUS
<1>1. TablesInv BY TablesInit
<1>2. SessionsOK BY DEF Init, SessionsOK
<1>3. ValidationsOK BY DEF Init, ValidationsOK, VerifiedOK, Idle
<1>4. HistoryOK BY Numbers DEF Init, HistoryOK
<1> QED BY <1>1, <1>2, <1>3, <1>4 DEF SessionInv

(* Closing the rows that lose their flag or their place backs every token. *)
LEMMA ClosingBacks ==
  ASSUME SessionInv, NEW rows, CloseAll(rows), now' = now,
         \A s \in secrets : s.active =>
           s \in rows \/ \E x \in secrets' : x.n = s.n /\ x.active,
         NEW t \in Token, NEW at \in 0 .. MaxTime, at <= now, Backed(t, at)
  PROVE  Backed(t, at)'
<1>1. t.n \in 1 .. MaxSecrets BY DEF Token
<1>2. closed'[t.n] = IF \E s \in rows : s.n = t.n THEN now ELSE closed[t.n]
  BY <1>1 DEF CloseAll, SessionInv, TablesInv, TypeOK
<1>3. CASE \E s \in rows : s.n = t.n BY <1>2, <1>3 DEF Backed
<1>4. CASE ~ \E s \in rows : s.n = t.n BY <1>2, <1>4 DEF Backed
<1> QED BY <1>3, <1>4

LEMMA BackedKept ==
  ASSUME SessionInv, [Next]_vars,
         NEW t \in Token, NEW at \in 0 .. MaxTime, at <= now, Backed(t, at)
  PROVE  Backed(t, at)'
<1> USE DEF tables
<1>1. ASSUME secrets \subseteq secrets', closed' = closed PROVE Backed(t, at)'
  BY <1>1 DEF Backed
<1>2. ASSUME NEW q \in Requests, ChangeCommit(q) PROVE Backed(t, at)'
  <2>1. /\ CloseAll(requests[q].rows) /\ now' = now
        /\ \A s \in secrets : s \in requests[q].rows \/ s \in secrets'
    BY <1>2 DEF ChangeCommit
  <2> QED BY <2>1, ClosingBacks
<1>3. ASSUME NEW u \in User, DeleteSecret(u) PROVE Backed(t, at)'
  <2>1. /\ CloseAll(LoginRows(u)) /\ now' = now
        /\ \A s \in secrets : s \in LoginRows(u) \/ s \in secrets'
    BY <1>3 DEF DeleteSecret
  <2> QED BY <2>1, ClosingBacks
<1>4. ASSUME NEW u \in users, DeleteUser(u) PROVE Backed(t, at)'
  <2>1. /\ CloseAll(LoginRows(u)) /\ now' = now
        /\ \A s \in secrets : s \in LoginRows(u) \/ s \in secrets'
    BY <1>4 DEF DeleteUser
  <2> QED BY <2>1, ClosingBacks
<1>5. ASSUME NEW u \in User, NEW active \in BOOLEAN, ToggleSecret(u, active) PROVE Backed(t, at)'
  <2> DEFINE rows == {s \in LoginRows(u) : s.active # active}
  <2>1. /\ secrets' = (secrets \ rows) \cup {[s EXCEPT !.active = active] : s \in rows}
        /\ now' = now
    BY <1>5 DEF ToggleSecret
  <2>2. \A s \in secrets : s \in rows \/ s \in secrets' BY <2>1
  <2>3. CASE active
    <3>1. closed' = closed BY <1>5, <2>3 DEF ToggleSecret
    <3>2. \A s \in rows : ~s.active BY <2>3 DEF LoginRows, SessionInv, TablesInv, TypeOK, Secret
    <3> HIDE DEF rows
    <3> QED BY <2>2, <3>1, <3>2 DEF Backed
  <2>4. CASE ~active
    <3>1. CloseAll(rows) BY <1>5, <2>4 DEF ToggleSecret
    <3> HIDE DEF rows
    <3> QED BY <2>1, <2>2, <3>1, ClosingBacks
  <2> QED BY <2>3, <2>4
<1>6. CASE UNCHANGED vars BY <1>1, <1>6 DEF vars
<1>7. ASSUME NEW q \in Requests, OnboardCreate(q) \/ OnboardEnd(q) PROVE Backed(t, at)'
  BY <1>1, <1>7 DEF OnboardCreate, OnboardEnd
<1>8. ASSUME NEW u \in User, NEW active \in BOOLEAN, CreateSecret(u, active) PROVE Backed(t, at)'
  BY <1>1, <1>8 DEF CreateSecret
<1>9. CASE Tick \/ Restart \/ \E u \in users : Login(u) BY <1>1, <1>9 DEF Tick, Restart, Login
<1>10. ASSUME NEW q \in Requests,
              \/ \E x \in tokens : AuthVerify(q, x)
              \/ \E u \in User : ChangeStart(q, u)
              \/ \E batch \in Batches : OnboardStart(q, batch)
              \/ AuthCache(q) \/ ChangeRevoke(q) \/ OnboardLookup(q) \/ OnboardSecret(q)
              \/ RequestFail(q)
       PROVE  Backed(t, at)'
  BY <1>1, <1>10 DEF AuthVerify, ChangeStart, OnboardStart, AuthCache, ChangeRevoke,
     OnboardLookup, OnboardSecret, RequestFail
<1> QED BY <1>2, <1>3, <1>4, <1>5, <1>6, <1>7, <1>8, <1>9, <1>10 DEF Next

LEMMA KnownKept ==
  ASSUME SessionInv, [Next]_vars, NEW t \in Token, NEW at \in 0 .. MaxTime, at <= now,
         NEW password \in Nat, Known(t, at, password)
  PROVE  Known(t, at, password)'
<1> USE DEF tables
<1>0. t.user \in User /\ replaced[t.user] \in Seq(0 .. MaxTime)
  BY DEF Token, SessionInv, TablesInv, TypeOK
<1>1. CASE replaced' = replaced BY <1>1 DEF Known, Password
<1>2. ASSUME NEW q \in Requests, ChangeCommit(q) PROVE Known(t, at, password)'
  <2> DEFINE u == requests[q].user
             old == replaced[t.user]
  <2>1. replaced' = [replaced EXCEPT ![u] = Append(@, now)] /\ now' = now /\ now \in 0 .. MaxTime
    BY <1>2 DEF ChangeCommit, SessionInv, TablesInv, TypeOK
  <2>2. CASE t.user # u
    <3>1. replaced'[t.user] = old BY <1>0, <2>1, <2>2 DEF SessionInv, TablesInv, TypeOK
    <3> QED BY <3>1 DEF Known, Password
  <2>3. CASE t.user = u
    <3>1. replaced'[t.user] = Append(old, now)
      BY <1>0, <2>1, <2>3 DEF SessionInv, TablesInv, TypeOK
    <3> HIDE DEF old
    <3>2. old \in Seq(0 .. MaxTime) BY <1>0 DEF old
    <3>3. /\ Len(Append(old, now)) = Len(old) + 1
          /\ Append(old, now)[Len(old) + 1] = now
          /\ \A i \in 1 .. Len(old) : Append(old, now)[i] = old[i]
      BY <2>1, <3>2
    <3>4. password <= Len(old) /\ (password < Len(old) => at <= old[password + 1])
      BY DEF Known, Password, old
    <3>5. CASE password = Len(old) BY <3>1, <3>2, <3>3, <3>5 DEF Known, Password
    <3>6. CASE password < Len(old)
      <4>1. password + 1 \in 1 .. Len(old) BY <3>2, <3>6
      <4> QED BY <3>1, <3>2, <3>3, <3>4, <3>6, <4>1 DEF Known, Password
    <3> QED BY <3>2, <3>4, <3>5, <3>6
  <2> QED BY <2>2, <2>3
<1>3. CASE UNCHANGED vars BY <1>1, <1>3 DEF vars
<1>4. CASE Next
  <2>1. ASSUME NEW q \in Requests,
               \/ \E x \in tokens : AuthVerify(q, x)
               \/ \E u \in User : ChangeStart(q, u)
               \/ \E batch \in Batches : OnboardStart(q, batch)
               \/ AuthCache(q) \/ ChangeRevoke(q) \/ OnboardLookup(q) \/ OnboardSecret(q)
               \/ RequestFail(q) \/ OnboardCreate(q) \/ OnboardEnd(q)
        PROVE  Known(t, at, password)'
    BY <1>1, <2>1 DEF AuthVerify, ChangeStart, OnboardStart, AuthCache, ChangeRevoke,
       OnboardLookup, OnboardSecret, RequestFail, OnboardCreate, OnboardEnd
  <2>2. ASSUME NEW u \in User,
               \/ DeleteSecret(u)
               \/ \E active \in BOOLEAN : CreateSecret(u, active) \/ ToggleSecret(u, active)
        PROVE  Known(t, at, password)'
    BY <1>1, <2>2 DEF DeleteSecret, CreateSecret, ToggleSecret
  <2>3. CASE Tick \/ Restart \/ \E u \in users : Login(u) \/ DeleteUser(u)
    BY <1>1, <2>3 DEF Tick, Restart, Login, DeleteUser
  <2> QED BY <1>2, <1>4, <2>1, <2>2, <2>3 DEF Next
<1> QED BY <1>3, <1>4

LEMMA HistoryStep == ASSUME SessionInv, [Next]_vars PROVE HistoryOK'
<1> USE DEF tables
<1>0. now \in 0 .. MaxTime /\ closed \in [1 .. MaxSecrets -> 0 .. MaxTime]
      /\ replaced \in [User -> Seq(0 .. MaxTime)] /\ HistoryOK
  BY DEF SessionInv, TablesInv, TypeOK
<1>1. ASSUME closed' = closed, replaced' = replaced, now' = now \/ now' = now + 1 PROVE HistoryOK'
  <2>1. \A n \in 1 .. MaxSecrets : closed'[n] <= now' BY <1>0, <1>1 DEF HistoryOK
  <2>2. ASSUME NEW u \in User, NEW i \in 1 .. Len(replaced[u]) PROVE replaced'[u][i] <= now'
    <3>1. replaced[u] \in Seq(0 .. MaxTime) BY <1>0
    <3>2. replaced[u][i] \in 0 .. MaxTime
      <4> DEFINE times == replaced[u]
      <4>1. times \in Seq(0 .. MaxTime) /\ i \in 1 .. Len(times) BY <3>1, <2>2
      <4> HIDE DEF times
      <4>2. times[i] \in 0 .. MaxTime BY <4>1, Numbers
      <4> QED BY <4>2 DEF times
    <3> QED BY <1>0, <1>1, <3>2 DEF HistoryOK
  <2> QED BY <1>1, <2>1, <2>2 DEF HistoryOK
<1>2. ASSUME NEW rows, CloseAll(rows), replaced' = replaced, now' = now PROVE HistoryOK'
  <2>1. \A n \in 1 .. MaxSecrets : closed'[n] = now \/ closed'[n] = closed[n]
    BY <1>0, <1>2 DEF CloseAll
  <2> QED BY <1>0, <1>2, <2>1 DEF HistoryOK
<1>3. ASSUME NEW q \in Requests, ChangeCommit(q) PROVE HistoryOK'
  <2> DEFINE u == requests[q].user
  <2>1. /\ CloseAll(requests[q].rows) /\ now' = now
        /\ replaced' = [replaced EXCEPT ![u] = Append(@, now)]
    BY <1>3 DEF ChangeCommit
  <2>2. \A n \in 1 .. MaxSecrets : closed'[n] = now \/ closed'[n] = closed[n]
    BY <1>0, <2>1 DEF CloseAll
  <2>3. ASSUME NEW v \in User, NEW i \in 1 .. Len(replaced'[v]) PROVE replaced'[v][i] <= now
    <3>1. replaced[v] \in Seq(0 .. MaxTime) BY <1>0
    <3>2. CASE v # u
      <4>1. replaced'[v] = replaced[v] BY <1>0, <2>1, <3>2
      <4> QED BY <1>0, <2>3, <4>1 DEF HistoryOK
    <3>3. CASE v = u
      <4>1. replaced'[v] = Append(replaced[v], now) BY <1>0, <2>1, <3>3
      <4>2. /\ Len(Append(replaced[v], now)) = Len(replaced[v]) + 1
            /\ Append(replaced[v], now)[Len(replaced[v]) + 1] = now
            /\ \A j \in 1 .. Len(replaced[v]) : Append(replaced[v], now)[j] = replaced[v][j]
        BY <1>0, <3>1
      <4>3. i \in 1 .. Len(replaced[v]) \/ i = Len(replaced[v]) + 1 BY <2>3, <3>1, <4>1, <4>2
      <4>4. CASE i = Len(replaced[v]) + 1 BY <1>0, <4>1, <4>2, <4>4
      <4>5. CASE i \in 1 .. Len(replaced[v]) BY <1>0, <4>1, <4>2, <4>5 DEF HistoryOK
      <4> QED BY <4>3, <4>4, <4>5
    <3> QED BY <3>2, <3>3
  <2> QED BY <1>0, <2>1, <2>2, <2>3 DEF HistoryOK
<1>4. ASSUME NEW u \in User, DeleteSecret(u) PROVE HistoryOK'
  BY <1>2, <1>4 DEF DeleteSecret
<1>5. ASSUME NEW u \in users, DeleteUser(u) PROVE HistoryOK'
  BY <1>2, <1>5 DEF DeleteUser
<1>6. ASSUME NEW u \in User, NEW active \in BOOLEAN, ToggleSecret(u, active) PROVE HistoryOK'
  BY <1>1, <1>2, <1>6 DEF ToggleSecret
<1>7. ASSUME NEW u \in User, NEW active \in BOOLEAN, CreateSecret(u, active) PROVE HistoryOK'
  BY <1>1, <1>7 DEF CreateSecret
<1>8. ASSUME NEW q \in Requests,
               \/ \E x \in tokens : AuthVerify(q, x)
               \/ \E u \in User : ChangeStart(q, u)
               \/ \E batch \in Batches : OnboardStart(q, batch)
               \/ AuthCache(q) \/ ChangeRevoke(q) \/ OnboardLookup(q) \/ OnboardSecret(q)
               \/ RequestFail(q) \/ OnboardCreate(q) \/ OnboardEnd(q)
      PROVE  HistoryOK'
  BY <1>1, <1>8 DEF AuthVerify, ChangeStart, OnboardStart, AuthCache, ChangeRevoke,
     OnboardLookup, OnboardSecret, RequestFail, OnboardCreate, OnboardEnd
<1>9. CASE Tick \/ Restart \/ \E u \in users : Login(u)
  BY <1>1, <1>9 DEF Tick, Restart, Login
<1>10. CASE UNCHANGED vars BY <1>1, <1>10 DEF vars
<1> QED BY <1>3, <1>4, <1>5, <1>6, <1>7, <1>8, <1>9, <1>10 DEF Next

(* What a step may do to the session cache and to validations under way.   *)
LEMMA CacheChanges ==
  ASSUME SessionInv, [Next]_vars
  PROVE  /\ \/ now' = now
            \/ now' = now + 1 /\ \A t \in DOMAIN sessions' : Live(sessions[t], now')
         /\ \A t \in DOMAIN sessions' :
              \/ t \in DOMAIN sessions /\ sessions'[t] = sessions[t]
              \/ now' = now /\ \E q \in Requests :
                   /\ requests[q].pc = "verified" /\ requests[q].token = t
                   /\ sessions'[t] = [checked |-> requests[q].at, since |-> now,
                                      password |-> requests[q].password]
         /\ \A q \in Requests : requests'[q].pc = "verified" =>
              \/ requests'[q] = requests[q]
              \/ \E t \in tokens :
                   /\ Verified(t) /\ now' = now
                   /\ requests'[q] = [pc |-> "verified", token |-> t, at |-> now,
                                      password |-> Password(t.user)]
<1> USE DEF tables
<1> TypeOK BY DEF SessionInv, TablesInv
<1>0. \A q \in Requests : requests[q] \in Request BY DEF TypeOK
<1>1. CASE Tick
  <2>1. /\ now' = now + 1 /\ requests' = requests
        /\ sessions' = [t \in {s \in DOMAIN sessions : Live(sessions[s], now + 1)} |-> sessions[t]]
    BY <1>1 DEF Tick
  <2> QED BY <2>1
<1>2. CASE Restart BY <1>2 DEF Restart, Idle
<1>3. ASSUME now' = now, sessions' = sessions,
             \A q \in Requests : requests'[q].pc = "verified" => requests'[q] = requests[q]
      PROVE  /\ now' = now
             /\ \A t \in DOMAIN sessions' : t \in DOMAIN sessions /\ sessions'[t] = sessions[t]
             /\ \A q \in Requests : requests'[q].pc = "verified" => requests'[q] = requests[q]
  BY <1>3
<1>4. ASSUME NEW q \in Requests, NEW t \in tokens, AuthVerify(q, t)
      PROVE  /\ now' = now /\ sessions' = sessions
             /\ \A p \in Requests \ {q} : requests'[p] = requests[p]
             /\ Verified(t)
             /\ requests'[q] = [pc |-> "verified", token |-> t, at |-> now,
                                password |-> Password(t.user)]
  BY <1>4, SetRequestFacts DEF AuthVerify
<1>5. ASSUME NEW q \in Requests, AuthCache(q)
      PROVE  /\ now' = now /\ requests[q].pc = "verified"
             /\ \A p \in Requests \ {q} : requests'[p] = requests[p]
             /\ requests'[q].pc = "idle"
             /\ \A t \in DOMAIN sessions' :
                  \/ t \in DOMAIN sessions /\ sessions'[t] = sessions[t]
                  \/ /\ requests[q].token = t
                     /\ sessions'[t] = [checked |-> requests[q].at, since |-> now,
                                        password |-> requests[q].password]
  BY <1>5, SetRequestFacts DEF AuthCache, Idle
<1>6. ASSUME NEW q \in Requests,
             \/ \E u \in User : ChangeStart(q, u)
             \/ \E batch \in Batches : OnboardStart(q, batch)
             \/ ChangeCommit(q) \/ OnboardSecret(q) \/ RequestFail(q)
             \/ OnboardCreate(q) \/ OnboardEnd(q)
      PROVE  /\ now' = now /\ sessions' = sessions
             /\ \A p \in Requests : requests'[p].pc = "verified" => requests'[p] = requests[p]
  <2>1. now' = now /\ sessions' = sessions
    BY <1>6 DEF ChangeStart, OnboardStart, ChangeCommit, OnboardSecret, RequestFail,
       OnboardCreate, OnboardEnd
  <2>2. \E r : SetRequest(q, r) /\ r.pc # "verified"
    <3>1. CASE \E u \in User : ChangeStart(q, u)
      BY <3>1 DEF ChangeStart
    <3>2. CASE \E batch \in Batches : OnboardStart(q, batch)
      BY <3>2 DEF OnboardStart
    <3>3. CASE ChangeCommit(q) \/ RequestFail(q) \/ OnboardEnd(q)
      <4>1. SetRequest(q, Idle) /\ Idle.pc # "verified"
        BY <3>3 DEF ChangeCommit, RequestFail, OnboardEnd, Idle
      <4> QED BY <4>1
    <3>4. CASE OnboardSecret(q) BY <3>4 DEF OnboardSecret
    <3>5. CASE OnboardCreate(q) BY <3>5 DEF OnboardCreate
    <3> QED BY <1>6, <3>1, <3>2, <3>3, <3>4, <3>5
  <2> QED BY <2>1, <2>2, SetRequestFacts
<1>7. ASSUME NEW q \in Requests, ChangeRevoke(q) \/ OnboardLookup(q)
      PROVE  /\ now' = now /\ sessions' = sessions
             /\ \A p \in Requests : requests'[p].pc = "verified" => requests'[p] = requests[p]
  <2>1. now' = now /\ sessions' = sessions BY <1>7 DEF ChangeRevoke, OnboardLookup
  <2>2. \E r : SetRequest(q, r) /\ r.pc # "verified"
    <3>1. CASE ChangeRevoke(q)
      <4>1. requests[q] \in [pc : {"change", "revoked"}, user : User, rows : SUBSET Secret]
        BY <1>0, <3>1, RequestKinds DEF ChangeRevoke
      <4>2. \A rows : [requests[q] EXCEPT !.pc = "revoked", !.rows = rows].pc = "revoked" BY <4>1
      <4> QED BY <3>1, <4>2 DEF ChangeRevoke
    <3>2. CASE OnboardLookup(q)
      <4>1. requests[q] \in [pc : {"lookup", "create"}, todo : Seq(Emails), pending : SUBSET Secret]
        BY <1>0, <3>2, RequestKinds DEF OnboardLookup
      <4>2. \A todo : [requests[q] EXCEPT !.todo = todo].pc # "verified" BY <4>1
      <4>3. [requests[q] EXCEPT !.pc = "create"].pc # "verified" BY <4>1
      <4> QED BY <3>2, <4>2, <4>3 DEF OnboardLookup
    <3> QED BY <1>7, <3>1, <3>2
  <2> QED BY <2>1, <2>2, SetRequestFacts
<1>8. ASSUME \/ UNCHANGED vars
             \/ \E u \in users : Login(u) \/ DeleteUser(u)
             \/ \E u \in User : DeleteSecret(u)
             \/ \E u \in User, active \in BOOLEAN : CreateSecret(u, active) \/ ToggleSecret(u, active)
      PROVE  now' = now /\ sessions' = sessions /\ requests' = requests
  BY <1>8 DEF vars, Login, DeleteUser, DeleteSecret, CreateSecret, ToggleSecret
<1> QED BY <1>1, <1>2, <1>3, <1>4, <1>5, <1>6, <1>7, <1>8 DEF Next

LEMMA SessionStep == ASSUME SessionInv, [Next]_vars PROVE SessionInv'
<1>t. TypeOK /\ TablesInv' BY TablesStep DEF SessionInv, TablesInv
<1>h. HistoryOK' BY HistoryStep
<1>n. now \in Nat BY <1>t, Numbers DEF TypeOK
<1>v. ASSUME NEW q \in Requests, requests[q].pc = "verified"
      PROVE  /\ requests[q].token \in Token /\ requests[q].at \in 0 .. MaxTime
             /\ requests[q].password \in Nat
             /\ requests[q].at <= now /\ requests[q].at < requests[q].token.iat + Lifetime
             /\ Backed(requests[q].token, requests[q].at)
             /\ Known(requests[q].token, requests[q].at, requests[q].password)
  BY <1>t, <1>v, RequestKinds DEF TypeOK, SessionInv, ValidationsOK, VerifiedOK
<1>1. SessionsOK'
  <2> SUFFICES ASSUME NEW t \in DOMAIN sessions' PROVE SessionOK(t)' BY DEF SessionsOK
  <2>1. CASE t \in DOMAIN sessions /\ sessions'[t] = sessions[t]
    <3> DEFINE s == sessions[t]
    <3>1. t \in Token /\ s \in Session BY <1>t, <2>1 DEF TypeOK, Range
    <3>2. /\ s.checked \in 0 .. MaxTime /\ s.since \in 0 .. MaxTime /\ s.password \in Nat
      BY <3>1 DEF Session
    <3>3. /\ s.checked <= s.since /\ s.since <= now /\ now < s.since + Lifetime
          /\ s.checked < t.iat + Lifetime
          /\ Backed(t, s.checked) /\ Known(t, s.checked, s.password)
      BY <2>1 DEF SessionInv, SessionsOK, SessionOK
    <3>4. now' = now \/ (now' = now + 1 /\ now' < s.since + Lifetime)
      BY CacheChanges DEF Live
    <3> HIDE DEF s
    <3>5. s.checked <= now BY <1>n, <3>2, <3>3
    <3>6. PICK c \in 0 .. MaxTime : c = s.checked BY <3>2
    <3>7. PICK p \in Nat : p = s.password BY <3>2
    <3>8. Backed(t, c)' /\ Known(t, c, p)'
      BY <3>1, <3>3, <3>5, <3>6, <3>7, BackedKept, KnownKept
    <3>9. /\ sessions'[t].checked = c /\ sessions'[t].password = p
          /\ sessions'[t].since = s.since
      BY <2>1, <3>6, <3>7 DEF s
    <3>10. now' < s.since + Lifetime /\ s.since <= now' BY <1>n, <3>2, <3>3, <3>4, Numbers
    <3> QED BY <3>3, <3>6, <3>8, <3>9, <3>10 DEF SessionOK, Backed, Known
  <2>2. CASE /\ now' = now
             /\ \E q \in Requests :
                  /\ requests[q].pc = "verified" /\ requests[q].token = t
                  /\ sessions'[t] = [checked |-> requests[q].at, since |-> now,
                                     password |-> requests[q].password]
    <3>1. PICK q \in Requests :
            /\ requests[q].pc = "verified" /\ requests[q].token = t
            /\ sessions'[t] = [checked |-> requests[q].at, since |-> now,
                               password |-> requests[q].password]
      BY <2>2
    <3>2. PICK c \in 0 .. MaxTime : c = requests[q].at BY <1>v, <3>1
    <3>3. PICK p \in Nat : p = requests[q].password BY <1>v, <3>1
    <3>4. t \in Token /\ c <= now /\ c < t.iat + Lifetime /\ Backed(t, c) /\ Known(t, c, p)
      BY <1>v, <3>1, <3>2, <3>3
    <3>5. Backed(t, c)' /\ Known(t, c, p)' BY <3>4, BackedKept, KnownKept
    <3>6. /\ sessions'[t].checked = c /\ sessions'[t].since = now
          /\ sessions'[t].password = p
      BY <3>1, <3>2, <3>3
    <3>7. c <= now' /\ now <= now' /\ now' < now + Lifetime BY <1>n, <2>2, <3>4, Numbers
    <3>8. now' = now BY <2>2
    <3> QED BY <3>4, <3>5, <3>6, <3>7, <3>8 DEF SessionOK, Backed, Known
  <2> QED BY <2>1, <2>2, CacheChanges
<1>2. ValidationsOK'
  <2> SUFFICES ASSUME NEW q \in Requests PROVE VerifiedOK(q)' BY DEF ValidationsOK
  <2>0. CASE requests'[q].pc # "verified" BY <2>0 DEF VerifiedOK
  <2>n. now' = now \/ now' = now + 1 BY CacheChanges
  <2>1. CASE requests'[q].pc = "verified" /\ requests'[q] = requests[q]
    <3>1. requests[q].pc = "verified" BY <2>1
    <3>2. PICK c \in 0 .. MaxTime : c = requests[q].at BY <1>v, <3>1
    <3>3. PICK p \in Nat : p = requests[q].password BY <1>v, <3>1
    <3>4. PICK t \in Token : t = requests[q].token BY <1>v, <3>1
    <3>5. c <= now /\ c < t.iat + Lifetime /\ Backed(t, c) /\ Known(t, c, p)
      BY <1>v, <3>1, <3>2, <3>3, <3>4
    <3>6. Backed(t, c)' /\ Known(t, c, p)' BY <3>5, BackedKept, KnownKept
    <3>7. c <= now' BY <1>n, <2>n, <3>5
    <3> QED BY <2>1, <3>2, <3>3, <3>4, <3>5, <3>6, <3>7 DEF VerifiedOK, Backed, Known
  <2>2. CASE \E t \in tokens :
               /\ Verified(t) /\ now' = now
               /\ requests'[q] = [pc |-> "verified", token |-> t, at |-> now,
                                  password |-> Password(t.user)]
    <3>1. PICK t \in tokens :
            /\ Verified(t) /\ now' = now
            /\ requests'[q] = [pc |-> "verified", token |-> t, at |-> now,
                               password |-> Password(t.user)]
      BY <2>2
    <3>2. t \in Token /\ now \in 0 .. MaxTime BY <1>t DEF TypeOK
    <3>3. replaced[t.user] \in Seq(0 .. MaxTime) BY <1>t, <3>2 DEF TypeOK, Token
    <3>4. PICK p \in Nat : p = Password(t.user) BY <3>3 DEF Password
    <3>5. now < t.iat + Lifetime /\ Backed(t, now)
      BY <3>1 DEF Verified, Unexpired, Backed, UsableSecret, LoginRows
    <3>6. Known(t, now, p) BY <3>3, <3>4 DEF Known, Password
    <3>7. PICK c \in 0 .. MaxTime : c = now BY <3>2
    <3>8. Backed(t, c)' /\ Known(t, c, p)'
      BY <1>n, <3>2, <3>5, <3>6, <3>7, BackedKept, KnownKept
    <3>9. requests'[q] = [pc |-> "verified", token |-> t, at |-> c, password |-> p]
      BY <3>1, <3>4, <3>7
    <3> QED BY <1>n, <3>1, <3>5, <3>7, <3>8, <3>9 DEF VerifiedOK, Backed, Known
  <2> QED BY <2>0, <2>1, <2>2, CacheChanges
<1> QED BY <1>t, <1>h, <1>1, <1>2 DEF SessionInv

LEMMA SessionInvariant == Spec => []SessionInv
  BY SessionInit, SessionStep, PTL DEF Spec

(* However long its secret, its password and its user change meanwhile, no *)
(* token is accepted for two lifetimes after its issue, but for the time a *)
(* request took to cache it.                                               *)
THEOREM TokensExpire == Spec => []TokenLifetime
<1>1. ASSUME SessionInv, NEW t \in DOMAIN sessions
      PROVE  now < t.iat + 2 * Lifetime + (sessions[t].since - sessions[t].checked)
  <2>1. t \in Token /\ sessions[t] \in Session /\ now \in Nat
    BY <1>1, Numbers DEF SessionInv, TablesInv, TypeOK, Range
  <2>2. t.iat \in Nat /\ sessions[t].since \in Nat /\ sessions[t].checked \in Nat
    BY <2>1, Numbers DEF Token, Session
  <2>3. now < sessions[t].since + Lifetime /\ sessions[t].checked < t.iat + Lifetime
    BY <1>1 DEF SessionInv, SessionsOK, SessionOK
  <2> QED BY <2>1, <2>2, <2>3, Numbers
<1>2. SessionInv => TokenLifetime BY <1>1 DEF TokenLifetime
<1> QED BY <1>2, SessionInvariant, PTL

(* A token whose secret is revoked or gone is accepted for less than a     *)
(* lifetime after that, and the same delay.                                *)
THEOREM StaleSessionsExpire == Spec => []StaleSessionBound
<1>1. ASSUME SessionInv, NEW t \in DOMAIN sessions,
             \A row \in secrets : row.n = t.n => ~row.active
      PROVE  now < closed[t.n] + Lifetime + (sessions[t].since - sessions[t].checked)
  <2>1. t \in Token /\ sessions[t] \in Session /\ now \in Nat
    BY <1>1, Numbers DEF SessionInv, TablesInv, TypeOK, Range
  <2>2. sessions[t].since \in Nat /\ sessions[t].checked \in Nat
    BY <2>1, Numbers DEF Session
  <2>3. closed[t.n] \in Nat BY <1>1, <2>1, Numbers DEF SessionInv, TablesInv, TypeOK, Token
  <2>4. now < sessions[t].since + Lifetime /\ sessions[t].checked <= closed[t.n]
    BY <1>1 DEF SessionInv, SessionsOK, SessionOK, Backed
  <2> QED BY <2>1, <2>2, <2>3, <2>4, Numbers
<1>2. SessionInv => StaleSessionBound BY <1>1 DEF StaleSessionBound
<1> QED BY <1>2, SessionInvariant, PTL

(* A replaced password passes for less than a lifetime, and the same delay. *)
THEOREM OldPasswordsExpire == Spec => []OldPasswordBound
<1>1. ASSUME SessionInv, NEW t \in DOMAIN sessions, sessions[t].password < Password(t.user)
      PROVE  now < replaced[t.user][sessions[t].password + 1] + Lifetime
                     + (sessions[t].since - sessions[t].checked)
  <2>1. t \in Token /\ sessions[t] \in Session /\ now \in Nat
    BY <1>1, Numbers DEF SessionInv, TablesInv, TypeOK, Range
  <2>2. /\ sessions[t].since \in Nat /\ sessions[t].checked \in Nat
        /\ sessions[t].password \in Nat
    BY <2>1, Numbers DEF Session
  <2>3. replaced[t.user] \in Seq(0 .. MaxTime)
    BY <1>1, <2>1 DEF SessionInv, TablesInv, TypeOK, Token
  <2>4. sessions[t].password + 1 \in 1 .. Len(replaced[t.user])
    BY <1>1, <2>2, <2>3 DEF Password
  <2>5. replaced[t.user][sessions[t].password + 1] \in Nat BY <2>3, <2>4, Numbers
  <2>6. /\ now < sessions[t].since + Lifetime
        /\ sessions[t].checked <= replaced[t.user][sessions[t].password + 1]
    BY <1>1 DEF SessionInv, SessionsOK, SessionOK, Known
  <2> QED BY <2>1, <2>2, <2>5, <2>6, Numbers
<1>2. SessionInv => OldPasswordBound BY <1>1 DEF OldPasswordBound
<1> QED BY <1>2, SessionInvariant, PTL

-----------------------------------------------------------------------------
(* Who can log in.                                                         *)

(* Users are made with a life nobody had before. *)
LivesGrow ==
  /\ \A u \in users : u.life <= lives[u.email]
  /\ \A t \in tokens : t.user.life <= lives[t.user.email]
  /\ \A q \in Requests : requests[q].pc \in {"change", "revoked", "secret"} =>
       requests[q].user.life <= lives[requests[q].user.email]

(* A user whose secret a batch has not committed has nothing yet that      *)
(* takes a secret, and is of that batch alone.                             *)
UnsavedAlone ==
  \A q \in Requests : \A u \in Unsaved(q) :
    /\ LoginRows(u) = {}
    /\ \A t \in tokens : t.user # u
    /\ \A p \in Requests : requests[p].pc \in {"change", "revoked"} => requests[p].user # u
    /\ \A p \in Requests : u \in Unsaved(p) => p = q

PendingSingle ==
  \A q \in Requests :
    /\ \A s, t \in Pending(q) : s = t
    /\ requests[q].pc = "secret" => requests[q].pending = {}

OneActive ==
  \A s, t \in secrets :
    s.user = t.user /\ s.user \notin meddled /\ s.active /\ t.active => s = t

(* A password change has locked every active secret of its user.           *)
RevokedCover ==
  \A q \in Requests : requests[q].pc = "revoked" /\ requests[q].user \notin meddled =>
    \A s \in LoginRows(requests[q].user) : s.active => s \in requests[q].rows

Ready(u) == \E s \in secrets : LoginRows(u) = {s} /\ s.active

LoginReady ==
  \A u \in users \ (lost \cup changed \cup meddled) :
    (\A q \in Requests : u \notin Unsaved(q)) => Ready(u)

LoginsOK ==
  /\ LivesGrow /\ UnsavedAlone /\ PendingSingle /\ OneActive /\ RevokedCover /\ LoginReady

LoginsInv == TablesInv /\ LoginsOK

LEMMA LoginsInit == Init => LoginsInv
<1> SUFFICES ASSUME Init PROVE LoginsInv OBVIOUS
<1>1. \A q \in Requests : requests[q].pc = "idle" BY DEF Init, Idle
<1>2. /\ users = {} /\ tokens = {} /\ secrets = {}
      /\ \A q \in Requests : Unsaved(q) = {} /\ Pending(q) = {}
  BY <1>1 DEF Init, Unsaved, Pending, Onboarding
<1> QED BY <1>1, <1>2, TablesInit DEF LoginsInv, LoginsOK, LivesGrow, UnsavedAlone,
           PendingSingle, OneActive, RevokedCover, LoginReady

(* The secrets that a record of a request keeps unsaved depend on it alone. *)
LEMMA SameUnsaved ==
  ASSUME NEW q \in Requests, requests'[q] = requests[q]
  PROVE  Unsaved(q)' = Unsaved(q) /\ Pending(q)' = Pending(q)
  BY DEF Unsaved, Pending, Onboarding

LEMMA NothingUnsaved ==
  ASSUME NEW q \in Requests, requests[q].pc \notin {"lookup", "create", "secret"}
  PROVE  Unsaved(q) = {} /\ Pending(q) = {}
  BY DEF Unsaved, Pending, Onboarding

(* Whoever has a session had a secret: it is no user in the making.        *)
LEMMA SignedInSaved ==
  ASSUME LoginsInv, NEW u \in User, SignedIn(u)
  PROVE  u.life <= lives[u.email] /\ \A q \in Requests : u \notin Unsaved(q)
<1>1. PICK t \in tokens : t.user = u
  BY DEF SignedIn, LoginsInv, TablesInv, TypeOK
<1> QED BY <1>1 DEF LoginsInv, LoginsOK, LivesGrow, UnsavedAlone

(* Steps that add nothing but excuses. *)
LEMMA LoginsFrame ==
  ASSUME LoginsOK, users' \subseteq users, lives' = lives, tokens' \subseteq tokens,
         secrets' \subseteq secrets, \A u \in users' : LoginRows(u)' = LoginRows(u),
         lost \subseteq lost', changed \subseteq changed', meddled \subseteq meddled',
         \A q \in Requests : requests'[q].pc \in {"change", "revoked", "secret"}
                               => requests'[q] = requests[q],
         \A q \in Requests : /\ Pending(q)' \subseteq Pending(q)
                             /\ Unsaved(q)' \subseteq Unsaved(q)
                             /\ Unsaved(q) \subseteq Unsaved(q)' \cup lost'
  PROVE  LoginsOK'
<1>0. \A u : LoginRows(u)' \subseteq LoginRows(u) BY DEF LoginRows
<1>1. LivesGrow' BY DEF LoginsOK, LivesGrow
<1>2. UnsavedAlone'
  <2> SUFFICES ASSUME NEW q \in Requests, NEW u \in Unsaved(q)'
               PROVE  /\ LoginRows(u)' = {}
                      /\ \A t \in tokens' : t.user # u
                      /\ \A p \in Requests : requests'[p].pc \in {"change", "revoked"}
                           => requests'[p].user # u
                      /\ \A p \in Requests : u \in Unsaved(p)' => p = q
    BY DEF UnsavedAlone
  <2>1. u \in Unsaved(q) OBVIOUS
  <2>2. /\ LoginRows(u) = {} /\ \A t \in tokens : t.user # u
        /\ \A p \in Requests : requests[p].pc \in {"change", "revoked"} => requests[p].user # u
        /\ \A p \in Requests : u \in Unsaved(p) => p = q
    BY <2>1 DEF LoginsOK, UnsavedAlone
  <2> QED BY <1>0, <2>2
<1>3. PendingSingle' BY DEF LoginsOK, PendingSingle
<1>4. OneActive' BY DEF LoginsOK, OneActive
<1>5. RevokedCover' BY <1>0 DEF LoginsOK, RevokedCover
<1>6. LoginReady'
  <2> SUFFICES ASSUME NEW u \in users' \ (lost' \cup changed' \cup meddled'),
                      \A q \in Requests : u \notin Unsaved(q)'
               PROVE  Ready(u)'
    BY DEF LoginReady
  <2>1. Ready(u) BY DEF LoginsOK, LoginReady
  <2>2. LoginRows(u)' = LoginRows(u) OBVIOUS
  <2> QED BY <2>1, <2>2 DEF Ready, LoginRows
<1> QED BY <1>1, <1>2, <1>3, <1>4, <1>5, <1>6 DEF LoginsOK

(* A batch commits the secret it has flushed: the first of its user.       *)
LEMMA PendingCommitted ==
  ASSUME LoginsInv, NEW q \in Requests, secrets' = secrets \cup Pending(q),
         meddled' = meddled
  PROVE  /\ \A s \in Pending(q) : s.active /\ s.user \in users /\ LoginRows(s.user)' = {s}
         /\ \A u : (\A s \in Pending(q) : s.user # u) => LoginRows(u)' = LoginRows(u)
         /\ \A s \in Pending(q) : s.user \in Unsaved(q)
         /\ OneActive'
<1>1. \A s \in Pending(q) : s.user \in Unsaved(q) BY DEF Pending, Unsaved
<1>2. \A s \in Pending(q) : LoginRows(s.user) = {} /\ s.active /\ s.user \in users
  BY <1>1 DEF LoginsInv, LoginsOK, UnsavedAlone, TablesInv, IdsGivenOnce
<1>3. \A s, t \in Pending(q) : s = t BY DEF LoginsInv, LoginsOK, PendingSingle
<1>4. \A s \in Pending(q) : LoginRows(s.user)' = {s} BY <1>2, <1>3 DEF LoginRows
<1>5. \A u : (\A s \in Pending(q) : s.user # u) => LoginRows(u)' = LoginRows(u)
  BY DEF LoginRows
<1>6. OneActive'
  <2> SUFFICES ASSUME NEW s \in secrets', NEW t \in secrets', s.user = t.user,
                      s.user \notin meddled, s.active, t.active
               PROVE  s = t
    BY DEF OneActive
  <2>1. CASE s \in secrets /\ t \in secrets BY <2>1 DEF LoginsInv, LoginsOK, OneActive
  <2>2. CASE s \in Pending(q) BY <1>4, <2>2 DEF LoginRows
  <2>3. CASE t \in Pending(q) BY <1>4, <2>3 DEF LoginRows
  <2> QED BY <2>1, <2>2, <2>3
<1> QED BY <1>1, <1>2, <1>4, <1>5, <1>6

(* Steps that change no secret and make no user. *)
LEMMA QuietLogins ==
  ASSUME LoginsInv,
         \/ Tick \/ Restart \/ UNCHANGED vars
         \/ \E u \in users : DeleteUser(u)
         \/ \E q \in Requests, t \in tokens : AuthVerify(q, t)
         \/ \E q \in Requests, batch \in Batches : OnboardStart(q, batch)
         \/ \E q \in Requests : AuthCache(q) \/ OnboardLookup(q) \/ RequestFail(q)
  PROVE  LoginsOK'
<1> USE DEF tables
<1>0. LoginsOK /\ TypeOK BY DEF LoginsInv, TablesInv
<1>1. CASE Tick
  BY <1>0, <1>1, LoginsFrame, SameUnsaved DEF Tick, LoginRows
<1>2. CASE Restart
  <2>1. \A q \in Requests : requests'[q].pc = "idle" BY <1>2 DEF Restart, Idle
  <2>2. \A q \in Requests : Pending(q)' = {} /\ Unsaved(q)' = {}
    BY <2>1 DEF Pending, Unsaved, Onboarding
  <2>3. \A q \in Requests : Unsaved(q) \subseteq lost' BY <1>2 DEF Restart
  <2> QED BY <1>0, <1>2, <2>1, <2>2, <2>3, LoginsFrame DEF Restart, LoginRows
<1>3. CASE UNCHANGED vars
  BY <1>0, <1>3, LoginsFrame, SameUnsaved DEF vars, LoginRows
<1>4. ASSUME NEW u \in users, DeleteUser(u) PROVE LoginsOK'
  <2>1. \A v \in users' : LoginRows(v)' = LoginRows(v) BY <1>4 DEF DeleteUser, LoginRows
  <2> QED BY <1>0, <1>4, <2>1, LoginsFrame, SameUnsaved DEF DeleteUser
<1>5. ASSUME NEW q \in Requests,
             \/ \E t \in tokens : AuthVerify(q, t)
             \/ \E batch \in Batches : OnboardStart(q, batch)
             \/ AuthCache(q) \/ OnboardLookup(q) \/ RequestFail(q)
      PROVE  LoginsOK'
  <2>1. \A p \in Requests \ {q} : requests'[p] = requests[p]
    BY <1>0, <1>5, SetRequestFacts
    DEF AuthVerify, OnboardStart, AuthCache, OnboardLookup, RequestFail
  <2>2. /\ requests'[q].pc \notin {"change", "revoked", "secret"}
        /\ Pending(q)' \subseteq Pending(q) /\ Unsaved(q)' \subseteq Unsaved(q)
        /\ Unsaved(q) \subseteq Unsaved(q)' \cup lost' /\ lost \subseteq lost'
    <3>1. CASE AuthCache(q) \/ \E t \in tokens : AuthVerify(q, t)
      <4>1. requests[q].pc \in {"idle", "verified"} /\ requests'[q].pc \in {"idle", "verified"}
            /\ lost' = lost
        <5>1. CASE AuthCache(q) BY <1>0, <5>1, SetRequestFacts DEF AuthCache, Idle
        <5>2. ASSUME NEW t \in tokens, AuthVerify(q, t)
              PROVE  requests[q].pc = "idle" /\ requests'[q].pc = "verified" /\ lost' = lost
          BY <1>0, <5>2, SetRequestFacts DEF AuthVerify, Idle
        <5> QED BY <3>1, <5>1, <5>2
      <4> QED BY <4>1 DEF Pending, Unsaved, Onboarding
    <3>2. CASE \E batch \in Batches : OnboardStart(q, batch)
      <4>1. requests[q].pc = "idle" /\ requests'[q].pc = "lookup" /\ requests'[q].pending = {}
            /\ lost' = lost
        BY <1>0, <3>2, SetRequestFacts DEF OnboardStart, Idle
      <4> QED BY <4>1 DEF Pending, Unsaved, Onboarding
    <3>3. CASE OnboardLookup(q)
      <4>1. requests[q] \in [pc : {"lookup", "create"}, todo : Seq(Emails),
                             pending : SUBSET Secret]
        BY <1>0, <3>3, RequestKinds DEF OnboardLookup, TypeOK
      <4>2. requests'[q] = IF Registered(Head(requests[q].todo))
                             THEN [requests[q] EXCEPT !.todo = Tail(@)]
                             ELSE [requests[q] EXCEPT !.pc = "create"]
        BY <1>0, <3>3, SetRequestFacts DEF OnboardLookup
      <4>3. requests'[q].pc \in {"lookup", "create"}
            /\ requests'[q].pending = requests[q].pending
        BY <3>3, <4>1, <4>2 DEF OnboardLookup
      <4>4. requests[q].pc \in {"lookup", "create"} /\ lost' = lost
        BY <3>3 DEF OnboardLookup
      <4> QED BY <4>3, <4>4 DEF Pending, Unsaved, Onboarding
    <3>4. CASE RequestFail(q)
      <4>1. requests'[q].pc = "idle" /\ lost' = lost \cup Unsaved(q)
        BY <1>0, <3>4, SetRequestFacts DEF RequestFail, Idle
      <4> QED BY <4>1 DEF Pending, Unsaved, Onboarding
    <3> QED BY <1>5, <3>1, <3>2, <3>3, <3>4
  <2>3. /\ users' = users /\ lives' = lives /\ tokens' = tokens /\ secrets' = secrets
        /\ changed' = changed /\ meddled' = meddled
    BY <1>5 DEF AuthVerify, OnboardStart, AuthCache, OnboardLookup, RequestFail
  <2> QED BY <1>0, <2>1, <2>2, <2>3, LoginsFrame, SameUnsaved DEF LoginRows
<1> QED BY <1>1, <1>2, <1>3, <1>4, <1>5

(* Logins, and edits of secrets, are of users who have their secret. *)
LEMMA UserLogins ==
  ASSUME LoginsInv,
         \/ \E u \in users : Login(u)
         \/ \E u \in User : DeleteSecret(u)
         \/ \E u \in User, active \in BOOLEAN : CreateSecret(u, active) \/ ToggleSecret(u, active)
  PROVE  LoginsOK'
<1> USE DEF tables
<1>0. LoginsOK /\ TypeOK BY DEF LoginsInv, TablesInv
<1>1. ASSUME NEW u \in users, Login(u) PROVE LoginsOK'
  <2>1. /\ \A t \in tokens' : t \in tokens \/ t.user = u
        /\ users' = users /\ secrets' = secrets /\ lives' = lives /\ requests' = requests
        /\ lost' = lost /\ changed' = changed /\ meddled' = meddled
    BY <1>1 DEF Login
  <2>2. LoginRows(u) # {} BY <1>1 DEF Login, UsableSecret
  <2>3. \A q \in Requests : Unsaved(q)' = Unsaved(q) /\ Pending(q)' = Pending(q)
    BY <2>1, SameUnsaved
  <2>4. LivesGrow' BY <1>0, <2>1 DEF LoginsOK, LivesGrow
  <2>5. UnsavedAlone' BY <1>0, <2>1, <2>2, <2>3 DEF LoginsOK, UnsavedAlone, LoginRows
  <2>6. PendingSingle' /\ OneActive' /\ RevokedCover'
    BY <1>0, <2>1, <2>3 DEF LoginsOK, PendingSingle, OneActive, RevokedCover, LoginRows
  <2>7. LoginReady' BY <1>0, <2>1, <2>3 DEF LoginsOK, LoginReady, Ready, LoginRows
  <2> QED BY <2>4, <2>5, <2>6, <2>7 DEF LoginsOK
<1>2. ASSUME NEW u \in User,
             \/ DeleteSecret(u)
             \/ \E active \in BOOLEAN : CreateSecret(u, active) \/ ToggleSecret(u, active)
      PROVE  LoginsOK'
  <2>1. /\ users' = users /\ lives' = lives /\ tokens' = tokens /\ requests' = requests
        /\ lost' = lost /\ changed' = changed /\ meddled' = meddled \cup {u}
    BY <1>2 DEF DeleteSecret, CreateSecret, ToggleSecret
  <2>2. \A q \in Requests : u \notin Unsaved(q)
    BY <1>2, SignedInSaved DEF DeleteSecret, CreateSecret, ToggleSecret
  <2>3. \A s : s.user # u => (s \in secrets' <=> s \in secrets)
    <3>1. CASE DeleteSecret(u) BY <3>1 DEF DeleteSecret, LoginRows
    <3>2. ASSUME NEW active \in BOOLEAN, CreateSecret(u, active)
          PROVE  \A s : s.user # u => (s \in secrets' <=> s \in secrets)
      BY <3>2 DEF CreateSecret
    <3>3. ASSUME NEW active \in BOOLEAN, ToggleSecret(u, active)
          PROVE  \A s : s.user # u => (s \in secrets' <=> s \in secrets)
      <4> DEFINE rows == {s \in LoginRows(u) : s.active # active}
      <4>1. secrets' = (secrets \ rows) \cup {[s EXCEPT !.active = active] : s \in rows}
        BY <3>3 DEF ToggleSecret
      <4>2. \A s \in rows : s.user = u BY DEF LoginRows
      <4>3. \A s \in rows : s \in Secret BY <1>0 DEF LoginRows, TypeOK
      <4>4. \A s \in rows : [s EXCEPT !.active = active].user = u BY <4>2, <4>3 DEF Secret
      <4> HIDE DEF rows
      <4> QED BY <4>1, <4>2, <4>4
    <3> QED BY <1>2, <3>1, <3>2, <3>3
  <2>4. \A v : v # u => LoginRows(v)' = LoginRows(v) BY <2>3 DEF LoginRows
  <2>5. \A q \in Requests : Unsaved(q)' = Unsaved(q) /\ Pending(q)' = Pending(q)
    BY <2>1, SameUnsaved
  <2>6. LivesGrow' BY <1>0, <2>1 DEF LoginsOK, LivesGrow
  <2>7. UnsavedAlone' BY <1>0, <2>1, <2>2, <2>4, <2>5 DEF LoginsOK, UnsavedAlone
  <2>8. PendingSingle' BY <1>0, <2>1, <2>5 DEF LoginsOK, PendingSingle
  <2>9. OneActive' BY <1>0, <2>1, <2>3 DEF LoginsOK, OneActive
  <2>10. RevokedCover' BY <1>0, <2>1, <2>4 DEF LoginsOK, RevokedCover
  <2>11. LoginReady' BY <1>0, <2>1, <2>3, <2>4, <2>5 DEF LoginsOK, LoginReady, Ready, LoginRows
  <2> QED BY <2>6, <2>7, <2>8, <2>9, <2>10, <2>11 DEF LoginsOK
<1> QED BY <1>1, <1>2

(* Changes of password. *)
LEMMA ChangeLogins ==
  ASSUME LoginsInv, NEW q \in Requests,
         \/ \E u \in User : ChangeStart(q, u)
         \/ ChangeRevoke(q) \/ ChangeCommit(q)
  PROVE  LoginsOK'
<1> USE DEF tables
<1>0. LoginsOK /\ TypeOK /\ LocksHold BY DEF LoginsInv, TablesInv
<1>1. \A p \in Requests \ {q} : requests'[p] = requests[p]
  BY <1>0, SetRequestFacts DEF ChangeStart, ChangeRevoke, ChangeCommit
<1>2. /\ requests[q].pc \in {"idle", "change", "revoked"}
      /\ requests'[q].pc \in {"idle", "change", "revoked"}
  <2>1. CASE \E u \in User : ChangeStart(q, u)
    BY <1>0, <2>1, SetRequestFacts DEF ChangeStart, Idle
  <2>2. CASE ChangeRevoke(q)
    <3>1. requests[q] \in [pc : {"change", "revoked"}, user : User, rows : SUBSET Secret]
      BY <1>0, <2>2, RequestKinds DEF ChangeRevoke, TypeOK
    <3>2. \E rows : requests'[q] = [requests[q] EXCEPT !.pc = "revoked", !.rows = rows]
      BY <1>0, <2>2, SetRequestFacts DEF ChangeRevoke
    <3> QED BY <2>2, <3>1, <3>2 DEF ChangeRevoke
  <2>3. CASE ChangeCommit(q) BY <1>0, <2>3, SetRequestFacts DEF ChangeCommit, Idle
  <2> QED BY <2>1, <2>2, <2>3
<1>3. \A p \in Requests : Unsaved(p)' = Unsaved(p) /\ Pending(p)' = Pending(p)
  <2>1. Unsaved(q)' = {} /\ Pending(q)' = {} BY <1>2 DEF Unsaved, Pending, Onboarding
  <2>2. Unsaved(q) = {} /\ Pending(q) = {} BY <1>2, NothingUnsaved
  <2> QED BY <1>1, <2>1, <2>2, SameUnsaved
<1>4. /\ users' = users /\ lives' = lives /\ tokens' = tokens /\ lost' = lost
      /\ meddled' = meddled
  BY DEF ChangeStart, ChangeRevoke, ChangeCommit
<1>5. PendingSingle'
  <2>1. \A p \in Requests : requests'[p].pc = "secret" => requests'[p] = requests[p]
    BY <1>1, <1>2
  <2> QED BY <1>0, <1>3, <2>1 DEF LoginsOK, PendingSingle
<1>6. ASSUME NEW u \in User, ChangeStart(q, u) PROVE LoginsOK'
  <2>1. requests'[q].pc = "change" /\ requests'[q].user = u
        /\ secrets' = secrets /\ changed' = changed
    BY <1>0, <1>6, SetRequestFacts DEF ChangeStart
  <2>2. u.life <= lives[u.email] /\ \A p \in Requests : u \notin Unsaved(p)
    BY <1>6, SignedInSaved DEF ChangeStart
  <2>3. LivesGrow' BY <1>0, <1>1, <1>4, <2>1, <2>2 DEF LoginsOK, LivesGrow
  <2>4. UnsavedAlone'
    BY <1>0, <1>1, <1>3, <1>4, <2>1, <2>2 DEF LoginsOK, UnsavedAlone, LoginRows
  <2>5. OneActive' /\ RevokedCover'
    BY <1>0, <1>1, <1>4, <2>1 DEF LoginsOK, OneActive, RevokedCover, LoginRows
  <2>6. LoginReady' BY <1>0, <1>3, <1>4, <2>1 DEF LoginsOK, LoginReady, Ready, LoginRows
  <2> QED BY <1>5, <2>3, <2>4, <2>5, <2>6 DEF LoginsOK
<1>7. CASE ChangeRevoke(q)
  <2> DEFINE u == requests[q].user
             rows == {s \in LoginRows(u) : s.active}
  <2>1. requests[q] \in [pc : {"change", "revoked"}, user : User, rows : SUBSET Secret]
    BY <1>0, <1>7, RequestKinds DEF ChangeRevoke, TypeOK
  <2>2. requests'[q] = [requests[q] EXCEPT !.pc = "revoked", !.rows = rows]
    BY <1>0, <1>7, SetRequestFacts DEF ChangeRevoke
  <2>3. requests'[q].pc = "revoked" /\ requests'[q].user = u /\ requests'[q].rows = rows
    BY <2>1, <2>2
  <2>4. secrets' = secrets /\ changed' = changed /\ requests[q].pc = "change"
    BY <1>7 DEF ChangeRevoke
  <2>5. LivesGrow' BY <1>0, <1>1, <1>4, <2>3, <2>4 DEF LoginsOK, LivesGrow
  <2>6. UnsavedAlone'
    BY <1>0, <1>1, <1>3, <1>4, <2>3, <2>4 DEF LoginsOK, UnsavedAlone, LoginRows
  <2>7. RevokedCover'
    BY <1>0, <1>1, <1>4, <2>3, <2>4 DEF LoginsOK, RevokedCover, LoginRows
  <2>8. OneActive' BY <1>0, <1>4, <2>4 DEF LoginsOK, OneActive
  <2>9. LoginReady' BY <1>0, <1>3, <1>4, <2>4 DEF LoginsOK, LoginReady, Ready, LoginRows
  <2> QED BY <1>5, <2>5, <2>6, <2>7, <2>8, <2>9 DEF LoginsOK
<1>8. CASE ChangeCommit(q)
  <2>0. requests[q].pc = "revoked" BY <1>8 DEF ChangeCommit
  <2>u. PICK u : u = requests[q].user OBVIOUS
  <2>r. PICK rows : rows = requests[q].rows OBVIOUS
  <2>n. PICK new : new = [user |-> u, n |-> serial + 1, active |-> TRUE] OBVIOUS
  <2>1. requests'[q].pc = "idle" BY <1>0, <1>8, SetRequestFacts DEF ChangeCommit, Idle
  <2>2. secrets' = (secrets \ rows) \cup Inactive(rows) \cup {new} /\ changed' = changed \cup {u}
    BY <1>8, <2>u, <2>r, <2>n DEF ChangeCommit
  <2>3. rows \subseteq LoginRows(u) BY <1>0, <2>0, <2>u, <2>r DEF LocksHold
  <2>4. \A s \in Inactive(rows) : s.user = u /\ ~s.active
    <3>1. \A s \in rows : s \in Secret /\ s.user = u BY <1>0, <2>3 DEF LoginRows, TypeOK
    <3> QED BY <3>1 DEF Inactive, Secret
  <2>5. new.user = u /\ new.active BY <2>n
  <2>6. \A s : s.user # u => (s \in secrets' <=> s \in secrets)
    BY <2>2, <2>3, <2>4, <2>5 DEF LoginRows
  <2>7. \A v : v # u => LoginRows(v)' = LoginRows(v) BY <2>6 DEF LoginRows
  <2>8. LivesGrow' BY <1>0, <1>1, <1>4, <2>1 DEF LoginsOK, LivesGrow
  <2>9. \A p \in Requests : u \notin Unsaved(p)
    BY <1>0, <2>0, <2>u DEF LoginsOK, UnsavedAlone
  <2>10. UnsavedAlone'
    BY <1>0, <1>1, <1>3, <1>4, <2>1, <2>7, <2>9 DEF LoginsOK, UnsavedAlone
  <2>11. u \notin meddled => \A s \in secrets' : s.user = u /\ s.active => s = new
    BY <1>0, <2>0, <2>u, <2>r, <2>2, <2>4 DEF LoginsOK, RevokedCover, LoginRows
  <2>12. OneActive' BY <1>0, <1>4, <2>6, <2>11 DEF LoginsOK, OneActive
  <2>13. \A p \in Requests \ {q} : requests[p].pc = "revoked" => requests[p].user # u
    BY <1>0, <2>0, <2>u DEF LocksHold
  <2>14. RevokedCover'
    BY <1>0, <1>1, <1>4, <2>1, <2>7, <2>13 DEF LoginsOK, RevokedCover
  <2>15. LoginReady'
    BY <1>0, <1>3, <1>4, <2>2, <2>6, <2>7 DEF LoginsOK, LoginReady, Ready, LoginRows
  <2> QED BY <1>5, <2>8, <2>10, <2>12, <2>14, <2>15 DEF LoginsOK
<1> QED BY <1>6, <1>7, <1>8

(* Batches: a new user is in the making until a commit takes its secret.   *)
LEMMA OnboardLogins ==
  ASSUME LoginsInv, NEW q \in Requests,
         OnboardCreate(q) \/ OnboardSecret(q) \/ OnboardEnd(q)
  PROVE  LoginsOK'
<1> USE DEF tables
<1>0. LoginsOK /\ TypeOK /\ IdsGivenOnce BY DEF LoginsInv, TablesInv
<1>1. \A p \in Requests \ {q} : requests'[p] = requests[p]
  BY <1>0, SetRequestFacts DEF OnboardCreate, OnboardSecret, OnboardEnd
<1>2. \A p \in Requests \ {q} : Unsaved(p)' = Unsaved(p) /\ Pending(p)' = Pending(p)
  BY <1>1, SameUnsaved
<1>3. requests[q].pc \in {"create", "secret", "lookup"} /\ tokens' = tokens
      /\ lost' = lost /\ changed' = changed /\ meddled' = meddled
  BY DEF OnboardCreate, OnboardSecret, OnboardEnd
<1>4. CASE OnboardCreate(q)
  <2>0. requests[q] \in [pc : {"lookup", "create"}, todo : Seq(Emails), pending : SUBSET Secret]
    BY <1>0, <1>4, RequestKinds DEF OnboardCreate, TypeOK
  <2>e. PICK e : e = Head(requests[q].todo) OBVIOUS
  <2>u. PICK u : u = [email |-> e, life |-> lives[e] + 1] OBVIOUS
  <2>1. e \in Emails
    BY <1>4, <2>0, <2>e DEF OnboardCreate, LoginsInv, TablesInv, RequestsReady
  <2>2. /\ requests'[q].pc = "secret" /\ requests'[q].user = u /\ requests'[q].pending = {}
        /\ users' = users \cup {u} /\ lives' = [lives EXCEPT ![e] = @ + 1]
        /\ requests[q].pc = "create"
    BY <1>0, <1>4, <2>e, <2>u, SetRequestFacts DEF OnboardCreate
  <2>3. secrets' = secrets \cup Pending(q) BY <1>4 DEF OnboardCreate, Pending, Onboarding
  <2>4. Unsaved(q)' = {u} /\ Pending(q)' = {} BY <2>2 DEF Unsaved, Pending, Onboarding
  <2>5. Unsaved(q) = {s.user : s \in Pending(q)} BY <2>2 DEF Unsaved, Pending, Onboarding
  <2>6. /\ \A s \in Pending(q) : s.active /\ s.user \in users /\ LoginRows(s.user)' = {s}
        /\ \A v : (\A s \in Pending(q) : s.user # v) => LoginRows(v)' = LoginRows(v)
        /\ OneActive'
    BY <1>3, <2>3, PendingCommitted
  <2>7. \A f \in Emails : lives[f] \in Nat BY <1>0, Numbers DEF TypeOK
  <2>8. u.email = e /\ u.life = lives[e] + 1 /\ lives[e] \in Nat BY <2>1, <2>u, <2>7
  <2>9. \A f \in Emails : lives'[f] \in Nat /\ lives[f] <= lives'[f]
    BY <1>0, <2>1, <2>2, <2>7 DEF TypeOK
  <2>10. lives'[e] = lives[e] + 1 BY <1>0, <2>1, <2>2 DEF TypeOK
  <2>11. \A v \in User : v.email \in Emails /\ v.life \in Nat BY Numbers DEF User
  <2>12. \A v \in User : v.life <= lives[v.email] => v # u /\ v.life <= lives'[v.email]
    BY <2>8, <2>7, <2>9, <2>11
  <2>13. /\ users \subseteq User /\ \A t \in tokens : t.user \in User
         /\ \A p \in Requests : requests[p].pc \in {"change", "revoked", "secret"}
              => requests[p].user \in User
    BY <1>0, RequestKinds DEF TypeOK, Token
  <2>14. LivesGrow'
    BY <1>0, <1>1, <1>3, <2>2, <2>8, <2>10, <2>12, <2>13 DEF LoginsOK, LivesGrow
  <2>15. /\ u \notin users /\ \A t \in tokens : t.user # u
         /\ \A p \in Requests : requests[p].pc \in {"change", "revoked", "secret"}
              => requests[p].user # u
    BY <1>0, <2>12, <2>13 DEF LoginsOK, LivesGrow
  <2>16. LoginRows(u) = {} /\ LoginRows(u)' = {}
    <3>1. LoginRows(u) = {} BY <1>0, <2>15 DEF TypeOK, LoginRows
    <3>2. \A s \in Pending(q) : s.user # u BY <2>6, <2>15
    <3> QED BY <2>6, <3>1, <3>2
  <2>17. \A p \in Requests : u \notin Unsaved(p)
    BY <1>0, <2>15 DEF Unsaved, Pending, Onboarding, IdsGivenOnce
  <2>18. \A p \in Requests \ {q} : \A v \in Unsaved(p) :
           v \notin Unsaved(q) /\ LoginRows(v)' = LoginRows(v)
    BY <1>0, <2>5, <2>6 DEF LoginsOK, UnsavedAlone
  <2>19. UnsavedAlone'
    BY <1>0, <1>1, <1>2, <1>3, <2>2, <2>4, <2>15, <2>16, <2>17, <2>18
    DEF LoginsOK, UnsavedAlone
  <2>20. PendingSingle' BY <1>0, <1>1, <1>2, <2>2, <2>4 DEF LoginsOK, PendingSingle
  <2>21. RevokedCover'
    <3>1. ASSUME NEW p \in Requests, requests[p].pc = "revoked", NEW v, v = requests[p].user
          PROVE  LoginRows(v)' = LoginRows(v)
      <4>1. \A s \in Pending(q) : s.user \in Unsaved(q) BY <2>5
      <4>2. \A s \in Pending(q) : s.user # v
        BY <1>0, <3>1, <4>1 DEF LoginsOK, UnsavedAlone
      <4> QED BY <2>6, <4>2
    <3> QED BY <1>0, <1>1, <1>3, <2>2, <3>1 DEF LoginsOK, RevokedCover
  <2>22. LoginReady'
    <3> SUFFICES ASSUME NEW v \in users' \ (lost' \cup changed' \cup meddled'),
                        \A p \in Requests : v \notin Unsaved(p)'
                 PROVE  \E s \in secrets' : LoginRows(v)' = {s} /\ s.active
      BY DEF LoginReady, Ready
    <3>1. v \in users BY <2>2, <2>4
    <3>2. CASE \E s \in Pending(q) : s.user = v BY <2>3, <2>6, <3>2
    <3>3. CASE \A s \in Pending(q) : s.user # v
      <4>1. \A p \in Requests : v \notin Unsaved(p) BY <1>2, <2>5, <3>3
      <4> QED BY <1>0, <1>3, <2>3, <2>6, <3>1, <3>3, <4>1 DEF LoginsOK, LoginReady, Ready
    <3> QED BY <3>2, <3>3
  <2> QED BY <2>6, <2>14, <2>19, <2>20, <2>21, <2>22 DEF LoginsOK
<1>5. CASE OnboardSecret(q)
  <2>u. PICK u : u = requests[q].user OBVIOUS
  <2>n. PICK new : new = [user |-> u, n |-> serial + 1, active |-> TRUE] OBVIOUS
  <2>1. /\ requests'[q].pc = "lookup" /\ requests'[q].pending = {new}
        /\ requests[q].pc = "secret" /\ secrets' = secrets /\ users' = users /\ lives' = lives
    BY <1>0, <1>5, <2>u, <2>n, SetRequestFacts DEF OnboardSecret
  <2>2. Unsaved(q)' = {new.user} /\ Pending(q)' = {new} BY <2>1 DEF Unsaved, Pending, Onboarding
  <2>3. requests[q].pending = {} BY <1>0, <2>1 DEF LoginsOK, PendingSingle
  <2>4. Unsaved(q)' = Unsaved(q)
    BY <2>u, <2>n, <2>1, <2>2, <2>3 DEF Unsaved, Onboarding
  <2>5. LivesGrow' BY <1>0, <1>1, <1>3, <2>1 DEF LoginsOK, LivesGrow
  <2>6. UnsavedAlone'
    BY <1>0, <1>1, <1>2, <1>3, <2>1, <2>4 DEF LoginsOK, UnsavedAlone, LoginRows
  <2>7. PendingSingle' BY <1>0, <1>1, <1>2, <2>1, <2>2 DEF LoginsOK, PendingSingle
  <2>8. OneActive' /\ RevokedCover'
    BY <1>0, <1>1, <1>3, <2>1 DEF LoginsOK, OneActive, RevokedCover, LoginRows
  <2>9. LoginReady'
    BY <1>0, <1>2, <1>3, <2>1, <2>4 DEF LoginsOK, LoginReady, Ready, LoginRows
  <2> QED BY <2>5, <2>6, <2>7, <2>8, <2>9 DEF LoginsOK
<1>6. CASE OnboardEnd(q)
  <2>1. /\ requests'[q].pc = "idle" /\ requests[q].pc = "lookup"
        /\ users' = users /\ lives' = lives
    BY <1>0, <1>6, SetRequestFacts DEF OnboardEnd, Idle
  <2>2. secrets' = secrets \cup Pending(q) BY <1>6 DEF OnboardEnd, Pending, Onboarding
  <2>3. Unsaved(q)' = {} /\ Pending(q)' = {} BY <2>1 DEF Unsaved, Pending, Onboarding
  <2>4. Unsaved(q) = {s.user : s \in Pending(q)} BY <2>1 DEF Unsaved, Pending, Onboarding
  <2>5. /\ \A s \in Pending(q) : s.active /\ s.user \in users /\ LoginRows(s.user)' = {s}
        /\ \A v : (\A s \in Pending(q) : s.user # v) => LoginRows(v)' = LoginRows(v)
        /\ OneActive'
    BY <1>3, <2>2, PendingCommitted
  <2>6. LivesGrow' BY <1>0, <1>1, <1>3, <2>1 DEF LoginsOK, LivesGrow
  <2>7. \A p \in Requests \ {q} : \A v \in Unsaved(p) : LoginRows(v)' = LoginRows(v)
    BY <1>0, <2>4, <2>5 DEF LoginsOK, UnsavedAlone
  <2>8. UnsavedAlone'
    BY <1>0, <1>1, <1>2, <1>3, <2>1, <2>3, <2>7 DEF LoginsOK, UnsavedAlone
  <2>9. PendingSingle' BY <1>0, <1>1, <1>2, <2>1, <2>3 DEF LoginsOK, PendingSingle
  <2>10. RevokedCover'
    <3>1. ASSUME NEW p \in Requests, requests[p].pc = "revoked", NEW v, v = requests[p].user
          PROVE  LoginRows(v)' = LoginRows(v)
      <4>1. \A s \in Pending(q) : s.user \in Unsaved(q) BY <2>4
      <4>2. \A s \in Pending(q) : s.user # v
        BY <1>0, <3>1, <4>1 DEF LoginsOK, UnsavedAlone
      <4> QED BY <2>5, <4>2
    <3> QED BY <1>0, <1>1, <1>3, <2>1, <3>1 DEF LoginsOK, RevokedCover
  <2>11. LoginReady'
    <3> SUFFICES ASSUME NEW v \in users' \ (lost' \cup changed' \cup meddled'),
                        \A p \in Requests : v \notin Unsaved(p)'
                 PROVE  \E s \in secrets' : LoginRows(v)' = {s} /\ s.active
      BY DEF LoginReady, Ready
    <3>1. CASE \E s \in Pending(q) : s.user = v BY <2>2, <2>5, <3>1
    <3>2. CASE \A s \in Pending(q) : s.user # v
      <4>1. \A p \in Requests : v \notin Unsaved(p) BY <1>2, <2>4, <3>2
      <4> QED BY <1>0, <1>3, <2>1, <2>2, <2>5, <3>2, <4>1 DEF LoginsOK, LoginReady, Ready
    <3> QED BY <3>1, <3>2
  <2> QED BY <2>5, <2>6, <2>8, <2>9, <2>10, <2>11 DEF LoginsOK
<1> QED BY <1>4, <1>5, <1>6

LEMMA LoginsInvariant == Spec => []LoginsInv
<1>1. ASSUME LoginsInv, [Next]_vars PROVE LoginsInv'
  <2>1. LoginsOK'
    BY <1>1, QuietLogins, UserLogins, ChangeLogins, OnboardLogins DEF Next
  <2> QED BY <1>1, <2>1, TablesStep DEF LoginsInv
<1> QED BY <1>1, LoginsInit, PTL DEF Spec

(* However changes of password overlap with each other and with batches,   *)
(* only the edits of secrets give a user a second active login.            *)
THEOREM OneLoginEach == Spec => []OneActiveLogin
<1>1. ASSUME LoginsInv, NEW u \in users \ meddled
      PROVE  Cardinality({s \in LoginRows(u) : s.active}) <= 1
  <2> DEFINE rows == {s \in LoginRows(u) : s.active}
  <2>1. \A s, t \in rows : s = t BY <1>1 DEF LoginsInv, LoginsOK, OneActive, LoginRows
  <2> HIDE DEF rows
  <2>2. rows = {} => Cardinality(rows) = 0 BY FS_EmptySet
  <2>3. ASSUME rows # {} PROVE Cardinality(rows) = 1
    <3>1. PICK s : rows = {s} BY <2>1, <2>3
    <3> QED BY <3>1, FS_Singleton
  <2>4. Cardinality(rows) <= 1 BY <2>2, <2>3
  <2> QED BY <2>4 DEF rows
<1>2. LoginsInv => OneActiveLogin BY <1>1 DEF OneActiveLogin
<1> QED BY <1>2, LoginsInvariant, PTL

(* Whoever is not in the making, was not lost with a batch and changed     *)
(* neither password nor secrets can log in.                                *)
THEOREM OnlyTheseLockedOut == Spec => []LockedOutOnly
<1>1. LoginsInv => LockedOutOnly
  <2> SUFFICES ASSUME LoginsInv, NEW u \in users \ (lost \cup changed \cup meddled),
                      \A q \in Requests : u \notin Unsaved(q)
               PROVE  CanLogin(u)
    BY DEF LockedOutOnly
  <2>1. Ready(u) BY DEF LoginsInv, LoginsOK, LoginReady
  <2> QED BY <2>1 DEF Ready, CanLogin, UsableSecret
<1> QED BY <1>1, LoginsInvariant, PTL

=============================================================================
