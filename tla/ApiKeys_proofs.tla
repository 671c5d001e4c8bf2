--------------------------- MODULE ApiKeys_proofs ----------------------------
(***************************************************************************)
(* Proofs that the list of API keys follows the table, for any users, keys *)
(* and requests and any limit.                                             *)
(***************************************************************************)
EXTENDS ApiKeys, TLAPS, FiniteSetTheorems

(* What a request's record holds in each of its states. *)
LEMMA RequestKinds ==
  \A q \in RequestStates :
    /\ q.pc \in {"none", "checked", "stored", "deleting", "deleted", "revoking", "revoked"}
    /\ q.pc = "none" <=> q = NoRequest
    /\ q.pc = "checked" => q \in [pc : {"checked"}, user : Users, label : Labels]
    /\ q.pc \in {"stored", "deleting", "deleted"}
         => q \in [pc : {"stored", "deleting", "deleted"}, user : Users, key : Keys]
    /\ q.pc \in {"revoking", "revoked"}
         => q \in [pc : {"revoking", "revoked"}, user : Users, keys : SUBSET Keys]
  BY DEF RequestStates, NoRequest

(* Deactivating a row keeps it a row. *)
LEMMA DeactivatedRow ==
  \A row \in Row \cup {NoRow} : [row EXCEPT !.active = FALSE] \in Row \cup {NoRow}
  BY DEF Row, NoRow

LEMMA TypeStep == ASSUME TypeOK, [Next]_vars PROVE TypeOK'
<1> USE RequestKinds DEF TypeOK, SetRequest, Finish, history
<1>1. ASSUME NEW r \in Requests, NEW u \in Users, NEW label \in Labels, GenerateCheck(r, u, label)
      PROVE  TypeOK'
  BY <1>1 DEF GenerateCheck, RequestStates
<1>2. ASSUME NEW r \in Requests, NEW k \in Keys, GenerateCommit(r, k) PROVE TypeOK'
  <2>1. requests[r] \in [pc : {"checked"}, user : Users, label : Labels]
    BY <1>2 DEF GenerateCommit
  <2>2. requests' \in [Requests -> RequestStates]
    BY <1>2, <2>1 DEF GenerateCommit, RequestStates
  <2> DEFINE row == [user |-> requests[r].user, label |-> requests[r].label, active |-> TRUE]
  <2>4. row \in Row BY <2>1 DEF Row
  <2>5. rows' = [rows EXCEPT ![k] = row] \/ rows' = rows BY <1>2 DEF GenerateCommit
  <2> HIDE DEF row
  <2>3. rows' \in [Keys -> Row \cup {NoRow}]
    BY <2>4, <2>5
  <2> QED BY <1>2, <2>2, <2>3 DEF GenerateCommit
<1>3. ASSUME NEW r \in Requests, GenerateCache(r) PROVE TypeOK'
  BY <1>3 DEF GenerateCache, RequestStates
<1>4. ASSUME NEW r \in Requests, NEW u \in Users, NEW label \in Labels, DeleteExecute(r, u, label)
      PROVE  TypeOK'
  BY <1>4 DEF DeleteExecute, RequestStates, KeysOf
<1>5. ASSUME NEW r \in Requests, DeleteCommit(r) PROVE TypeOK'
  <2>1. requests[r] \in [pc : {"stored", "deleting", "deleted"}, user : Users, key : Keys]
    BY <1>5 DEF DeleteCommit
  <2>2. requests' \in [Requests -> RequestStates]
    BY <1>5, <2>1 DEF DeleteCommit, RequestStates
  <2> QED BY <1>5, <2>1, <2>2 DEF DeleteCommit
<1>6. ASSUME NEW r \in Requests, DeleteUncache(r) PROVE TypeOK'
  BY <1>6 DEF DeleteUncache, RequestStates, Remaining
<1>7. ASSUME NEW r \in Requests, NEW u \in Users, ChangeRevoke(r, u) PROVE TypeOK'
  BY <1>7 DEF ChangeRevoke, RequestStates, KeysOf
<1>8. ASSUME NEW r \in Requests, ChangeCommit(r) PROVE TypeOK'
  <2>1. requests[r] \in [pc : {"revoking", "revoked"}, user : Users, keys : SUBSET Keys]
    BY <1>8 DEF ChangeCommit
  <2>2. requests' \in [Requests -> RequestStates]
    BY <1>8, <2>1 DEF ChangeCommit, RequestStates
  <2>3. rows' \in [Keys -> Row \cup {NoRow}]
    BY <1>8, DeactivatedRow DEF ChangeCommit
  <2> QED BY <1>8, <2>2, <2>3 DEF ChangeCommit
<1>9. ASSUME NEW r \in Requests, ChangeInvalidate(r) PROVE TypeOK'
  BY <1>9 DEF ChangeInvalidate, RequestStates
<1>10. ASSUME NEW r \in Requests, RequestFail(r) PROVE TypeOK'
  BY <1>10 DEF RequestFail, RequestStates
<1>11. ASSUME NEW u \in Users, DeleteUser(u) PROVE TypeOK'
  BY <1>11 DEF DeleteUser
<1>12. CASE Restart
  BY <1>12 DEF Restart, RequestStates
<1>13. CASE UNCHANGED vars
  BY <1>13 DEF vars
<1> QED
  BY <1>1, <1>2, <1>3, <1>4, <1>5, <1>6, <1>7, <1>8, <1>9, <1>10, <1>11, <1>12, <1>13 DEF Next

(* Types hold at the start. *)
LEMMA TypeInit == Init => TypeOK
  BY ParametersAssumption DEF Init, TypeOK, RequestStates

-----------------------------------------------------------------------------
(* The rows and the requests agree on whose key a key is, and a generate   *)
(* that overlaps a password change of its user has been noted.             *)
Owned ==
  /\ \A k \in Keys : rows[k] # NoRow => rows[k].user = owner[k]
  /\ \A k \in Keys : Active(k) => owner[k] \in users
  /\ \A r \in Requests :
       /\ requests[r].pc \in {"stored", "deleting", "deleted"}
            => requests[r].user = owner[requests[r].key]
       /\ requests[r].pc \in {"revoking", "revoked"}
            => \A k \in requests[r].keys : owner[k] = requests[r].user

RacesNoted == \A u \in Users : Generating(u) /\ Changing(u) => u \in raced

(* Why a key that is in the list, or about to be, is rightly there.        *)
Excused(k) ==
  \/ Active(k) \/ owner[k] \notin users
  \/ owner[k] \in raced \cup broken \/ k \in removed
  \/ \E r \in Requests : requests[r].pc = "deleted" /\ requests[r].key = k
  \/ \E r \in Requests : requests[r].pc = "revoked" /\ requests[r].user = owner[k]

ListedAreExcused ==
  /\ \A k \in cache : Excused(k)
  /\ \A r \in Requests : requests[r].pc = "stored" => Excused(requests[r].key)

(* Why an active key is in the list, or rightly not.                       *)
Expected(k) ==
  \/ k \in cache \/ owner[k] \in raced \cup broken
  \/ \E r \in Requests : requests[r].pc = "stored" /\ requests[r].key = k
  \/ \E r \in Requests : requests[r].pc = "revoked" /\ requests[r].user = owner[k]

ActiveAreExpected == \A k \in Keys : Active(k) => Expected(k)

(* A password change knows every active key of its user.                   *)
ChangesKnow ==
  \A r \in Requests, k \in Keys :
    Active(k) /\ requests[r].pc \in {"revoking", "revoked"} /\ owner[k] = requests[r].user
      => owner[k] \in raced \/ (requests[r].pc = "revoking" /\ k \in requests[r].keys)

ListInv == TypeOK /\ Owned /\ RacesNoted /\ ListedAreExcused /\ ActiveAreExpected /\ ChangesKnow

LEMMA ListInit == Init => ListInv
  BY TypeInit DEF Init, ListInv, Owned, RacesNoted, ListedAreExcused, ActiveAreExpected,
     ChangesKnow, Active, Generating, NoRequest

(* Only the request that takes a step changes its record.                  *)
LEMMA SetRequestFacts ==
  ASSUME TypeOK, NEW r \in Requests, NEW q, SetRequest(r, q)
  PROVE  requests'[r] = q /\ \A x \in Requests \ {r} : requests'[x] = requests[x]
  BY DEF TypeOK, SetRequest

LEMMA ListStep == ASSUME ListInv, [Next]_vars PROVE ListInv'
<1> USE DEF history
<1>t. TypeOK /\ TypeOK' BY TypeStep DEF ListInv
<1>o. Owned /\ RacesNoted /\ ListedAreExcused /\ ActiveAreExpected /\ ChangesKnow BY DEF ListInv
<1>k. owner \in [Keys -> Users] /\ cache \in SUBSET Keys BY <1>t DEF TypeOK
<1>s. \A x \in Requests :
        /\ requests[x].pc \in {"stored", "deleting", "deleted"} => requests[x].key \in Keys
        /\ requests'[x].pc \in {"stored", "deleting", "deleted"} => requests'[x].key \in Keys
  BY <1>t, RequestKinds DEF TypeOK
<1>1. ASSUME NEW r \in Requests, NEW u \in Users, NEW label \in Labels, GenerateCheck(r, u, label)
      PROVE  ListInv'
  <2>0. \A x \in Requests \ {r} : requests'[x] = requests[x]
    BY <1>t, <1>1, SetRequestFacts DEF GenerateCheck, Finish
  <2>r. requests'[r].pc = "checked" /\ requests'[r].user = u
    BY <1>t, <1>1, SetRequestFacts DEF GenerateCheck, Finish, NoRequest, TypeOK
  <2>p. requests[r].pc = "none" BY <1>1 DEF GenerateCheck, NoRequest
  <2>1. Owned' BY <1>k, <1>o, <1>1, <2>0, <2>r DEF GenerateCheck, Active, Owned
  <2>2. RacesNoted'
    BY <1>k, <1>o, <1>1, <2>0, <2>r DEF GenerateCheck, Active, RacesNoted, Generating, Changing
  <2>3. ListedAreExcused'
    <3>1. ASSUME NEW x \in Keys, Excused(x) PROVE Excused(x)'
      BY <1>k, <1>o, <1>1, <2>0, <2>r, <2>p, <3>1 DEF GenerateCheck, Active, Excused, Owned
    <3> QED BY <1>k, <1>o, <1>s, <1>1, <2>0, <2>r, <3>1 DEF GenerateCheck, ListedAreExcused
  <2>4. ActiveAreExpected'
    <3> SUFFICES ASSUME NEW x \in Keys, Active(x)' PROVE Expected(x)' BY DEF ActiveAreExpected
    <3>1. Active(x) /\ Expected(x) BY <1>o, <1>1 DEF GenerateCheck, ActiveAreExpected, Active
    <3> QED BY <1>1, <2>0, <2>r, <2>p, <3>1 DEF GenerateCheck, Expected
  <2>5. ChangesKnow'
    BY <1>k, <1>o, <1>1, <2>0, <2>r
       DEF GenerateCheck, Active, Owned, ChangesKnow, RacesNoted, Generating, Changing
  <2> QED BY <1>t, <2>1, <2>2, <2>3, <2>4, <2>5 DEF ListInv
<1>2. ASSUME NEW r \in Requests, NEW k \in Keys, GenerateCommit(r, k)
      PROVE  ListInv'
  <2>0. \A x \in Requests \ {r} : requests'[x] = requests[x]
    BY <1>t, <1>2, SetRequestFacts DEF GenerateCommit, Finish
  <2>r. \/ requests'[r].pc = "none" /\ rows' = rows
        \/ /\ requests'[r].pc = "stored" /\ requests'[r].key = k
           /\ requests'[r].user = requests[r].user /\ owner[k] = requests[r].user
           /\ requests[r].user \in users
           /\ rows'[k] # NoRow /\ rows'[k].user = owner[k] /\ rows'[k].active
           /\ \A x \in Keys \ {k} : rows'[x] = rows[x]
    BY <1>t, <1>2, SetRequestFacts, RequestKinds
       DEF GenerateCommit, NoRow, Finish, NoRequest, TypeOK
  <2>1. Owned' BY <1>k, <1>o, <1>2, <2>0, <2>r DEF GenerateCommit, Active, Owned
  <2>2. RacesNoted'
    BY <1>k, <1>o, <1>2, <2>0, <2>r DEF GenerateCommit, Active, RacesNoted, Generating, Changing
  <2>3. ListedAreExcused'
    <3>1. ASSUME NEW x \in Keys, Excused(x) PROVE Excused(x)'
      BY <1>k, <1>o, <1>2, <2>0, <2>r, <3>1 DEF GenerateCommit, Active, Excused, Owned
    <3> QED
      BY <1>k, <1>o, <1>s, <1>2, <2>0, <2>r, <3>1
         DEF GenerateCommit, ListedAreExcused, Excused, Active
  <2>4. ActiveAreExpected'
    BY <1>k, <1>o, <1>2, <2>0, <2>r
       DEF GenerateCommit, Active, Owned, ActiveAreExpected, Expected, ChangesKnow
  <2>5. ChangesKnow'
    BY <1>k, <1>o, <1>2, <2>0, <2>r
       DEF GenerateCommit, Active, Owned, ChangesKnow, RacesNoted, Generating, Changing
  <2> QED BY <1>t, <2>1, <2>2, <2>3, <2>4, <2>5 DEF ListInv
<1>3. ASSUME NEW r \in Requests, GenerateCache(r)
      PROVE  ListInv'
  <2>0. \A x \in Requests \ {r} : requests'[x] = requests[x]
    BY <1>t, <1>3, SetRequestFacts DEF GenerateCache, Finish
  <2>r. requests'[r].pc = "none"
    BY <1>t, <1>3, SetRequestFacts DEF GenerateCache, Finish, NoRequest, TypeOK
  <2>1. Owned' BY <1>k, <1>o, <1>3, <2>0, <2>r DEF GenerateCache, Active, Owned
  <2>2. RacesNoted'
    BY <1>k, <1>o, <1>3, <2>0, <2>r DEF GenerateCache, Active, RacesNoted, Generating, Changing
  <2>3. ListedAreExcused'
    <3>1. ASSUME NEW x \in Keys, Excused(x) PROVE Excused(x)'
      BY <1>k, <1>o, <1>3, <2>0, <2>r, <3>1 DEF GenerateCache, Active, Excused, Owned
    <3> QED BY <1>k, <1>o, <1>s, <1>3, <2>0, <2>r, <3>1 DEF GenerateCache, ListedAreExcused
  <2>4. ActiveAreExpected'
    BY <1>k, <1>o, <1>3, <2>0, <2>r
       DEF GenerateCache, Active, Owned, ActiveAreExpected, Expected, ChangesKnow
  <2>5. ChangesKnow'
    BY <1>k, <1>o, <1>3, <2>0, <2>r
       DEF GenerateCache, Active, Owned, ChangesKnow, RacesNoted, Generating, Changing
  <2> QED BY <1>t, <2>1, <2>2, <2>3, <2>4, <2>5 DEF ListInv
<1>4. ASSUME NEW r \in Requests, NEW u \in Users, NEW label \in Labels, DeleteExecute(r, u, label)
      PROVE  ListInv'
  <2>0. \A x \in Requests \ {r} : requests'[x] = requests[x]
    BY <1>t, <1>4, SetRequestFacts DEF DeleteExecute, Finish
  <2>r. requests'[r].pc = "deleting" /\ requests'[r].user = u
        /\ requests'[r].key \in KeysOf(u)
    BY <1>t, <1>4, SetRequestFacts DEF DeleteExecute, Finish, NoRequest, TypeOK
  <2>p. requests[r].pc = "none" BY <1>4 DEF DeleteExecute, NoRequest
  <2>1. Owned' BY <1>k, <1>o, <1>4, <2>0, <2>r DEF DeleteExecute, KeysOf, Active, Owned
  <2>2. RacesNoted'
    BY <1>k, <1>o, <1>4, <2>0, <2>r
       DEF DeleteExecute, KeysOf, Active, RacesNoted, Generating, Changing
  <2>3. ListedAreExcused'
    <3>1. ASSUME NEW x \in Keys, Excused(x) PROVE Excused(x)'
      BY <1>k, <1>o, <1>4, <2>0, <2>r, <2>p, <3>1 DEF DeleteExecute, Active, Excused, Owned
    <3> QED BY <1>k, <1>o, <1>s, <1>4, <2>0, <2>r, <3>1 DEF DeleteExecute, ListedAreExcused
  <2>4. ActiveAreExpected'
    <3> SUFFICES ASSUME NEW x \in Keys, Active(x)' PROVE Expected(x)' BY DEF ActiveAreExpected
    <3>1. Active(x) /\ Expected(x) BY <1>o, <1>4 DEF DeleteExecute, ActiveAreExpected, Active
    <3> QED BY <1>4, <2>0, <2>r, <2>p, <3>1 DEF DeleteExecute, Expected
  <2>5. ChangesKnow'
    BY <1>k, <1>o, <1>4, <2>0, <2>r
       DEF DeleteExecute, KeysOf, Active, Owned, ChangesKnow, RacesNoted, Generating, Changing
  <2> QED BY <1>t, <2>1, <2>2, <2>3, <2>4, <2>5 DEF ListInv
<1>5. ASSUME NEW r \in Requests, DeleteCommit(r)
      PROVE  ListInv'
  <2>0. \A x \in Requests \ {r} : requests'[x] = requests[x]
    BY <1>t, <1>5, SetRequestFacts DEF DeleteCommit, Finish
  <2>r. /\ requests'[r].pc = "deleted" /\ requests'[r].user = requests[r].user
        /\ requests'[r].key = requests[r].key /\ requests[r].key \in Keys
        /\ rows'[requests[r].key] = NoRow
        /\ \A x \in Keys \ {requests[r].key} : rows'[x] = rows[x]
    BY <1>t, <1>5, SetRequestFacts, RequestKinds DEF DeleteCommit, Finish, NoRequest, TypeOK
  <2>1. Owned' BY <1>k, <1>o, <1>5, <2>0, <2>r DEF DeleteCommit, Active, Owned
  <2>2. RacesNoted'
    BY <1>k, <1>o, <1>5, <2>0, <2>r DEF DeleteCommit, Active, RacesNoted, Generating, Changing
  <2>3. ListedAreExcused'
    <3>1. ASSUME NEW x \in Keys, Excused(x) PROVE Excused(x)'
      BY <1>k, <1>o, <1>5, <2>0, <2>r, <3>1 DEF DeleteCommit, Active, Excused, Owned
    <3> QED BY <1>k, <1>o, <1>s, <1>5, <2>0, <2>r, <3>1 DEF DeleteCommit, ListedAreExcused
  <2>4. ActiveAreExpected'
    BY <1>k, <1>o, <1>5, <2>0, <2>r
       DEF DeleteCommit, Active, Owned, ActiveAreExpected, Expected, ChangesKnow
  <2>5. ChangesKnow'
    BY <1>k, <1>o, <1>5, <2>0, <2>r
       DEF DeleteCommit, Active, Owned, ChangesKnow, RacesNoted, Generating, Changing
  <2> QED BY <1>t, <2>1, <2>2, <2>3, <2>4, <2>5 DEF ListInv
<1>6. ASSUME NEW r \in Requests, DeleteUncache(r)
      PROVE  ListInv'
  <2>0. \A x \in Requests \ {r} : requests'[x] = requests[x]
    BY <1>t, <1>6, SetRequestFacts DEF DeleteUncache, Finish
  <2>r. requests'[r].pc = "none" /\ cache' = cache
    BY <1>t, <1>6, SetRequestFacts
       DEF DeleteUncache, Remaining, Verifies, Raw, Hash, Finish, NoRequest, TypeOK
  <2>1. Owned' BY <1>k, <1>o, <1>6, <2>0, <2>r DEF DeleteUncache, Active, Owned
  <2>2. RacesNoted'
    BY <1>k, <1>o, <1>6, <2>0, <2>r DEF DeleteUncache, Active, RacesNoted, Generating, Changing
  <2>3. ListedAreExcused'
    <3>1. ASSUME NEW x \in Keys, Excused(x) PROVE Excused(x)'
      BY <1>k, <1>o, <1>6, <2>0, <2>r, <3>1 DEF DeleteUncache, Active, Excused, Owned
    <3> QED BY <1>k, <1>o, <1>s, <1>6, <2>0, <2>r, <3>1 DEF DeleteUncache, ListedAreExcused
  <2>4. ActiveAreExpected'
    BY <1>k, <1>o, <1>6, <2>0, <2>r
       DEF DeleteUncache, Active, Owned, ActiveAreExpected, Expected, ChangesKnow
  <2>5. ChangesKnow'
    BY <1>k, <1>o, <1>6, <2>0, <2>r
       DEF DeleteUncache, Active, Owned, ChangesKnow, RacesNoted, Generating, Changing
  <2> QED BY <1>t, <2>1, <2>2, <2>3, <2>4, <2>5 DEF ListInv
<1>7. ASSUME NEW r \in Requests, NEW u \in Users, ChangeRevoke(r, u)
      PROVE  ListInv'
  <2>0. \A x \in Requests \ {r} : requests'[x] = requests[x]
    BY <1>t, <1>7, SetRequestFacts DEF ChangeRevoke, Finish
  <2>r. /\ requests'[r].pc = "revoking" /\ requests'[r].user = u
        /\ requests'[r].keys = {k \in KeysOf(u) : rows[k].active}
    BY <1>t, <1>7, SetRequestFacts DEF ChangeRevoke, Finish, NoRequest, TypeOK
  <2>p. requests[r].pc = "none" BY <1>7 DEF ChangeRevoke, NoRequest
  <2>1. Owned' BY <1>k, <1>o, <1>7, <2>0, <2>r DEF ChangeRevoke, KeysOf, Active, Owned
  <2>2. RacesNoted'
    BY <1>k, <1>o, <1>7, <2>0, <2>r
       DEF ChangeRevoke, KeysOf, Active, RacesNoted, Generating, Changing
  <2>3. ListedAreExcused'
    <3>1. ASSUME NEW x \in Keys, Excused(x) PROVE Excused(x)'
      BY <1>k, <1>o, <1>7, <2>0, <2>r, <2>p, <3>1 DEF ChangeRevoke, Active, Excused, Owned
    <3> QED BY <1>k, <1>o, <1>s, <1>7, <2>0, <2>r, <3>1 DEF ChangeRevoke, ListedAreExcused
  <2>4. ActiveAreExpected'
    <3> SUFFICES ASSUME NEW x \in Keys, Active(x)' PROVE Expected(x)' BY DEF ActiveAreExpected
    <3>1. Active(x) /\ Expected(x) BY <1>o, <1>7 DEF ChangeRevoke, ActiveAreExpected, Active
    <3> QED BY <1>7, <2>0, <2>r, <2>p, <3>1 DEF ChangeRevoke, Expected
  <2>5. ChangesKnow'
    BY <1>k, <1>o, <1>7, <2>0, <2>r
       DEF ChangeRevoke, KeysOf, Active, Owned, ChangesKnow, RacesNoted, Generating, Changing
  <2> QED BY <1>t, <2>1, <2>2, <2>3, <2>4, <2>5 DEF ListInv
<1>8. ASSUME NEW r \in Requests, ChangeCommit(r)
      PROVE  ListInv'
  <2>0. \A x \in Requests \ {r} : requests'[x] = requests[x]
    BY <1>t, <1>8, SetRequestFacts DEF ChangeCommit, Finish
  <2>r. /\ requests'[r].pc = "revoked" /\ requests'[r].user = requests[r].user
        /\ requests'[r].keys = requests[r].keys
        /\ \A k \in Keys :
             /\ k \notin requests[r].keys => rows'[k] = rows[k]
             /\ rows'[k] # NoRow => rows[k] # NoRow /\ rows'[k].user = rows[k].user
             /\ rows'[k] # NoRow /\ rows'[k].active => rows[k].active /\ k \notin requests[r].keys
    BY <1>t, <1>8, SetRequestFacts, RequestKinds
       DEF ChangeCommit, NoRow, Finish, NoRequest, TypeOK
  <2>1. Owned'
    <3>1. \A x \in Requests : requests'[x].pc \in {"stored", "deleting", "deleted"}
                             => requests'[x].user = owner[requests'[x].key]
      BY <1>o, <2>0, <2>r DEF Owned
    <3>2. \A x \in Requests : requests'[x].pc \in {"revoking", "revoked"}
             => \A k \in requests'[x].keys : owner[k] = requests'[x].user
      BY <1>o, <1>8, <2>0, <2>r DEF ChangeCommit, Owned
    <3>3. ASSUME NEW k \in Keys
          PROVE  (rows'[k] # NoRow => rows'[k].user = owner[k]) /\ (Active(k)' => owner[k] \in users)
      <4>1. /\ rows'[k] # NoRow => rows[k] # NoRow /\ rows'[k].user = rows[k].user
            /\ Active(k)' => Active(k)
        BY <2>r DEF Active
      <4> QED BY <1>o, <4>1 DEF Owned
    <3>4. users' = users /\ owner' = owner BY <1>8 DEF ChangeCommit
    <3> QED BY <3>1, <3>2, <3>3, <3>4 DEF Owned
  <2>2. RacesNoted'
    BY <1>k, <1>o, <1>8, <2>0, <2>r DEF ChangeCommit, Active, RacesNoted, Generating, Changing
  <2>3. ListedAreExcused'
    <3>1. ASSUME NEW x \in Keys, Excused(x) PROVE Excused(x)'
      BY <1>k, <1>o, <1>8, <2>0, <2>r, <3>1 DEF ChangeCommit, Active, Excused, Owned
    <3> QED BY <1>k, <1>o, <1>s, <1>8, <2>0, <2>r, <3>1 DEF ChangeCommit, ListedAreExcused
  <2>4. ActiveAreExpected'
    BY <1>k, <1>o, <1>8, <2>0, <2>r
       DEF ChangeCommit, Active, Owned, ActiveAreExpected, Expected, ChangesKnow
  <2>5. ChangesKnow'
    BY <1>k, <1>o, <1>8, <2>0, <2>r
       DEF ChangeCommit, Active, Owned, ChangesKnow, RacesNoted, Generating, Changing
  <2> QED BY <1>t, <2>1, <2>2, <2>3, <2>4, <2>5 DEF ListInv
<1>9. ASSUME NEW r \in Requests, ChangeInvalidate(r)
      PROVE  ListInv'
  <2>0. \A x \in Requests \ {r} : requests'[x] = requests[x]
    BY <1>t, <1>9, SetRequestFacts DEF ChangeInvalidate, Finish
  <2>r. requests'[r].pc = "none"
    BY <1>t, <1>9, SetRequestFacts DEF ChangeInvalidate, Finish, NoRequest, TypeOK
  <2>1. Owned' BY <1>k, <1>o, <1>9, <2>0, <2>r DEF ChangeInvalidate, Active, Owned
  <2>2. RacesNoted'
    BY <1>k, <1>o, <1>9, <2>0, <2>r
       DEF ChangeInvalidate, Active, RacesNoted, Generating, Changing
  <2>3. ListedAreExcused'
    <3>1. ASSUME NEW x \in Keys, Excused(x), owner[x] # requests[r].user PROVE Excused(x)'
      BY <1>9, <2>0, <2>r, <3>1 DEF ChangeInvalidate, Active, Excused
    <3>2. \A x \in cache' : x \in cache /\ owner[x] # requests[r].user
      BY <1>9 DEF ChangeInvalidate
    <3>3. ASSUME NEW x \in Requests, NEW k, requests'[x].pc = "stored", k = requests'[x].key
          PROVE  Excused(k)'
      <4>1. requests[x].pc = "stored" /\ requests'[x] = requests[x] /\ x # r BY <2>0, <2>r, <3>3
      <4>2. Excused(k) /\ k \in Keys BY <1>o, <1>s, <3>3, <4>1 DEF ListedAreExcused
      <4>3. CASE owner[k] # requests[r].user BY <3>1, <4>2, <4>3
      <4>4. CASE owner[k] = requests[r].user
        <5>1. owner[k] \in raced
          BY <1>k, <1>o, <1>9, <3>3, <4>1, <4>2, <4>4
             DEF ChangeInvalidate, Owned, RacesNoted, Generating, Changing
        <5> QED BY <1>9, <5>1 DEF ChangeInvalidate, Excused
      <4> QED BY <4>3, <4>4
    <3> QED BY <1>k, <1>o, <3>1, <3>2, <3>3 DEF ListedAreExcused
  <2>4. ActiveAreExpected'
    BY <1>k, <1>o, <1>9, <2>0, <2>r
       DEF ChangeInvalidate, Active, Owned, ActiveAreExpected, Expected, ChangesKnow
  <2>5. ChangesKnow'
    BY <1>k, <1>o, <1>9, <2>0, <2>r
       DEF ChangeInvalidate, Active, Owned, ChangesKnow, RacesNoted, Generating, Changing
  <2> QED BY <1>t, <2>1, <2>2, <2>3, <2>4, <2>5 DEF ListInv
<1>10. ASSUME NEW r \in Requests, RequestFail(r)
      PROVE  ListInv'
  <2>0. \A x \in Requests \ {r} : requests'[x] = requests[x]
    BY <1>t, <1>10, SetRequestFacts DEF RequestFail, Finish
  <2>r. requests'[r].pc = "none"
    BY <1>t, <1>10, SetRequestFacts DEF RequestFail, Finish, NoRequest, TypeOK
  <2>1. Owned' BY <1>k, <1>o, <1>10, <2>0, <2>r DEF RequestFail, Active, Owned
  <2>2. RacesNoted'
    BY <1>k, <1>o, <1>10, <2>0, <2>r DEF RequestFail, Active, RacesNoted, Generating, Changing
  <2>3. ListedAreExcused'
    <3>1. ASSUME NEW x \in Keys, Excused(x) PROVE Excused(x)'
      BY <1>k, <1>o, <1>10, <2>0, <2>r, <3>1 DEF RequestFail, Active, Excused, Owned
    <3> QED BY <1>k, <1>o, <1>s, <1>10, <2>0, <2>r, <3>1 DEF RequestFail, ListedAreExcused
  <2>4. ActiveAreExpected'
    BY <1>k, <1>o, <1>10, <2>0, <2>r
       DEF RequestFail, Active, Owned, ActiveAreExpected, Expected, ChangesKnow
  <2>5. ChangesKnow'
    BY <1>k, <1>o, <1>10, <2>0, <2>r
       DEF RequestFail, Active, Owned, ChangesKnow, RacesNoted, Generating, Changing
  <2> QED BY <1>t, <2>1, <2>2, <2>3, <2>4, <2>5 DEF ListInv
<1>11. ASSUME NEW u \in Users, DeleteUser(u) PROVE ListInv'
  <2>r. \A k \in Keys : rows'[k] = IF k \in KeysOf(u) THEN NoRow ELSE rows[k]
    BY <1>11 DEF DeleteUser
  <2>1. Owned' BY <1>k, <1>o, <1>11, <2>r DEF DeleteUser, KeysOf, Active, Owned
  <2>2. RacesNoted'
    BY <1>k, <1>o, <1>11, <2>r DEF DeleteUser, KeysOf, Active, RacesNoted, Generating, Changing
  <2>3. ListedAreExcused'
    <3>1. ASSUME NEW x \in Keys, Excused(x) PROVE Excused(x)'
      BY <1>k, <1>o, <1>11, <2>r, <3>1 DEF DeleteUser, KeysOf, Active, Excused, Owned
    <3> QED BY <1>k, <1>o, <1>s, <1>11, <3>1 DEF DeleteUser, ListedAreExcused
  <2>4. ActiveAreExpected'
    BY <1>k, <1>o, <1>11, <2>r
       DEF DeleteUser, KeysOf, Active, Owned, ActiveAreExpected, Expected
  <2>5. ChangesKnow'
    BY <1>k, <1>o, <1>11, <2>r DEF DeleteUser, KeysOf, Active, Owned, ChangesKnow
  <2> QED BY <1>t, <2>1, <2>2, <2>3, <2>4, <2>5 DEF ListInv
<1>12. CASE Restart
  <2>r. \A r \in Requests : requests'[r].pc = "none"
    BY <1>12 DEF Restart, NoRequest
  <2> QED BY <1>t, <1>o, <1>k, <1>12, <2>r DEF Restart, ListInv, Owned, RacesNoted, Generating,
          Changing, ListedAreExcused, Excused, ActiveAreExpected, Expected, ChangesKnow, Active
<1>13. CASE UNCHANGED vars
  BY <1>t, <1>o, <1>13 DEF vars, ListInv, Owned, RacesNoted, Generating, Changing,
     ListedAreExcused, Excused, ActiveAreExpected, Expected, ChangesKnow, Active
<1> QED
  BY <1>1, <1>2, <1>3, <1>4, <1>5, <1>6, <1>7, <1>8, <1>9, <1>10, <1>11, <1>12, <1>13 DEF Next

-----------------------------------------------------------------------------
(* A request past the check counts as the key it is about to make.         *)
CheckedOf(u) == {r \in Requests : requests[r].pc = "checked" /\ requests[r].user = u}

LimitInv ==
  \A u \in Users :
    Cardinality(KeysOf(u)) + Cardinality(CheckedOf(u)) < MaxKeysPerUser + Cardinality(Requests)

LEMMA CountsAreNumbers ==
  \A u : /\ IsFiniteSet(KeysOf(u)) /\ Cardinality(KeysOf(u)) \in Nat
         /\ IsFiniteSet(CheckedOf(u)) /\ Cardinality(CheckedOf(u)) \in Nat
         /\ Cardinality(CheckedOf(u)) <= Cardinality(Requests) /\ Cardinality(Requests) \in Nat
<1> TAKE u
<1>1. KeysOf(u) \subseteq Keys /\ CheckedOf(u) \subseteq Requests BY DEF KeysOf, CheckedOf
<1> QED BY <1>1, ParametersAssumption, FS_Subset, FS_CardinalityType

(* Who loses keys or checked requests and gains none stays below the limit. *)
LEMMA FewerIsFine ==
  ASSUME NEW u, KeysOf(u)' \subseteq KeysOf(u), CheckedOf(u)' \subseteq CheckedOf(u),
         Cardinality(KeysOf(u)) + Cardinality(CheckedOf(u))
           < MaxKeysPerUser + Cardinality(Requests)
  PROVE  Cardinality(KeysOf(u)') + Cardinality(CheckedOf(u)')
           < MaxKeysPerUser + Cardinality(Requests)
<1>1. /\ Cardinality(KeysOf(u)') <= Cardinality(KeysOf(u))
      /\ Cardinality(CheckedOf(u)') <= Cardinality(CheckedOf(u))
  BY CountsAreNumbers, FS_Subset
<1>2. Cardinality(KeysOf(u)') \in Nat /\ Cardinality(CheckedOf(u)') \in Nat
  BY CountsAreNumbers, FS_Subset, FS_CardinalityType
<1> QED BY <1>1, <1>2, CountsAreNumbers, ParametersAssumption

LEMMA LimitInit == Init => LimitInv
<1> SUFFICES ASSUME Init, NEW u \in Users
             PROVE  Cardinality(KeysOf(u)) + Cardinality(CheckedOf(u))
                      < MaxKeysPerUser + Cardinality(Requests)
  BY DEF LimitInv
<1>1. KeysOf(u) = {} /\ CheckedOf(u) = {} BY DEF Init, KeysOf, CheckedOf, NoRequest
<1> QED BY <1>1, FS_EmptySet, CountsAreNumbers, ParametersAssumption

LEMMA LimitStep == ASSUME TypeOK, LimitInv, [Next]_vars PROVE LimitInv'
<1> SUFFICES ASSUME NEW u \in Users
             PROVE  Cardinality(KeysOf(u)') + Cardinality(CheckedOf(u)')
                      < MaxKeysPerUser + Cardinality(Requests)
  BY DEF LimitInv
<1>0. Cardinality(KeysOf(u)) + Cardinality(CheckedOf(u)) < MaxKeysPerUser + Cardinality(Requests)
  BY DEF LimitInv
<1> DEFINE Fewer == KeysOf(u)' \subseteq KeysOf(u) /\ CheckedOf(u)' \subseteq CheckedOf(u)
<1>f. SUFFICES ASSUME ~Fewer
               PROVE  Cardinality(KeysOf(u)') + Cardinality(CheckedOf(u)')
                        < MaxKeysPerUser + Cardinality(Requests)
  BY <1>0, FewerIsFine
<1> USE DEF history
<1>1. ASSUME NEW r \in Requests, NEW v \in Users, NEW label \in Labels, GenerateCheck(r, v, label)
      PROVE  Cardinality(KeysOf(u)') + Cardinality(CheckedOf(u)')
               < MaxKeysPerUser + Cardinality(Requests)
  <2>1. requests'[r].user = v /\ \A x \in Requests \ {r} : requests'[x] = requests[x]
    BY <1>1, SetRequestFacts DEF GenerateCheck
  <2>2. KeysOf(u)' = KeysOf(u) BY <1>1 DEF GenerateCheck, KeysOf
  <2>3. v # u => CheckedOf(u)' \subseteq CheckedOf(u) BY <2>1 DEF CheckedOf
  <2>4. v = u BY <1>f, <2>2, <2>3
  <2>5. Cardinality(KeysOf(u)) < MaxKeysPerUser BY <1>1, <2>4 DEF GenerateCheck
  <2>6. CheckedOf(u)' \subseteq Requests BY DEF CheckedOf
  <2>7. /\ Cardinality(CheckedOf(u)') <= Cardinality(Requests)
        /\ Cardinality(CheckedOf(u)') \in Nat
    BY <2>6, ParametersAssumption, FS_Subset, FS_CardinalityType
  <2> QED BY <2>2, <2>5, <2>7, CountsAreNumbers, ParametersAssumption
<1>2. ASSUME NEW r \in Requests, NEW k \in Keys, GenerateCommit(r, k)
      PROVE  Cardinality(KeysOf(u)') + Cardinality(CheckedOf(u)')
               < MaxKeysPerUser + Cardinality(Requests)
  <2>0. requests[r].pc = "checked" /\ requests'[r].pc # "checked"
    BY <1>2, SetRequestFacts DEF GenerateCommit, Finish, NoRequest
  <2>1. \A x \in Requests \ {r} : requests'[x] = requests[x]
    BY <1>2, SetRequestFacts DEF GenerateCommit, Finish
  <2>2. CheckedOf(u)' \subseteq CheckedOf(u) \ {r} BY <2>0, <2>1 DEF CheckedOf
  <2>3. /\ \A x \in Keys \ {k} : rows'[x] = rows[x]
        /\ rows' = rows \/ rows'[k].user = requests[r].user
    BY <1>2 DEF GenerateCommit, TypeOK
  <2>4. KeysOf(u)' \subseteq KeysOf(u) \cup {k} BY <2>3 DEF KeysOf
  <2>5. requests[r].user = u BY <1>f, <2>2, <2>3 DEF KeysOf
  <2>6. r \in CheckedOf(u) BY <2>0, <2>5 DEF CheckedOf
  <2>10. Cardinality(KeysOf(u) \cup {k}) <= Cardinality(KeysOf(u)) + 1
         /\ IsFiniteSet(KeysOf(u) \cup {k})
    <3>1. IsFiniteSet(KeysOf(u)) /\ Cardinality(KeysOf(u)) \in Nat BY CountsAreNumbers
    <3> DEFINE S == KeysOf(u)
    <3> HIDE DEF S
    <3>2. IsFiniteSet(S) /\ Cardinality(S) \in Nat BY <3>1 DEF S
    <3>3. /\ Cardinality(S \cup {k}) = IF k \in S THEN Cardinality(S) ELSE Cardinality(S) + 1
          /\ IsFiniteSet(S \cup {k})
      BY <3>2, FS_AddElement
    <3>4. Cardinality(S \cup {k}) <= Cardinality(S) + 1 BY <3>2, <3>3
    <3> QED BY <3>3, <3>4 DEF S
  <2>11. Cardinality(CheckedOf(u) \ {r}) = Cardinality(CheckedOf(u)) - 1
         /\ IsFiniteSet(CheckedOf(u) \ {r})
    BY <2>6, FS_RemoveElement, CountsAreNumbers
  <2>7. /\ Cardinality(KeysOf(u) \cup {k}) <= Cardinality(KeysOf(u)) + 1
        /\ Cardinality(CheckedOf(u) \ {r}) = Cardinality(CheckedOf(u)) - 1
        /\ IsFiniteSet(KeysOf(u) \cup {k}) /\ IsFiniteSet(CheckedOf(u) \ {r})
    BY <2>10, <2>11
  <2>8. /\ Cardinality(KeysOf(u)') <= Cardinality(KeysOf(u) \cup {k})
        /\ Cardinality(CheckedOf(u)') <= Cardinality(CheckedOf(u) \ {r})
        /\ IsFiniteSet(KeysOf(u)') /\ IsFiniteSet(CheckedOf(u)')
    BY <2>2, <2>4, <2>7, FS_Subset
  <2>9. /\ Cardinality(KeysOf(u)') \in Nat /\ Cardinality(CheckedOf(u)') \in Nat
        /\ Cardinality(KeysOf(u) \cup {k}) \in Nat
    BY <2>7, <2>8, FS_CardinalityType
  <2> QED BY <1>0, <2>7, <2>8, <2>9, CountsAreNumbers, ParametersAssumption
<1>3. ASSUME NEW r \in Requests, GenerateCache(r) PROVE FALSE
  <2>1. requests'[r].pc # "checked" /\ \A x \in Requests \ {r} : requests'[x] = requests[x]
    BY <1>3, SetRequestFacts DEF GenerateCache, Finish, NoRequest
  <2>2. CheckedOf(u)' \subseteq CheckedOf(u) BY <2>1 DEF CheckedOf
  <2>3. KeysOf(u)' \subseteq KeysOf(u) BY <1>3 DEF GenerateCache, KeysOf, TypeOK
  <2> QED BY <1>f, <2>2, <2>3
<1>4. ASSUME NEW r \in Requests, NEW v \in Users, NEW label \in Labels, DeleteExecute(r, v, label) PROVE FALSE
  <2>1. requests'[r].pc # "checked" /\ \A x \in Requests \ {r} : requests'[x] = requests[x]
    BY <1>4, SetRequestFacts DEF DeleteExecute, Finish, NoRequest
  <2>2. CheckedOf(u)' \subseteq CheckedOf(u) BY <2>1 DEF CheckedOf
  <2>3. KeysOf(u)' \subseteq KeysOf(u) BY <1>4 DEF DeleteExecute, KeysOf, TypeOK
  <2> QED BY <1>f, <2>2, <2>3
<1>5. ASSUME NEW r \in Requests, DeleteCommit(r) PROVE FALSE
  <2>1. requests'[r].pc # "checked" /\ \A x \in Requests \ {r} : requests'[x] = requests[x]
    BY <1>5, SetRequestFacts, RequestKinds DEF DeleteCommit, TypeOK
  <2>2. CheckedOf(u)' \subseteq CheckedOf(u) BY <2>1 DEF CheckedOf
  <2>3. KeysOf(u)' \subseteq KeysOf(u) BY <1>5 DEF DeleteCommit, KeysOf, TypeOK
  <2> QED BY <1>f, <2>2, <2>3
<1>6. ASSUME NEW r \in Requests, DeleteUncache(r) PROVE FALSE
  <2>1. requests'[r].pc # "checked" /\ \A x \in Requests \ {r} : requests'[x] = requests[x]
    BY <1>6, SetRequestFacts DEF DeleteUncache, Finish, NoRequest
  <2>2. CheckedOf(u)' \subseteq CheckedOf(u) BY <2>1 DEF CheckedOf
  <2>3. KeysOf(u)' \subseteq KeysOf(u) BY <1>6 DEF DeleteUncache, KeysOf, TypeOK
  <2> QED BY <1>f, <2>2, <2>3
<1>7. ASSUME NEW r \in Requests, NEW v \in Users, ChangeRevoke(r, v) PROVE FALSE
  <2>1. requests'[r].pc # "checked" /\ \A x \in Requests \ {r} : requests'[x] = requests[x]
    BY <1>7, SetRequestFacts DEF ChangeRevoke, Finish, NoRequest
  <2>2. CheckedOf(u)' \subseteq CheckedOf(u) BY <2>1 DEF CheckedOf
  <2>3. KeysOf(u)' \subseteq KeysOf(u) BY <1>7 DEF ChangeRevoke, KeysOf, TypeOK
  <2> QED BY <1>f, <2>2, <2>3
<1>9. ASSUME NEW r \in Requests, ChangeInvalidate(r) PROVE FALSE
  <2>1. requests'[r].pc # "checked" /\ \A x \in Requests \ {r} : requests'[x] = requests[x]
    BY <1>9, SetRequestFacts DEF ChangeInvalidate, Finish, NoRequest
  <2>2. CheckedOf(u)' \subseteq CheckedOf(u) BY <2>1 DEF CheckedOf
  <2>3. KeysOf(u)' \subseteq KeysOf(u) BY <1>9 DEF ChangeInvalidate, KeysOf, TypeOK
  <2> QED BY <1>f, <2>2, <2>3
<1>10. ASSUME NEW r \in Requests, RequestFail(r) PROVE FALSE
  <2>1. requests'[r].pc # "checked" /\ \A x \in Requests \ {r} : requests'[x] = requests[x]
    BY <1>10, SetRequestFacts DEF RequestFail, Finish, NoRequest
  <2>2. CheckedOf(u)' \subseteq CheckedOf(u) BY <2>1 DEF CheckedOf
  <2>3. KeysOf(u)' \subseteq KeysOf(u) BY <1>10 DEF RequestFail, KeysOf, TypeOK
  <2> QED BY <1>f, <2>2, <2>3
<1>8. ASSUME NEW r \in Requests, ChangeCommit(r) PROVE FALSE
  <2>1. requests'[r].pc # "checked" /\ \A x \in Requests \ {r} : requests'[x] = requests[x]
    BY <1>8, SetRequestFacts, RequestKinds DEF ChangeCommit, TypeOK
  <2>2. CheckedOf(u)' \subseteq CheckedOf(u) BY <2>1 DEF CheckedOf
  <2>3. \A k \in Keys : rows'[k] # NoRow => rows[k] # NoRow /\ rows'[k].user = rows[k].user
    BY <1>8 DEF ChangeCommit, NoRow, TypeOK, Row
  <2>4. KeysOf(u)' \subseteq KeysOf(u) BY <2>3 DEF KeysOf
  <2> QED BY <1>f, <2>2, <2>4
<1>11. ASSUME NEW v \in Users, DeleteUser(v) PROVE FALSE
  BY <1>f, <1>11 DEF DeleteUser, KeysOf, CheckedOf
<1>12. CASE Restart
  <2>1. \A r \in Requests : requests'[r].pc = "none" BY <1>12 DEF Restart, NoRequest
  <2> QED BY <1>f, <1>12, <2>1 DEF Restart, KeysOf, CheckedOf
<1>13. CASE UNCHANGED vars
  BY <1>f, <1>13 DEF vars, KeysOf, CheckedOf
<1> QED
  BY <1>1, <1>2, <1>3, <1>4, <1>5, <1>6, <1>7, <1>8, <1>9, <1>10, <1>11, <1>12, <1>13 DEF Next

-----------------------------------------------------------------------------
(* Every variable has its type in every reachable state of the table, the  *)
(* list and the requests.                                                  *)
THEOREM TypeCorrect == Spec => []TypeOK
  BY TypeInit, TypeStep, PTL DEF Spec

LEMMA ListInvariant == Spec => []ListInv
  BY ListInit, ListStep, PTL DEF Spec

(* The middleware accepts active keys only, but for the exceptions that the *)
(* handlers' order of commit and list leaves: ListedAreExcused says which  *)
(* one holds of each key in the list.                                      *)
THEOREM AcceptedAreActive == Spec => []AcceptedIsActive
<1>1. ASSUME ListInv PROVE AcceptedIsActive
  <2> SUFFICES ASSUME NEW k \in Keys, Accepted(k), Settled(owner[k])
               PROVE  Active(k) \/ k \in removed
    BY DEF AcceptedIsActive
  <2>1. k \in cache /\ owner[k] \in users BY DEF Accepted, Verifies, Raw
  <2>2. Excused(k) BY <1>1, <2>1 DEF ListInv, ListedAreExcused
  <2> QED BY <1>1, <2>1, <2>2 DEF Excused, Settled, ListInv, Owned
<1> QED BY <1>1, ListInvariant, PTL

(* Every active key is accepted once nothing of its user is between the    *)
(* table and the list.                                                     *)
THEOREM ActiveAreAccepted == Spec => []ActiveIsAccepted
<1>1. ASSUME ListInv PROVE ActiveIsAccepted
  <2> SUFFICES ASSUME NEW k \in Keys, Active(k), Settled(owner[k])
               PROVE  Accepted(k)
    BY DEF ActiveIsAccepted
  <2>1. Expected(k) /\ owner[k] \in users
    BY <1>1 DEF ListInv, ActiveAreExpected, Owned
  <2>2. k \in cache
    BY <1>1, <2>1 DEF Expected, Settled, ListInv, Owned
  <2> QED BY <2>1, <2>2 DEF Accepted, Verifies, Raw
<1> QED BY <1>1, ListInvariant, PTL

(* However many generates overlap, the limit is exceeded by less than the  *)
(* number of requests in flight.                                           *)
THEOREM LimitSlackBounded == Spec => []LimitSlack
<1>1. LimitInv => LimitSlack
  <2> SUFFICES ASSUME LimitInv, NEW u \in Users
               PROVE  Cardinality(KeysOf(u)) < MaxKeysPerUser + Cardinality(Requests)
    BY DEF LimitSlack
  <2> QED BY CountsAreNumbers, ParametersAssumption DEF LimitInv
<1> QED BY <1>1, LimitInit, LimitStep, TypeCorrect, PTL DEF Spec

=============================================================================
