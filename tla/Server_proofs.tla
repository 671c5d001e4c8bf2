----------------------------- MODULE Server_proofs -----------------------------
(***************************************************************************)
(* Proofs of the safety properties of the server from its start (Startup)  *)
(* to the queries it serves (Queries): of a start for any number of stops, *)
(* outages and login secrets, of queries for any sensors, times, values    *)
(* and requests, page sizes and numbers of readings.                       *)
(***************************************************************************)
EXTENDS Startup, Queries, WellFoundedInduction, FiniteSetTheorems, TLAPS

-----------------------------------------------------------------------------
(* Startup: types.                                                         *)

LEMMA InitStartupTypeOK == StartupInit => StartupTypeOK
<1> SUFFICES ASSUME StartupInit PROVE StartupTypeOK
  OBVIOUS
<1>1. MaxCrashes \in Nat /\ MaxOutages \in Nat /\ MaxLogins \in Nat BY BoundsAssumption
<1>2. budget \in [crashes : Nat, outages : Nat] BY <1>1 DEF StartupInit
<1>3. login \in Logins /\ login.active + login.inactive <= MaxLogins
  BY <1>1 DEF StartupInit, Logins, NoLogins
<1> QED BY <1>2, <1>3 DEF StartupInit, StartupTypeOK, Steps

\* What a request makes of the login secrets stays within the bound.
LEMMA SetLoginsType ==
  ASSUME StartupTypeOK,
         NEW rows \in Logins, rows.active + rows.inactive <= MaxLogins,
         SetLogins(rows)
  PROVE  StartupTypeOK'
  BY DEF SetLogins, Serving, StartupTypeOK, sessions

LEMMA EditsTypeOK ==
  ASSUME StartupTypeOK, ChangePassword \/ AddLogin \/ ToggleLogin \/ DeleteLogins
  PROVE  StartupTypeOK'
<1> DEFINE all == login.active + login.inactive
<1>1. /\ MaxLogins \in Nat
      /\ login = [active |-> login.active, inactive |-> login.inactive]
      /\ login.active \in Nat /\ login.inactive \in Nat /\ all <= MaxLogins
  BY BoundsAssumption DEF StartupTypeOK, Logins
<1>2. CASE ChangePassword
  <2>1. PICK rows : rows = [active |-> 1, inactive |-> all] /\ SetLogins(rows)
    BY <1>2 DEF ChangePassword
  <2>2. all < MaxLogins BY <1>2 DEF ChangePassword, Room
  <2>3. rows \in Logins /\ rows.active + rows.inactive <= MaxLogins
    BY <1>1, <2>1, <2>2 DEF Logins
  <2> QED BY <2>1, <2>3, SetLoginsType
<1>3. CASE AddLogin
  <2>1. PICK rows : /\ \/ rows = [login EXCEPT !.active = @ + 1]
                       \/ rows = [login EXCEPT !.inactive = @ + 1]
                    /\ SetLogins(rows)
    BY <1>3 DEF AddLogin
  <2>2. all < MaxLogins BY <1>3 DEF AddLogin, Room
  <2>3. rows \in Logins /\ rows.active + rows.inactive <= MaxLogins
    BY <1>1, <2>1, <2>2 DEF Logins
  <2> QED BY <2>1, <2>3, SetLoginsType
<1>4. CASE ToggleLogin
  <2>1. PICK rows : /\ \/ rows = [active |-> all, inactive |-> 0]
                       \/ rows = [active |-> 0, inactive |-> all]
                    /\ SetLogins(rows)
    BY <1>4 DEF ToggleLogin
  <2>2. rows \in Logins /\ rows.active + rows.inactive <= MaxLogins
    BY <1>1, <2>1 DEF Logins
  <2> QED BY <2>1, <2>2, SetLoginsType
<1>5. CASE DeleteLogins
  <2>1. NoLogins \in Logins /\ NoLogins.active + NoLogins.inactive <= MaxLogins
    BY <1>1 DEF NoLogins, Logins
  <2> QED BY <1>5, <2>1, SetLoginsType DEF DeleteLogins
<1> QED BY <1>2, <1>3, <1>4, <1>5

LEMMA NextStartupTypeOK == StartupTypeOK /\ [StartupNext]_startupVars => StartupTypeOK'
<1> SUFFICES ASSUME StartupTypeOK, [StartupNext]_startupVars PROVE StartupTypeOK'
  OBVIOUS
<1> USE DEF StartupTypeOK, Steps, account, sessions, excuses
<1>1. CASE UNCHANGED startupVars BY <1>1 DEF startupVars
<1>2. CASE Start BY <1>2 DEF Start
<1>3. CASE CreateTables BY <1>3 DEF CreateTables
<1>4. CASE LookupAdmin BY <1>4 DEF LookupAdmin
<1>5. CASE CreateAdmin BY <1>5 DEF CreateAdmin
<1>6. CASE CreateSecret
  <2>1. /\ OneLogin \in Logins /\ OneLogin.active + OneLogin.inactive <= MaxLogins
    BY BoundsAssumption DEF OneLogin, Logins
  <2> QED BY <1>6, <2>1 DEF CreateSecret
<1>7. CASE LoadRegistries BY <1>7 DEF LoadRegistries
<1>8. CASE LoadKeys BY <1>8 DEF LoadKeys
<1>9. CASE Stop
  <2>1. budget' \in [crashes : Nat, outages : Nat] BY <1>9 DEF Stop
  <2> QED BY <1>9, <2>1 DEF Stop
<1>10. CASE Outage
  <2>1. budget' \in [crashes : Nat, outages : Nat] BY <1>10 DEF Outage
  <2> QED BY <1>10, <2>1 DEF Outage
<1>11. CASE DatabaseUp BY <1>11 DEF DatabaseUp
<1>12. CASE UnreadableRow BY <1>12 DEF UnreadableRow
<1>13. CASE SignIn \/ SignOut \/ OtherAdmins
  <2>1. signedIn' \in BOOLEAN /\ others' \in BOOLEAN
    BY <1>13, Zenon DEF SignIn, SignOut, OtherAdmins
  <2>2. UNCHANGED <<pc, db, tables, account, readable, budget, excuses>>
    BY <1>13 DEF SignIn, SignOut, OtherAdmins
  <2> QED BY <2>1, <2>2
<1>14. CASE ChangePassword \/ AddLogin \/ ToggleLogin \/ DeleteLogins
  BY <1>14, EditsTypeOK
<1>15. CASE DeleteAdmin
  <2>1. NoLogins \in Logins /\ NoLogins.active + NoLogins.inactive <= MaxLogins
    BY BoundsAssumption DEF NoLogins, Logins
  <2> QED BY <1>15, <2>1 DEF DeleteAdmin
<1> QED
  BY <1>1, <1>2, <1>3, <1>4, <1>5, <1>6, <1>7, <1>8, <1>9, <1>10, <1>11, <1>12, <1>13,
     <1>14, <1>15
  DEF StartupNext, Lifespan, AdminRequest

(* Every variable of the startup has its type, in every behaviour. *)
THEOREM StartupTypeCorrect == StartupSpec => []StartupTypeOK
  BY InitStartupTypeOK, NextStartupTypeOK, PTL DEF StartupSpec

-----------------------------------------------------------------------------
(* Startup: tables.                                                        *)

\* The calls that need the tables come after one that saw them.
TablesInv == pc \in {"lookup", "user", "secret", "keys", "serving"} => tables

(* The server never serves without its tables, whenever the database comes *)
(* and goes during a start: init_db swallows its errors, but not so        *)
(* load_all_registries.                                                    *)
THEOREM TablesBeforeService == StartupSpec => []ServesWithTables
<1>1. StartupInit => TablesInv
  BY DEF StartupInit, TablesInv
<1>2. TablesInv /\ [StartupNext]_startupVars => TablesInv'
  <2> SUFFICES ASSUME TablesInv, [StartupNext]_startupVars PROVE TablesInv'
    OBVIOUS
  <2>1. CASE Lifespan \/ Stop \/ UNCHANGED startupVars
    BY <2>1 DEF TablesInv, Lifespan, startupVars, Start, CreateTables, LookupAdmin, CreateAdmin,
       CreateSecret, LoadRegistries, LoadKeys, Stop
  <2>2. CASE AdminRequest \/ Outage \/ DatabaseUp \/ UnreadableRow
    <3>1. UNCHANGED <<pc, tables>>
      BY <2>2 DEF AdminRequest, SignIn, SignOut, OtherAdmins, ChangePassword, AddLogin,
         ToggleLogin, DeleteLogins, SetLogins, DeleteAdmin, Outage, DatabaseUp, UnreadableRow
    <3> QED BY <3>1 DEF TablesInv
  <2> QED BY <2>1, <2>2 DEF StartupNext
<1>3. TablesInv => ServesWithTables
  BY DEF TablesInv, ServesWithTables
<1> QED BY <1>1, <1>2, <1>3, PTL DEF StartupSpec

-----------------------------------------------------------------------------
(* Startup: the administrator.                                             *)

\* A row that cannot log in is being worked on, or its start was cut off, or its
\* login was changed; past the lookup, no row at all is what a failed init_db or a
\* deletion leaves.  A row in the making has no secret yet, as has no row.
AdminInv ==
  /\ pc = "user" => ~admin
  /\ pc = "secret" => admin
  /\ ~admin => login = NoLogins
  /\ admin /\ login # OneLogin => pc = "secret" \/ cut \/ edited
  /\ pc \in {"registries", "keys", "serving"} /\ ~admin => failed \/ removed

(* The server serves with an administrator who can log in, unless a call   *)
(* of init_db failed or the row was deleted in this very start, the start  *)
(* that made the row was cut off, or its password or login secrets were    *)
(* changed: a deletion and the failures of earlier starts are made up for. *)
THEOREM AdminBeforeService == StartupSpec => []AdminWorks
<1>1. StartupInit => AdminInv
  BY DEF StartupInit, AdminInv
<1>2. StartupTypeOK /\ AdminInv /\ [StartupNext]_startupVars => AdminInv'
  <2> SUFFICES ASSUME StartupTypeOK, AdminInv, [StartupNext]_startupVars PROVE AdminInv'
    OBVIOUS
  <2> USE DEF StartupTypeOK, Steps, AdminInv, account, excuses
  <2>1. CASE UNCHANGED startupVars BY <2>1 DEF startupVars
  <2>2. CASE Start BY <2>2 DEF Start
  <2>3. CASE CreateTables BY <2>3 DEF CreateTables
  <2>4. CASE LookupAdmin BY <2>4 DEF LookupAdmin
  <2>5. CASE CreateAdmin BY <2>5 DEF CreateAdmin
  <2>6. CASE CreateSecret BY <2>6 DEF CreateSecret
  <2>7. CASE LoadRegistries BY <2>7 DEF LoadRegistries
  <2>8. CASE LoadKeys BY <2>8 DEF LoadKeys
  <2>9. CASE Stop BY <2>9 DEF Stop
  <2>10. CASE Outage \/ DatabaseUp \/ UnreadableRow
    BY <2>10 DEF Outage, DatabaseUp, UnreadableRow
  <2>11. CASE SignIn \/ SignOut \/ OtherAdmins
    BY <2>11 DEF SignIn, SignOut, OtherAdmins
  <2>12. CASE ChangePassword \/ AddLogin \/ ToggleLogin \/ DeleteLogins
    <3>1. admin /\ admin' /\ edited' /\ pc = "serving" /\ pc' = pc
      BY <2>12 DEF ChangePassword, AddLogin, ToggleLogin, DeleteLogins, SetLogins, Serving
    <3> QED BY <3>1
  <2>13. CASE DeleteAdmin BY <2>13 DEF DeleteAdmin, Serving
  <2> QED
    BY <2>1, <2>2, <2>3, <2>4, <2>5, <2>6, <2>7, <2>8, <2>9, <2>10, <2>11, <2>12, <2>13
    DEF StartupNext, Lifespan, AdminRequest
<1>3. AdminInv => AdminWorks
  BY DEF AdminInv, AdminWorks, CanLogin
<1> QED BY <1>1, <1>2, <1>3, StartupTypeCorrect, PTL DEF StartupSpec

-----------------------------------------------------------------------------
(* Induction, over sets of numbers.                                        *)

LEMMA Least ==
  ASSUME NEW T, T \subseteq Nat, T # {}
  PROVE  \E n \in T : \A m \in T : n <= m
<1>1. \E n \in T : \A m \in T : <<m, n>> \notin OpToRel(<, Nat)
  BY NatLessThanWellFounded, WFMin, Zenon
<1>2. \A m, n \in Nat : <<m, n>> \notin OpToRel(<, Nat) => n <= m
  BY DEF OpToRel
<1> QED BY <1>1, <1>2

LEMMA UpTo ==
  ASSUME NEW T, 0 \in T, NEW N \in Nat, \A n \in 0 .. N : n \in T /\ n < N => n + 1 \in T
  PROVE  \A n \in 0 .. N : n \in T
<1> DEFINE M == (0 .. N) \ T
<1> SUFFICES ASSUME M # {} PROVE FALSE
  OBVIOUS
<1>1. M \subseteq Nat
  OBVIOUS
<1> HIDE DEF M
<1>2. PICK n \in M : \A m \in M : n <= m
  BY <1>1, Least
<1> USE DEF M
<1>3. n - 1 \in 0 .. N /\ n - 1 < N /\ n - 1 \in T
  BY <1>2
<1> QED BY <1>2, <1>3


-----------------------------------------------------------------------------
(* Queries: what a request selects.                                        *)

LEMMA RequestFields ==
  ASSUME NEW r \in Requests
  PROVE  /\ r.kind \in Kinds /\ r.ids \in Seq(Sensors) /\ r.stamps \in Seq(Times)
         /\ r.filtered \in BOOLEAN /\ r.exact \in BOOLEAN
         /\ r.low \in Int \cup {Null} /\ r.high \in Int \cup {Null}
         /\ r.size \in Int \cup {Null}
         /\ r.kind = "sensor" => Len(r.ids) = 1
         /\ r.kind \in {"ranges", "timestamps"} => r.ids = <<>>
         /\ r.kind \notin {"ranges", "graphql"} => r.low = Null /\ r.high = Null
         /\ r.kind \notin {"graphql", "meta"} => r.active = Null
<1>1. r \in Request BY RequestsAssumption
<1> QED BY <1>1 DEF Request

LEMMA ToSetEmpty ==
  ASSUME NEW S, NEW q \in Seq(S)
  PROVE  /\ ToSet(q) \subseteq S
         /\ ToSet(q) = {} <=> q = <<>>
         /\ \A x : x \in ToSet(q) <=> \E i \in DOMAIN q : q[i] = x
<1>1. \A x : x \in ToSet(q) <=> \E i \in DOMAIN q : q[i] = x
  BY DEF ToSet
<1>2. DOMAIN q = 1 .. Len(q) /\ Len(q) \in Nat /\ \A i \in DOMAIN q : q[i] \in S
  OBVIOUS
<1>3. q # <<>> => 1 \in DOMAIN q
  OBVIOUS
<1>4. ToSet(<<>>) = {}
  BY DEF ToSet
<1>5. CASE q = <<>> BY <1>4, <1>5
<1>6. CASE q # <<>> BY <1>1, <1>2, <1>3, <1>6
<1> QED BY <1>5, <1>6

\* The filters of each kind of request but the latest.
LEMMA SelectFields ==
  ASSUME NEW r \in Requests, r.kind # "latest"
  PROVE  /\ Select(r).table = IF r.kind = "meta" THEN "sensors" ELSE "data"
         /\ Select(r).ids = ToSet(r.ids) /\ Select(r).active = r.active
         /\ Select(r).low = r.low /\ Select(r).high = r.high
<1>1. ToSet(<<>>) = {}
  BY DEF ToSet
<1>2. r.kind \in Kinds BY RequestFields
<1>3. CASE r.kind = "ranges" BY <1>1, <1>3, RequestFields DEF Select, Everything
<1>4. CASE r.kind = "timestamps" 
  BY <1>1, <1>4, RequestFields DEF Select, Everything, ByTimestamps
<1>5. CASE r.kind = "sensor" BY <1>5, RequestFields DEF Select, Everything
<1>6. CASE r.kind = "graphql" BY <1>6, RequestFields DEF Select, Everything, ByGraphQL
<1>7. CASE r.kind = "meta" BY <1>7, RequestFields DEF Select, Everything
<1> QED BY <1>2, <1>3, <1>4, <1>5, <1>6, <1>7 DEF Kinds

Timed(r) == r.kind = "timestamps" \/ (r.kind = "graphql" /\ r.filtered /\ r.stamps # <<>>)

LEMMA SelectTimes ==
  ASSUME NEW r \in Requests, Timed(r)
  PROVE  /\ r.exact => Select(r).stamps = ToSet(r.stamps)
         /\ ~r.exact => /\ Select(r).stamps = Null
                        /\ Select(r).from = Min(ToSet(r.stamps))
                        /\ Select(r).to = Max(ToSet(r.stamps))
<1>1. ToSet(r.stamps) = {} <=> r.stamps = <<>> BY RequestFields, ToSetEmpty
<1>2. CASE r.kind = "timestamps" BY <1>2 DEF Select, Everything, ByTimestamps
<1>3. CASE r.kind = "graphql" BY <1>1, <1>3 DEF Select, Everything, ByGraphQL, Timed
<1> QED BY <1>2, <1>3 DEF Timed

\* A sequence of numbers has a first and a last one.
LEMMA Extremes ==
  ASSUME NEW q \in Seq(Nat), q # <<>>
  PROVE  /\ \E i \in DOMAIN q : Min(ToSet(q)) = q[i]
         /\ \E i \in DOMAIN q : Max(ToSet(q)) = q[i]
<1> DEFINE T == {n \in 1 .. Len(q) :
                   /\ \E i \in 1 .. n : \A j \in 1 .. n : q[i] <= q[j]
                   /\ \E i \in 1 .. n : \A j \in 1 .. n : q[i] >= q[j]}
<1>0. Len(q) \in Nat /\ Len(q) >= 1 /\ DOMAIN q = 1 .. Len(q) /\ \A i \in 1 .. Len(q) : q[i] \in Nat
  OBVIOUS
<1>1. 1 \in T
  BY <1>0
<1>2. ASSUME NEW n \in T, n < Len(q) PROVE n + 1 \in T
  <2>0. n \in 1 .. Len(q) /\ n + 1 \in 1 .. Len(q) BY <1>0, <1>2
  <2>1. PICK i \in 1 .. n : \A j \in 1 .. n : q[i] <= q[j] BY <1>2
  <2>2. PICK k \in 1 .. n : \A j \in 1 .. n : q[k] >= q[j] BY <1>2
  <2> HIDE DEF T
  <2>5. i \in 1 .. Len(q) /\ k \in 1 .. Len(q) BY <2>0, <2>1, <2>2, <1>0
  <2>6. \A j \in 1 .. n + 1 : j \in 1 .. Len(q) /\ (j \in 1 .. n \/ j = n + 1) BY <2>0, <1>0
  <2>7. q[i] \in Nat /\ q[k] \in Nat /\ q[n + 1] \in Nat BY <2>0, <2>5, <1>0
  <2>8. i \in 1 .. n + 1 /\ k \in 1 .. n + 1 BY <2>0, <2>1, <2>2, <1>0
  <2>3. \E m \in 1 .. n + 1 : \A j \in 1 .. n + 1 : q[m] <= q[j]
    <3>1. CASE q[i] <= q[n + 1]
      <4>1. \A j \in 1 .. n + 1 : q[i] <= q[j] BY <3>1, <2>1, <2>6
      <4> QED BY <4>1, <2>0, <2>8
    <3>2. CASE ~(q[i] <= q[n + 1])
      <4>1. \A j \in 1 .. n + 1 : q[n + 1] <= q[j] BY <3>2, <2>1, <2>6, <2>7, <1>0
      <4>2. n + 1 \in 1 .. n + 1 BY <2>0, <1>0
      <4> QED BY <4>1, <4>2
    <3> QED BY <3>1, <3>2
  <2>4. \E m \in 1 .. n + 1 : \A j \in 1 .. n + 1 : q[m] >= q[j]
    <3>1. CASE q[k] >= q[n + 1]
      <4>1. \A j \in 1 .. n + 1 : q[k] >= q[j] BY <3>1, <2>2, <2>6
      <4> QED BY <4>1, <2>0, <2>8
    <3>2. CASE ~(q[k] >= q[n + 1])
      <4>1. \A j \in 1 .. n + 1 : q[n + 1] >= q[j] BY <3>2, <2>2, <2>6, <2>7, <1>0
      <4>2. n + 1 \in 1 .. n + 1 BY <2>0, <1>0
      <4> QED BY <4>1, <4>2
    <3> QED BY <3>1, <3>2
  <2> QED BY <2>0, <2>3, <2>4 DEF T
<1>3. Len(q) \in T
  <2> HIDE DEF T
  <2> DEFINE U == {n \in 0 .. Len(q) - 1 : n + 1 \in T}
  <2>1. 0 \in U BY <1>0, <1>1
  <2>2. \A n \in 0 .. Len(q) - 1 : n \in U /\ n < Len(q) - 1 => n + 1 \in U
    <3> SUFFICES ASSUME NEW n \in 0 .. Len(q) - 1, n \in U, n < Len(q) - 1 PROVE n + 1 \in U
      OBVIOUS
    <3>1. n + 1 \in T /\ n + 1 < Len(q) /\ n + 1 \in 0 .. Len(q) - 1 BY <1>0
    <3>2. (n + 1) + 1 \in T BY <3>1, <1>2
    <3> QED BY <3>1, <3>2
  <2>3. Len(q) - 1 \in U
    <3> HIDE DEF U
    <3>1. Len(q) - 1 \in Nat BY <1>0
    <3>2. \A n \in 0 .. Len(q) - 1 : n \in U BY <3>1, <2>1, <2>2, UpTo
    <3> QED BY <3>1, <3>2
  <2>4. (Len(q) - 1) + 1 = Len(q) BY <1>0
  <2> QED BY <2>3, <2>4
<1>4. PICK i \in 1 .. Len(q) : \A j \in 1 .. Len(q) : q[i] <= q[j] BY <1>3
<1>5. PICK k \in 1 .. Len(q) : \A j \in 1 .. Len(q) : q[k] >= q[j] BY <1>3
<1> HIDE DEF T
<1>6. \A x : x \in ToSet(q) <=> \E j \in 1 .. Len(q) : q[j] = x BY <1>0 DEF ToSet
<1>7. Min(ToSet(q)) \in ToSet(q)
  <2>1. q[i] \in ToSet(q) /\ \A y \in ToSet(q) : q[i] <= y BY <1>4, <1>6
  <2> QED BY <2>1 DEF Min
<1>8. Max(ToSet(q)) \in ToSet(q)
  <2>1. q[k] \in ToSet(q) /\ \A y \in ToSet(q) : q[k] >= y BY <1>5, <1>6
  <2> QED BY <2>1 DEF Max
<1> QED BY <1>0, <1>6, <1>7, <1>8

LEMMA MinOfTwo ==
  ASSUME NEW a \in Int, NEW b \in Int
  PROVE  Min({a, b}) = IF a <= b THEN a ELSE b
<1> DEFINE m == IF a <= b THEN a ELSE b
<1>1. m \in {a, b} /\ \A y \in {a, b} : m <= y OBVIOUS
<1>2. Min({a, b}) \in {a, b} /\ \A y \in {a, b} : Min({a, b}) <= y BY <1>1 DEF Min
<1> QED BY <1>1, <1>2

LEMMA PageSizes ==
  ASSUME NEW r \in Requests, Accepted(r)
  PROVE  PageSize(r) \in Nat \ {0}
BY RequestFields, ParametersAssumption DEF Accepted, PageSize

-----------------------------------------------------------------------------
(* Queries: what a SELECT returns.                                         *)

LEMMA FirstsOf ==
  ASSUME NEW q, NEW rows, IsFiniteSet(rows), NEW n \in Nat, NEW s \in Firsts(q, rows, n)
  PROVE  /\ s \subseteq rows /\ IsFiniteSet(s)
         /\ Cardinality(s) = IF n <= Cardinality(rows) THEN n ELSE Cardinality(rows)
         /\ \A a \in s, b \in rows \ s : MayPrecede(q, a, b)
<1>1. Cardinality(rows) \in Nat BY FS_CardinalityType
<1>2. s \in SUBSET rows /\ Cardinality(s) = Min({n, Cardinality(rows)})
      /\ \A a \in s, b \in rows \ s : MayPrecede(q, a, b)
  BY DEF Firsts, kSubset
<1>3. IsFiniteSet(s) BY <1>2, FS_Subset
<1> QED BY <1>1, <1>2, <1>3, MinOfTwo

\* OFFSET n skips n rows, if there are as many, and LIMIT takes of the rest.
LEMMA SliceOf ==
  ASSUME NEW q, NEW rows, IsFiniteSet(rows), NEW n \in Nat, NEW size \in Nat,
         NEW items \in Slices(q, rows, n, size)
  PROVE  \E skipped \in SUBSET rows :
           /\ items \subseteq rows \ skipped /\ IsFiniteSet(items) /\ IsFiniteSet(skipped)
           /\ Cardinality(skipped) = IF n <= Cardinality(rows) THEN n ELSE Cardinality(rows)
           /\ Cardinality(rows \ skipped) = Cardinality(rows) - Cardinality(skipped)
           /\ Cardinality(items) = IF size <= Cardinality(rows \ skipped) THEN size
                                   ELSE Cardinality(rows \ skipped)
           /\ \A a \in skipped, b \in rows \ skipped : MayPrecede(q, a, b)
           /\ \A a \in items, b \in (rows \ skipped) \ items : MayPrecede(q, a, b)
<1>1. PICK skipped \in Firsts(q, rows, n) : items \in Firsts(q, rows \ skipped, size)
  BY DEF Slices
<1>2. /\ skipped \subseteq rows /\ IsFiniteSet(skipped)
      /\ Cardinality(skipped) = IF n <= Cardinality(rows) THEN n ELSE Cardinality(rows)
      /\ \A a \in skipped, b \in rows \ skipped : MayPrecede(q, a, b)
  BY <1>1, FirstsOf
<1>3. IsFiniteSet(rows \ skipped)
      /\ Cardinality(rows \ skipped) = Cardinality(rows) - Cardinality(skipped)
  <2>1. rows \cap skipped = skipped BY <1>2
  <2> QED BY <2>1, FS_Difference
<1>4. /\ items \subseteq rows \ skipped /\ IsFiniteSet(items)
      /\ Cardinality(items) = IF size <= Cardinality(rows \ skipped) THEN size
                              ELSE Cardinality(rows \ skipped)
      /\ \A a \in items, b \in (rows \ skipped) \ items : MayPrecede(q, a, b)
  BY <1>1, <1>3, FirstsOf
<1> QED BY <1>2, <1>3, <1>4

LEMMA MatchingFinite ==
  ASSUME IsFiniteSet(readings), NEW q
  PROVE  IsFiniteSet(Matching(q)) /\ (q.table = "data" => Matching(q) \subseteq readings)
         /\ Matching(q) \subseteq readings \cup Sensors
<1>1. CASE q.table = "data"
  <2>1. Matching(q) \in SUBSET readings BY <1>1 DEF Matching
  <2> QED BY <2>1, FS_Subset
<1>2. CASE q.table # "data"
  <2>1. Matching(q) \in SUBSET Sensors BY <1>2 DEF Matching
  <2> QED BY <2>1, <1>2, FS_Subset, ParametersAssumption
<1> QED BY <1>1, <1>2

\* LIMIT 1 of one sensor: its last reading, or none if it has none.
LEMMA LatestEntry ==
  ASSUME IsFiniteSet(readings), NEW s, NEW entry \in LatestOf(s)
  PROVE  \/ SetToSeq(entry) = <<>> /\ \A b \in readings : b.device # s
         \/ \E e \in readings : /\ SetToSeq(entry) = <<e>> /\ e.device = s
                                /\ \A b \in readings : b.device = s => e = b \/ e.time >= b.time
<1> DEFINE R == {r \in readings : r.device = s}
<1>1. IsFiniteSet(R)
  <2>1. R \in SUBSET readings OBVIOUS
  <2> QED BY <2>1, FS_Subset
<1>2. entry \in Firsts(Everything("data"), R, 1) BY DEF LatestOf
<1>3. Cardinality(R) \in Nat /\ (Cardinality(R) = 0 <=> R = {})
  BY <1>1, FS_CardinalityType, FS_EmptySet
<1>4. /\ entry \subseteq R /\ IsFiniteSet(entry)
      /\ Cardinality(entry) = IF 1 <= Cardinality(R) THEN 1 ELSE Cardinality(R)
      /\ \A a \in entry, b \in R \ entry : MayPrecede(Everything("data"), a, b)
  <2> HIDE DEF R
  <2> QED BY <1>1, <1>2, FirstsOf
<1>5. CASE R = {}
  <2>1. entry = {} BY <1>4, <1>5
  <2>2. Cardinality({}) = 0 BY FS_EmptySet
  <2>3. SetToSeq({}) = <<>>
    <3>1. <<>> \in [1 .. 0 -> {}] /\ IsInjective(<<>>) BY DEF IsInjective
    <3>2. SetToSeq({}) \in [1 .. 0 -> {}] BY <2>2, <3>1 DEF SetToSeq
    <3> QED BY <3>2
  <2> QED BY <2>1, <2>3, <1>5
<1>6. CASE R # {}
  <2>1. Cardinality(entry) = 1 BY <1>3, <1>4, <1>6
  <2>2. PICK e : entry = {e} BY <2>1, <1>4, FS_Singleton
  <2>3. SetToSeq(entry) = <<e>>
    <3>1. <<e>> \in [1 .. 1 -> {e}] /\ IsInjective(<<e>>) BY DEF IsInjective
    <3>2. SetToSeq(entry) \in [1 .. 1 -> {e}] BY <2>1, <2>2, <3>1 DEF SetToSeq
    <3> QED BY <3>2
  <2>4. e \in readings /\ e.device = s BY <2>2, <1>4
  <2>5. \A b \in readings : b.device = s => e = b \/ e.time >= b.time
    BY <2>2, <1>4 DEF MayPrecede, Everything
  <2> QED BY <2>3, <2>4, <2>5
<1> QED BY <1>5, <1>6

-----------------------------------------------------------------------------
(* Queries: types.                                                         *)

\* A request in flight belongs to the walk, which was accepted and has not
\* ended, and is at a step of its own kind; nothing is answered meanwhile.
TypeInv ==
  /\ TypeOK
  /\ IsFiniteSet(readings)
  /\ query = NoQuery \/ answer = NoAnswer
  /\ walk # NoWalk => walk.page >= 1 /\ Accepted(walk.request)
  /\ query # NoQuery =>
       /\ walk.request = query.request /\ ~walk.ended
       /\ query.pc \in {"list", "known", "fetch"} <=> query.request.kind = "latest"

LEMMA NullsApart ==
  /\ \A q \in Query : q # NoQuery /\ q.pc # "none"
  /\ \A w \in Walk : w.page >= 1 => w # NoWalk
  /\ NoQuery.pc = "none" /\ NoWalk.page = 0
<1>1. \A q \in Query : q.pc # "none" BY DEF Query
<1>2. NoQuery.pc = "none" /\ NoWalk.page = 0 BY DEF NoQuery, NoWalk
<1> QED BY <1>1, <1>2

LEMMA TypesGrow ==
  ASSUME readings \subseteq readings'
  PROVE  Query \subseteq Query' /\ Walk \subseteq Walk'
<1>1. SUBSET (readings \cup Sensors) \subseteq SUBSET (readings' \cup Sensors) OBVIOUS
<1>2. Query \subseteq Query' BY <1>1 DEF Query
<1>3. Walk \subseteq Walk' BY <1>1 DEF Walk
<1> QED BY <1>2, <1>3

\* What a request that enters its handler starts with.
LEMMA Entering ==
  ASSUME NEW r \in Requests, NEW n \in Nat, Enter(r, n), UNCHANGED readings
  PROVE  /\ query' \in Query' /\ query' # NoQuery
         /\ query'.request = r /\ query'.page = n /\ query'.pc = Starts(r)
         /\ query'.todo = (IF r.kind = "latest" THEN r.ids ELSE <<>>)
         /\ query'.valid = <<>> /\ query'.found = <<>>
         /\ query'.pc \in {"list", "known", "fetch"} <=> r.kind = "latest"
<1>1. Starts(r) \in {"list", "known", "exists", "count"}
      /\ (Starts(r) \in {"list", "known", "fetch"} <=> r.kind = "latest")
  BY DEF Starts
<1>2. (IF r.kind = "latest" THEN r.ids ELSE <<>>) \in Seq(Sensors) BY RequestFields
<1>3. /\ query'.request = r /\ query'.page = n /\ query'.pc = Starts(r)
      /\ query'.todo = (IF r.kind = "latest" THEN r.ids ELSE <<>>)
      /\ query'.valid = <<>> /\ query'.found = <<>>
  BY DEF Enter
<1>4. query' \in Query' BY <1>1, <1>2 DEF Enter, Query
<1>5. query' # NoQuery BY <1>1, <1>3, NullsApart
<1> QED BY <1>1, <1>3, <1>4, <1>5

LEMMA InitTypeInv == Init => TypeInv
<1> SUFFICES ASSUME Init PROVE TypeInv OBVIOUS
<1>1. IsFiniteSet({}) BY FS_EmptySet
<1>2. 0 \in 0 .. MaxChanges BY ParametersAssumption
<1> QED BY <1>1, <1>2 DEF Init, TypeInv, TypeOK, Rows

LEMMA AskTypeInv ==
  ASSUME TypeInv, NEW r \in Requests, Ask(r)
  PROVE  TypeInv'
<1> USE DEF TypeInv, TypeOK
<1>1. CASE Accepted(r)
  <2>1. Enter(r, 1) /\ answer' = NoAnswer /\ UNCHANGED <<readings, status, changes>>
        /\ walk' = [page |-> 1, request |-> r, got |-> {}, ended |-> FALSE,
                    start |-> IF r.kind = "latest" THEN readings ELSE Matching(Select(r)),
                    steady |-> Sensors]
    BY <1>1 DEF Ask
  <2>2. (IF r.kind = "latest" THEN readings ELSE Matching(Select(r)))
          \in SUBSET (readings \cup Sensors)
    BY MatchingFinite
  <2>3. walk' \in Walk' BY <2>1, <2>2 DEF Walk
  <2>4. walk'.page = 1 /\ walk'.request = r /\ ~walk'.ended BY <2>1
  <2>5. walk' # NoWalk BY <2>4, NullsApart
  <2>6. /\ query' \in Query' /\ query'.request = r /\ query'.page = 1
        /\ query'.pc \in {"list", "known", "fetch"} <=> r.kind = "latest"
    BY <2>1, Entering
  <2>7. Accepted(r)' BY <1>1 DEF Accepted, PageSize, Below
  <2> QED BY <2>1, <2>3, <2>4, <2>5, <2>6, <2>7, <1>1
<1>2. CASE ~Accepted(r)
  BY <1>2 DEF Ask
<1> QED BY <1>1, <1>2

LEMMA AskNextTypeInv == ASSUME TypeInv, AskNext PROVE TypeInv'
<1> USE DEF TypeInv, TypeOK
<1>1. walk \in Walk /\ walk # NoWalk BY DEF AskNext
<1>2. /\ walk' = [walk EXCEPT !.page = walk.page + 1] /\ Enter(walk.request, walk.page + 1)
      /\ ~walk.ended /\ answer' = NoAnswer /\ UNCHANGED <<readings, status, changes>>
  BY DEF AskNext
<1>3. walk.request \in Requests /\ walk.page \in Nat /\ walk.page + 1 \in Nat
      /\ walk.page + 1 >= 1
  BY <1>1 DEF Walk
<1>4. /\ walk' \in Walk' /\ walk'.page = walk.page + 1 /\ walk'.request = walk.request
      /\ walk'.ended = walk.ended
  BY <1>1, <1>2, <1>3 DEF Walk
<1>5. /\ query' \in Query' /\ query'.request = walk.request /\ query'.page = walk.page + 1
      /\ query'.pc \in {"list", "known", "fetch"} <=> walk.request.kind = "latest"
  BY <1>2, <1>3, Entering
<1>6. walk' # NoWalk BY <1>3, <1>4, NullsApart
<1> QED BY <1>1, <1>2, <1>3, <1>4, <1>5, <1>6

\* The page of a step of Page, and what the step leaves.
PageOf(r, n, rows) ==
  Slices(Select(r), rows, (PageAsked(r, n) - 1) * PageSize(r), PageSize(r))

LEMMA PageStep ==
  ASSUME TypeInv, Page
  PROVE  \E r \in Requests,
            items \in PageOf(query.request, query.page, Matching(Select(query.request))) :
           /\ r = query.request /\ r = walk.request /\ r.kind # "latest" /\ Accepted(r)
           /\ query' = NoQuery
           /\ answer' = [kind |-> "page", items |-> items,
                         offset |-> (PageAsked(r, query.page) - 1) * PageSize(r),
                         size |-> PageSize(r), total |-> Cardinality(query.counted),
                         fresh |-> Matching(Select(r)) \ query.counted, asOf |-> status]
           /\ walk' = [walk EXCEPT !.got = walk.got \cup items,
                                   !.ended = Cardinality(items) < PageSize(r) \/ r.kind = "meta"]
           /\ UNCHANGED <<readings, status, changes>>
<1>1. query.pc = "page" /\ query # NoQuery /\ query \in Query /\ walk # NoWalk
  BY NullsApart DEF Page, TypeInv, TypeOK
<1>2. query.request \in Requests BY <1>1 DEF Query
<1>3. query.request = walk.request /\ query.request.kind # "latest" /\ Accepted(query.request)
  BY <1>1 DEF TypeInv
<1> QED BY <1>1, <1>2, <1>3 DEF Page, PageOf, Answer

LEMMA PageSlice ==
  ASSUME IsFiniteSet(readings), NEW r \in Requests, Accepted(r), NEW n \in Nat, n >= 1,
         NEW items \in PageOf(r, n, Matching(Select(r)))
  PROVE  LET rows == Matching(Select(r))
             size == PageSize(r)
             offset == (PageAsked(r, n) - 1) * PageSize(r)
         IN  /\ size \in Nat \ {0} /\ offset \in Nat /\ Cardinality(rows) \in Nat
             /\ \E skipped \in SUBSET rows :
                /\ items \subseteq rows \ skipped /\ IsFiniteSet(items) /\ IsFiniteSet(skipped)
                /\ Cardinality(skipped)
                     = IF offset <= Cardinality(rows) THEN offset ELSE Cardinality(rows)
                /\ Cardinality(rows \ skipped) = Cardinality(rows) - Cardinality(skipped)
                /\ Cardinality(items) = IF size <= Cardinality(rows \ skipped) THEN size
                                        ELSE Cardinality(rows \ skipped)
                /\ \A a \in skipped, b \in rows \ skipped : MayPrecede(Select(r), a, b)
                /\ \A a \in items, b \in (rows \ skipped) \ items :
                     MayPrecede(Select(r), a, b)
<1> DEFINE rows == Matching(Select(r))
           size == PageSize(r)
           offset == (PageAsked(r, n) - 1) * PageSize(r)
<1>1. size \in Nat \ {0} BY PageSizes
<1>2. IsFiniteSet(rows) /\ Cardinality(rows) \in Nat BY MatchingFinite, FS_CardinalityType
<1>3. offset \in Nat
  <2>1. PageAsked(r, n) - 1 \in Nat BY DEF PageAsked
  <2>2. \A a, b \in Nat : a * b \in Nat OBVIOUS
  <2> QED BY <2>1, <2>2, <1>1
<1>4. items \in Slices(Select(r), rows, offset, size) BY DEF PageOf
<1>5. size \in Nat BY <1>1
<1> HIDE DEF rows, size, offset
<1>6. \E skipped \in SUBSET rows :
        /\ items \subseteq rows \ skipped /\ IsFiniteSet(items) /\ IsFiniteSet(skipped)
        /\ Cardinality(skipped)
             = IF offset <= Cardinality(rows) THEN offset ELSE Cardinality(rows)
        /\ Cardinality(rows \ skipped) = Cardinality(rows) - Cardinality(skipped)
        /\ Cardinality(items) = IF size <= Cardinality(rows \ skipped) THEN size
                                ELSE Cardinality(rows \ skipped)
        /\ \A a \in skipped, b \in rows \ skipped : MayPrecede(Select(r), a, b)
        /\ \A a \in items, b \in (rows \ skipped) \ items : MayPrecede(Select(r), a, b)
  BY <1>2, <1>3, <1>4, <1>5, SliceOf
<1> QED BY <1>1, <1>2, <1>3, <1>6 DEF rows, size, offset

LEMMA PageTypeInv == ASSUME TypeInv, Page PROVE TypeInv'
<1>1. PICK r \in Requests,
           items \in PageOf(query.request, query.page, Matching(Select(query.request))) :
        /\ r = query.request /\ r = walk.request /\ r.kind # "latest" /\ Accepted(r)
        /\ query' = NoQuery
        /\ walk' = [walk EXCEPT !.got = walk.got \cup items,
                                !.ended = Cardinality(items) < PageSize(r) \/ r.kind = "meta"]
        /\ UNCHANGED <<readings, status, changes>>
  BY PageStep
<1>2. query \in Query /\ query # NoQuery /\ walk \in Walk /\ walk # NoWalk
      /\ walk.page = query.page /\ walk.page >= 1 /\ IsFiniteSet(readings)
  BY NullsApart DEF TypeInv, TypeOK, Page
<1>3. query.page \in Nat /\ query.page >= 1 BY <1>2 DEF Query
<1>4. items \subseteq Matching(Select(r)) BY <1>1, <1>2, <1>3, PageSlice
<1>5. items \subseteq readings \cup Sensors BY <1>2, <1>4, MatchingFinite
<1>6. /\ walk' \in Walk' /\ walk'.page = walk.page /\ walk'.request = walk.request
  BY <1>1, <1>2, <1>5 DEF Walk
<1>7. walk' # NoWalk BY <1>2, <1>6, NullsApart
<1> QED BY <1>1, <1>2, <1>6, <1>7 DEF TypeInv, TypeOK

LEMMA LeaveTypeInv == ASSUME TypeInv, Leave PROVE TypeInv'
BY DEF TypeInv, TypeOK, Leave, Query, Walk

\* A step that changes the request in flight, and nothing else.
LEMMA QueryStep ==
  ASSUME TypeInv, query # NoQuery, query' \in Query',
         UNCHANGED <<readings, status, walk, answer, changes>>,
         query'.request = query.request, query'.page = query.page,
         query'.pc \in {"list", "known", "fetch"} <=> query.request.kind = "latest"
  PROVE  TypeInv'
<1>1. query' # NoQuery BY NullsApart DEF Query
<1>2. Walk' = Walk BY DEF Walk
<1> QED BY <1>1, <1>2 DEF TypeInv, TypeOK

\* A step that answers without a page, and gives up the walk or ends it.
LEMMA AnswerStep ==
  ASSUME TypeInv, query # NoQuery, query' = NoQuery, UNCHANGED <<readings, status, changes>>,
         walk' = NoWalk \/ walk' = [walk EXCEPT !.ended = TRUE]
  PROVE  TypeInv'
<1>1. walk \in Walk /\ walk # NoWalk /\ walk.page >= 1 BY DEF TypeInv, TypeOK
<1>2. CASE walk' = NoWalk BY <1>2 DEF TypeInv, TypeOK
<1>3. CASE walk' = [walk EXCEPT !.ended = TRUE]
  <2>1. walk' \in Walk' /\ walk'.page = walk.page /\ walk'.request = walk.request
    BY <1>1, <1>3 DEF Walk
  <2>2. walk' # NoWalk BY <1>1, <2>1, NullsApart
  <2> QED BY <1>1, <2>1, <2>2 DEF TypeInv, TypeOK
<1> QED BY <1>2, <1>3

LEMMA InFlight ==
  ASSUME TypeInv, query.pc # "none"
  PROVE  query # NoQuery /\ query \in Query /\ walk \in Walk /\ walk # NoWalk
         /\ query.request \in Requests /\ query.page \in Nat /\ answer = NoAnswer
         /\ walk.request = query.request /\ walk.page = query.page /\ Accepted(query.request)
<1>1. query # NoQuery /\ query \in Query /\ walk \in Walk /\ walk # NoWalk
  BY NullsApart DEF TypeInv, TypeOK
<1> QED BY <1>1 DEF TypeInv, TypeOK, Query

\* Of the answer and the walk, field by field.
LEMMA PageFields ==
  ASSUME TypeInv, Page
  PROVE  \E r \in Requests,
            items \in PageOf(query.request, query.page, Matching(Select(query.request))) :
           /\ r = query.request /\ r = walk.request /\ r.kind # "latest" /\ Accepted(r)
           /\ query' = NoQuery /\ UNCHANGED <<readings, status, changes>>
           /\ answer'.items = items /\ answer'.size = PageSize(r) /\ answer'.asOf = status
           /\ answer'.offset = (PageAsked(r, query.page) - 1) * PageSize(r)
           /\ answer'.total = Cardinality(query.counted)
           /\ answer'.fresh = Matching(Select(r)) \ query.counted
           /\ walk'.request = r /\ walk'.page = walk.page /\ walk'.start = walk.start
           /\ walk'.steady = walk.steady /\ walk'.got = walk.got \cup items
           /\ walk'.ended = (Cardinality(items) < PageSize(r) \/ r.kind = "meta")
<1>1. PICK r \in Requests,
           items \in PageOf(query.request, query.page, Matching(Select(query.request))) :
        /\ r = query.request /\ r = walk.request /\ r.kind # "latest" /\ Accepted(r)
        /\ query' = NoQuery
        /\ answer' = [kind |-> "page", items |-> items,
                      offset |-> (PageAsked(r, query.page) - 1) * PageSize(r),
                      size |-> PageSize(r), total |-> Cardinality(query.counted),
                      fresh |-> Matching(Select(r)) \ query.counted, asOf |-> status]
        /\ walk' = [walk EXCEPT !.got = walk.got \cup items,
                                !.ended = Cardinality(items) < PageSize(r) \/ r.kind = "meta"]
        /\ UNCHANGED <<readings, status, changes>>
  BY PageStep
<1>2. walk \in Walk BY InFlight DEF Page
<1>3. /\ answer'.items = items /\ answer'.size = PageSize(r) /\ answer'.asOf = status
      /\ answer'.offset = (PageAsked(r, query.page) - 1) * PageSize(r)
      /\ answer'.total = Cardinality(query.counted)
      /\ answer'.fresh = Matching(Select(r)) \ query.counted
  BY <1>1
<1>4. /\ walk'.request = r /\ walk'.page = walk.page /\ walk'.start = walk.start
      /\ walk'.steady = walk.steady /\ walk'.got = walk.got \cup items
      /\ walk'.ended = (Cardinality(items) < PageSize(r) \/ r.kind = "meta")
  BY <1>1, <1>2 DEF Walk
<1> QED BY <1>1, <1>3, <1>4

LEMMA ReadTypeInv ==
  ASSUME TypeInv, Exists \/ Count \/ Raise
  PROVE  TypeInv'
<1>1. CASE Exists
  <2>1. CASE query' = [query EXCEPT !.pc = "count"] /\ UNCHANGED <<walk, answer>>
    <3>1. query \in Query /\ query # NoQuery BY <1>1, InFlight DEF Exists
    <3>2. query.request.kind # "latest" BY <1>1, <3>1 DEF Exists, TypeInv
    <3>3. /\ query' \in Query' /\ query'.request = query.request /\ query'.page = query.page
          /\ query'.pc = "count"
      BY <1>1, <2>1, <3>1 DEF Exists, Query
    <3> QED BY <1>1, <2>1, <3>1, <3>2, <3>3, QueryStep DEF Exists
  <2>2. CASE query' = NoQuery /\ walk' = NoWalk
    BY <1>1, <2>2, InFlight, AnswerStep DEF Exists
  <2> QED BY <1>1, <2>1, <2>2 DEF Exists, Answer
<1>2. CASE Count
  <2>1. query \in Query /\ query # NoQuery BY <1>2, InFlight DEF Count
  <2>2. query.request.kind # "latest" BY <1>2, <2>1 DEF Count, TypeInv
  <2>3. Matching(Select(query.request)) \subseteq readings \cup Sensors
    BY MatchingFinite DEF TypeInv
  <2>4. /\ query' \in Query' /\ query'.request = query.request /\ query'.page = query.page
        /\ query'.pc = "page"
    BY <1>2, <2>1, <2>3 DEF Count, Query
  <2> QED BY <1>2, <2>1, <2>2, <2>4, QueryStep DEF Count
<1>3. CASE Raise
  BY <1>3, AnswerStep DEF Raise, Answer
<1> QED BY <1>1, <1>2, <1>3

LEMMA ListSensorsStep ==
  ASSUME TypeInv, ListSensors
  PROVE  LET S == {s \in Sensors : status[s] # "none"}
         IN  \E all \in Seq(Sensors) :
           /\ IsFiniteSet(S) /\ Len(all) = Cardinality(S)
           /\ all \in [1 .. Cardinality(S) -> S]
           /\ \A i, j \in 1 .. Cardinality(S) : i # j => all[i] # all[j]
           /\ query' \in Query' /\ query'.pc = "known" /\ query'.todo = all
           /\ query'.request = query.request /\ query'.page = query.page
           /\ query'.valid = query.valid /\ query'.found = query.found
           /\ UNCHANGED <<readings, status, walk, answer, changes>>
<1> DEFINE S == {s \in Sensors : status[s] # "none"}
<1>1. query \in Query BY InFlight DEF ListSensors
<1>2. IsFiniteSet(S)
  <2>1. S \in SUBSET Sensors OBVIOUS
  <2> QED BY <2>1, FS_Subset, ParametersAssumption
<1>3. Cardinality(S) \in Nat BY <1>2, FS_CardinalityType
<1>4. PICK all \in SetToSeqs(S) : query' = [query EXCEPT !.pc = "known", !.todo = all]
  BY DEF ListSensors
<1>5. all \in [1 .. Cardinality(S) -> S]
      /\ \A i, j \in 1 .. Cardinality(S) : i # j => all[i] # all[j]
  BY <1>4 DEF SetToSeqs
<1>6. all \in Seq(Sensors) /\ Len(all) = Cardinality(S)
  <2>1. all \in [1 .. Cardinality(S) -> Sensors] BY <1>5
  <2> HIDE DEF S
  <2> QED BY <2>1, <1>3
<1>7. /\ query' \in Query' /\ query'.pc = "known" /\ query'.todo = all
      /\ query'.request = query.request /\ query'.page = query.page
      /\ query'.valid = query.valid /\ query'.found = query.found
  <2> HIDE DEF S
  <2> QED BY <1>1, <1>4, <1>6 DEF Query, ListSensors
<1>8. UNCHANGED <<readings, status, walk, answer, changes>> BY DEF ListSensors
<1> QED BY <1>2, <1>5, <1>6, <1>7, <1>8

LEMMA KnownStep ==
  ASSUME TypeInv, Known
  PROVE  /\ query' \in Query' /\ query'.request = query.request /\ query'.page = query.page
         /\ query'.found = query.found
         /\ query.todo = <<>> => query'.pc = "fetch" /\ query'.todo = <<>>
                                /\ query'.valid = query.valid
         /\ query.todo # <<>> =>
              /\ query'.pc = "known" /\ query'.todo = Tail(query.todo)
              /\ query'.valid = IF status[Head(query.todo)] # "none"
                                  THEN Append(query.valid, Head(query.todo)) ELSE query.valid
<1>1. query \in Query /\ query.pc = "known" BY InFlight DEF Known
<1>2. query.todo \in Seq(Sensors) /\ query.valid \in Seq(Sensors) BY <1>1 DEF Query
<1>3. CASE query.todo = <<>>
  <2>1. query' = [query EXCEPT !.pc = "fetch"] BY <1>3 DEF Known
  <2> QED BY <2>1, <1>1, <1>3 DEF Query, Known
<1>4. CASE query.todo # <<>>
  <2> DEFINE kept == IF status[Head(query.todo)] # "none"
                       THEN Append(query.valid, Head(query.todo)) ELSE query.valid
  <2>1. query' = [query EXCEPT !.todo = Tail(query.todo), !.valid = kept]
    BY <1>4 DEF Known
  <2>2. Tail(query.todo) \in Seq(Sensors) /\ kept \in Seq(Sensors) BY <1>2, <1>4
  <2> HIDE DEF kept
  <2>3. /\ query' \in Query' /\ query'.request = query.request /\ query'.page = query.page
        /\ query'.found = query.found /\ query'.pc = "known" 
        /\ query'.todo = Tail(query.todo) /\ query'.valid = kept
    BY <2>1, <2>2, <1>1 DEF Query, Known
  <2> QED BY <2>3, <1>4 DEF kept
<1> QED BY <1>3, <1>4

\* One fetch moves the first sensor from valid to the entry it finds, if any.
LEMMA FetchStep ==
  ASSUME TypeInv, FetchLatest, query.valid # <<>>
  PROVE  /\ query' \in Query' /\ query'.request = query.request /\ query'.page = query.page
         /\ query'.pc = "fetch" /\ query'.todo = query.todo
         /\ query'.valid = Tail(query.valid) /\ UNCHANGED <<readings, status, walk, answer, changes>>
         /\ \/ query'.found = query.found /\ \A b \in readings : b.device # Head(query.valid)
            \/ \E e \in readings :
                 /\ query'.found = Append(query.found, e) /\ e.device = Head(query.valid)
                 /\ \A b \in readings : b.device = Head(query.valid) => e.time >= b.time
<1>1. query \in Query /\ query.pc = "fetch" BY InFlight DEF FetchLatest
<1>2. query.valid \in Seq(Sensors) /\ query.found \in Seq(Reading) BY <1>1 DEF Query
<1>3. UNCHANGED <<readings, status, walk, answer, changes>> BY DEF FetchLatest
<1>4. PICK entry \in LatestOf(Head(query.valid)) :
        query' = [query EXCEPT !.valid = Tail(query.valid), !.found = query.found \o SetToSeq(entry)]
  BY DEF FetchLatest
<1>5. IsFiniteSet(readings) /\ readings \subseteq Reading BY DEF TypeInv, TypeOK
<1> DEFINE more == query.found \o SetToSeq(entry)
<1>6. /\ more \in Seq(Reading)
      /\ \/ more = query.found /\ \A b \in readings : b.device # Head(query.valid)
         \/ \E e \in readings :
              /\ more = Append(query.found, e) /\ e.device = Head(query.valid)
              /\ \A b \in readings : b.device = Head(query.valid) => e.time >= b.time
  <2>1. CASE SetToSeq(entry) = <<>> /\ \A b \in readings : b.device # Head(query.valid)
    BY <2>1, <1>2
  <2>2. ASSUME NEW e \in readings, SetToSeq(entry) = <<e>>, e.device = Head(query.valid),
               \A b \in readings : b.device = Head(query.valid) => e = b \/ e.time >= b.time
        PROVE  <1>6!1 /\ <1>6!2
    <3>1. more = Append(query.found, e) /\ more \in Seq(Reading) BY <2>2, <1>2, <1>5
    <3>2. e.time >= e.time
      <4>1. e.time \in Nat BY <1>5, ParametersAssumption DEF Reading
      <4> QED BY <4>1
    <3> QED BY <2>2, <3>1, <3>2
  <2> QED BY <2>1, <2>2, <1>4, <1>5, LatestEntry
<1>7. /\ query' \in Query' /\ query'.request = query.request /\ query'.page = query.page
      /\ query'.pc = "fetch" /\ query'.todo = query.todo
      /\ query'.valid = Tail(query.valid) /\ query'.found = more
  <2>1. Tail(query.valid) \in Seq(Sensors) BY <1>2
  <2>2. query' = [query EXCEPT !.valid = Tail(query.valid), !.found = more] BY <1>4
  <2> HIDE DEF more
  <2> QED BY <1>1, <1>3, <1>6, <2>1, <2>2 DEF Query
<1> HIDE DEF more
<1> QED BY <1>3, <1>6, <1>7

LEMMA LatestTypeInv ==
  ASSUME TypeInv, ListSensors \/ Known \/ FetchLatest
  PROVE  TypeInv'
<1>1. query # NoQuery /\ query.request.kind = "latest"
  BY InFlight DEF ListSensors, Known, FetchLatest, TypeInv
<1>2. CASE ListSensors BY <1>1, <1>2, ListSensorsStep, QueryStep
<1>3. CASE Known BY <1>1, <1>3, KnownStep, QueryStep DEF Known
<1>4. CASE FetchLatest
  <2>1. CASE query.valid = <<>>
    <3>1. query' = NoQuery /\ walk' = [walk EXCEPT !.ended = TRUE]
          /\ UNCHANGED <<readings, status, changes>>
      BY <1>4, <2>1 DEF FetchLatest, Answer
    <3> QED BY <1>1, <3>1, AnswerStep
  <2>2. CASE query.valid # <<>> BY <1>1, <1>4, <2>2, FetchStep, QueryStep
  <2> QED BY <2>1, <2>2
<1> QED BY <1>2, <1>3, <1>4

-----------------------------------------------------------------------------
(* Queries: the writers.                                                   *)

\* A walk goes on, or there was none or it had ended.
LEMMA PastWalk ==
  ASSUME TypeInv
  PROVE  /\ query # NoQuery => Past(walk) = walk
         /\ Past(walk) # NoWalk => Past(walk) = walk /\ (query = NoQuery => ~walk.ended)
         /\ Past(walk) = NoWalk => query = NoQuery
BY DEF Past, TypeInv, TypeOK

LEMMA StoreStep ==
  ASSUME TypeInv, NEW s \in Sensors, NEW t \in Times, NEW v \in Values, Store(s, t, v)
  PROVE  /\ readings \subseteq readings' /\ readings' \subseteq Reading /\ IsFiniteSet(readings')
         /\ walk' = Past(walk) /\ answer' = NoAnswer /\ UNCHANGED <<status, query, changes>>
<1> DEFINE same == {r \in readings : r.device = s /\ r.time = t /\ r.value = v}
           new == [device |-> s, time |-> t, value |-> v, copy |-> Cardinality(same) + 1]
<1>1. readings' = readings \cup {new} /\ Cardinality(readings) < MaxReadings
      /\ walk' = Past(walk) /\ answer' = NoAnswer /\ UNCHANGED <<status, query, changes>>
  BY DEF Store
<1>2. IsFiniteSet(readings) /\ readings \subseteq Reading BY DEF TypeInv, TypeOK
<1>3. Cardinality(same) + 1 \in 1 .. MaxReadings
  <2>1. same \in SUBSET readings OBVIOUS
  <2>2. Cardinality(same) <= Cardinality(readings) /\ IsFiniteSet(same)
    <3> HIDE DEF same
    <3> QED BY <2>1, <1>2, FS_Subset
  <2>3. Cardinality(same) \in Nat /\ Cardinality(readings) \in Nat
    <3> HIDE DEF same
    <3> QED BY <2>2, <1>2, FS_CardinalityType
  <2>4. MaxReadings \in Nat BY ParametersAssumption
  <2> HIDE DEF same
  <2> QED BY <1>1, <2>2, <2>3, <2>4
<1>4. new \in Reading
  <2> HIDE DEF same
  <2> QED BY <1>3 DEF Reading
<1> HIDE DEF new
<1>5. IsFiniteSet(readings') BY <1>1, <1>2, FS_AddElement
<1> QED BY <1>1, <1>2, <1>4, <1>5

LEMMA StoreTypeInv ==
  ASSUME TypeInv, NEW s \in Sensors, NEW t \in Times, NEW v \in Values, Store(s, t, v)
  PROVE  TypeInv'
<1>1. Query \subseteq Query' /\ Walk \subseteq Walk' BY StoreStep, TypesGrow
<1>2. walk' \in {walk, NoWalk} /\ (query # NoQuery => walk' = walk)
  BY StoreStep, PastWalk
<1> QED BY <1>1, <1>2, StoreStep DEF TypeInv, TypeOK

LEMMA ChangeStep ==
  ASSUME TypeInv, NEW s \in Sensors, NEW new \in Rows, Change(s, new)
  PROVE  /\ status' = [status EXCEPT ![s] = new] /\ answer' = NoAnswer
         /\ UNCHANGED <<readings, query>>
         /\ Past(walk) = NoWalk => walk' = NoWalk
         /\ Past(walk) # NoWalk =>
              /\ Past(walk) = walk
              /\ walk' \in Walk /\ walk'.page = walk.page /\ walk'.request = walk.request
              /\ walk'.start = walk.start /\ walk'.got = walk.got
              /\ walk'.ended = walk.ended /\ walk'.steady = walk.steady \ {s}
<1>1. ASSUME Past(walk) # NoWalk
      PROVE  /\ Past(walk) = walk
             /\ walk' \in Walk /\ walk'.page = walk.page /\ walk'.request = walk.request
             /\ walk'.start = walk.start /\ walk'.got = walk.got
             /\ walk'.ended = walk.ended /\ walk'.steady = walk.steady \ {s}
  <2>1. Past(walk) = walk /\ walk \in Walk BY <1>1, PastWalk DEF TypeInv, TypeOK
  <2>2. walk' = [walk EXCEPT !.steady = walk.steady \ {s}] BY <1>1 DEF Change
  <2> QED BY <2>1, <2>2 DEF Walk
<1> QED BY <1>1 DEF Change

LEMMA ChangeTypeInv ==
  ASSUME TypeInv, NEW s \in Sensors, NEW new \in Rows, Change(s, new)
  PROVE  TypeInv'
<1>1. Query' = Query /\ Walk' = Walk BY ChangeStep DEF Query, Walk
<1>2. status' \in [Sensors -> Rows] BY ChangeStep DEF TypeInv, TypeOK
<1>3. changes' \in 0 .. MaxChanges
  <2>1. changes \in 0 .. MaxChanges /\ changes < MaxChanges /\ changes' = changes + 1
    BY DEF Change, TypeInv, TypeOK
  <2> QED BY <2>1, ParametersAssumption
<1>4. CASE Past(walk) = NoWalk
  <2>1. walk' = NoWalk /\ query = NoQuery BY <1>4, ChangeStep, PastWalk
  <2> QED BY <1>1, <1>2, <1>3, <2>1, ChangeStep DEF TypeInv, TypeOK
<1>5. CASE Past(walk) # NoWalk
  <2>1. walk # NoWalk /\ walk' \in Walk BY <1>5, ChangeStep, PastWalk
  <2>2. walk'.page >= 1 /\ walk' # NoWalk
    <3>1. walk.page >= 1 BY <2>1 DEF TypeInv
    <3> QED BY <3>1, <2>1, <1>5, ChangeStep, NullsApart
  <2> QED BY <1>1, <1>2, <1>3, <1>5, <2>1, <2>2, ChangeStep DEF TypeInv, TypeOK
<1> QED BY <1>4, <1>5

LEMMA NextTypeInv == TypeInv /\ [Next]_vars => TypeInv'
<1> SUFFICES ASSUME TypeInv, [Next]_vars PROVE TypeInv' OBVIOUS
<1>1. CASE UNCHANGED vars
  BY <1>1 DEF vars, TypeInv, TypeOK, Query, Walk
<1>2. CASE \E r \in Requests : Ask(r) BY <1>2, AskTypeInv
<1>3. CASE AskNext BY <1>3, AskNextTypeInv
<1>4. CASE Leave BY <1>4, LeaveTypeInv
<1>5. CASE Exists \/ Count \/ Raise BY <1>5, ReadTypeInv
<1>6. CASE Page BY <1>6, PageTypeInv
<1>7. CASE ListSensors \/ Known \/ FetchLatest BY <1>7, LatestTypeInv
<1>8. CASE \E s \in Sensors, t \in Times, v \in Values : Store(s, t, v) BY <1>8, StoreTypeInv
<1>9. CASE \E s \in Sensors, new \in Rows : Change(s, new) BY <1>9, ChangeTypeInv
<1> QED BY <1>1, <1>2, <1>3, <1>4, <1>5, <1>6, <1>7, <1>8, <1>9 DEF Next

LEMMA TypeInvHolds == Spec => []TypeInv
  BY InitTypeInv, NextTypeInv, PTL DEF Spec

(* The tables hold rows, and a request in flight and the walk it belongs to *)
(* speak of readings and sensors that have been stored, always.            *)
THEOREM QueriesTypeCorrect == Spec => []TypeOK
<1>1. TypeInv => TypeOK BY DEF TypeInv
<1> QED BY <1>1, TypeInvHolds, PTL

-----------------------------------------------------------------------------
(* Queries: where answers come from.                                       *)

LEMMA AnswersOf ==
  ASSUME TypeInv, [Next]_vars
  PROVE  /\ answer'.kind = "page" => Page \/ UNCHANGED vars
         /\ answer'.kind = "latest" =>
              UNCHANGED vars \/ (FetchLatest /\ query.valid = <<>>)
<1>0. NoAnswer.kind = "none" /\ Refused.kind = "refused" BY DEF NoAnswer, Refused
<1>1. CASE UNCHANGED vars BY <1>1
<1>2. CASE \E r \in Requests : Ask(r) BY <1>0, <1>2 DEF Ask
<1>3. CASE AskNext \/ Leave BY <1>0, <1>3 DEF AskNext, Leave
<1>4. CASE Exists \/ Count \/ Raise
  <2>1. answer = NoAnswer BY <1>4, InFlight, NullsApart DEF Exists, Count, Raise, TypeInv
  <2>2. answer' = answer \/ answer' = [kind |-> "not found"] \/ answer' = [kind |-> "error"]
    BY <1>4 DEF Exists, Count, Raise, Answer
  <2>3. CASE answer' = answer BY <1>0, <2>1, <2>3
  <2>4. CASE answer' = [kind |-> "not found"] BY <2>4
  <2>5. CASE answer' = [kind |-> "error"] BY <2>5
  <2> QED BY <2>2, <2>3, <2>4, <2>5
<1>5. CASE ListSensors \/ Known
  <2>1. answer = NoAnswer BY <1>5, InFlight DEF ListSensors, Known
  <2> QED BY <1>0, <1>5, <2>1 DEF ListSensors, Known
<1>6. CASE FetchLatest
  <2>1. answer = NoAnswer BY <1>6, InFlight DEF FetchLatest
  <2>2. CASE query.valid # <<>> BY <1>0, <1>6, <2>1, <2>2 DEF FetchLatest
  <2>3. CASE query.valid = <<>>
    <3>1. answer' = [kind |-> "latest", found |-> query.found]
      BY <1>6, <2>3 DEF FetchLatest, Answer
    <3>2. answer'.kind = "latest" BY <3>1
    <3> QED BY <1>6, <2>3, <3>2
  <2> QED BY <2>2, <2>3
<1>7. CASE Page
  <2>1. answer'.kind = "page" BY <1>7 DEF Page, Answer
  <2> QED BY <1>7, <2>1
<1>8. CASE \E s \in Sensors, t \in Times, v \in Values : Store(s, t, v)
  BY <1>0, <1>8 DEF Store
<1>9. CASE \E s \in Sensors, new \in Rows : Change(s, new) BY <1>0, <1>9 DEF Change
<1> QED BY <1>1, <1>2, <1>3, <1>4, <1>5, <1>6, <1>7, <1>8, <1>9 DEF Next

-----------------------------------------------------------------------------
(* Queries: what a page holds.                                             *)

LEMMA MatchingIsWanted ==
  ASSUME readings \subseteq Reading, NEW r \in Requests, r.kind \notin {"meta", "latest"},
         Accepted(r), NEW e \in Matching(Select(r))
  PROVE  /\ r.ids # <<>> => e.device \in ToSet(r.ids)
         /\ Timed(r) => IF r.exact THEN \E i \in DOMAIN r.stamps : r.stamps[i] = e.time
                        ELSE \E i, j \in DOMAIN r.stamps :
                               r.stamps[i] <= e.time /\ e.time <= r.stamps[j]
         /\ ~(r.low # Null /\ e.value < r.low) /\ ~(r.high # Null /\ e.value > r.high)
         /\ r.active # Null => status[e.device] = r.active
<1>1. e \in readings /\ MatchesReading(Select(r), e) BY SelectFields DEF Matching
<1>2. e.time \in Times /\ e.time \in Nat /\ e.value \in Int
  BY <1>1, ParametersAssumption DEF Reading
<1>3. r.ids # <<>> => e.device \in ToSet(r.ids)
  <2>1. ToSet(r.ids) = {} <=> r.ids = <<>> BY RequestFields, ToSetEmpty
  <2> QED BY <1>1, <2>1, SelectFields DEF MatchesReading, MatchesSensor
<1>4. ~(r.low # Null /\ e.value < r.low) /\ ~(r.high # Null /\ e.value > r.high)
  BY <1>1, <1>2, SelectFields, RequestFields DEF MatchesReading, Within
<1>5. r.active # Null => status[e.device] = r.active
  BY <1>1, SelectFields DEF MatchesReading, MatchesSensor
<1>6. ASSUME Timed(r)
      PROVE  IF r.exact THEN \E i \in DOMAIN r.stamps : r.stamps[i] = e.time
             ELSE \E i, j \in DOMAIN r.stamps : r.stamps[i] <= e.time /\ e.time <= r.stamps[j]
  <2>1. r.stamps \in Seq(Times) /\ r.stamps \in Seq(Nat) /\ ToSet(r.stamps) \subseteq Times
        /\ \A x : x \in ToSet(r.stamps) <=> \E i \in DOMAIN r.stamps : r.stamps[i] = x
    <3>1. r.stamps \in Seq(Times) BY RequestFields
    <3>2. r.stamps \in Seq(Nat)
      <4>1. Times \subseteq Nat BY ParametersAssumption
      <4>2. r.stamps \in [1 .. Len(r.stamps) -> Times] /\ Len(r.stamps) \in Nat BY <3>1
      <4>3. r.stamps \in [1 .. Len(r.stamps) -> Nat] BY <4>1, <4>2
      <4> QED BY <4>2, <4>3
    <3> QED BY <3>1, <3>2, ToSetEmpty
  <2>2. CASE r.exact
    <3>1. ToSet(r.stamps) # Null BY <2>1, ParametersAssumption
    <3>2. e.time \in ToSet(r.stamps)
      BY <1>1, <1>6, <2>2, <3>1, SelectTimes DEF MatchesReading
    <3> QED BY <2>1, <2>2, <3>2
  <2>3. CASE ~r.exact
    <3>1. r.stamps # <<>> 
      <4>1. CASE r.kind = "timestamps"
        <5>1. Len(r.stamps) = 2 BY <2>3, <4>1 DEF Accepted
        <5> QED BY <5>1
      <4> QED BY <4>1, <1>6 DEF Timed
    <3>2. PICK i \in DOMAIN r.stamps : Min(ToSet(r.stamps)) = r.stamps[i]
      BY <2>1, <3>1, Extremes
    <3>3. PICK j \in DOMAIN r.stamps : Max(ToSet(r.stamps)) = r.stamps[j]
      BY <2>1, <3>1, Extremes
    <3>4. r.stamps[i] \in Nat /\ r.stamps[j] \in Nat BY <2>1
    <3>5. Within(e.time, r.stamps[i], r.stamps[j])
      BY <1>1, <1>6, <2>3, <3>2, <3>3, SelectTimes DEF MatchesReading
    <3>6. r.stamps[i] # Null /\ r.stamps[j] # Null BY <3>4, ParametersAssumption
    <3> QED BY <2>3, <3>4, <3>5, <3>6 DEF Within
  <2> QED BY <2>2, <2>3
<1> QED BY <1>3, <1>4, <1>5, <1>6

(* A page holds what the endpoint promises and nothing else: readings of   *)
(* the sensors listed, of the times listed or between the first and the    *)
(* last of them, the field within its bounds and the sensor as asked for,  *)
(* for requests of any sensors, times and bounds.                          *)
THEOREM PagesHoldWhatIsAsked == Spec => []OnlyWanted
<1>1. Init => OnlyWanted BY DEF Init, OnlyWanted, NoAnswer
<1>2. TypeInv /\ OnlyWanted /\ [Next]_vars => OnlyWanted'
  <2> SUFFICES ASSUME TypeInv, OnlyWanted, [Next]_vars, answer'.kind = "page",
                      walk'.request.kind # "meta"
               PROVE  OnlyWanted'
    BY DEF OnlyWanted
  <2>1. CASE UNCHANGED vars BY <2>1 DEF vars, OnlyWanted
  <2>2. CASE Page
    <3>1. PICK r \in Requests,
               items \in PageOf(query.request, query.page, Matching(Select(query.request))) :
            /\ r = query.request /\ r = walk.request /\ r.kind # "latest" /\ Accepted(r)
            /\ answer'.items = items /\ answer'.asOf = status /\ walk'.request = r
      BY <2>2, PageFields
    <3>2. query.page \in Nat /\ query.page >= 1 /\ walk \in Walk
          /\ IsFiniteSet(readings) /\ readings \subseteq Reading
      BY <2>2, InFlight DEF Page, TypeInv, TypeOK
    <3>3. walk'.request = r BY <3>1
    <3>4. items \subseteq Matching(Select(r)) BY <3>1, <3>2, PageSlice
    <3>5. \A e \in items :
            /\ r.ids # <<>> => e.device \in ToSet(r.ids)
            /\ Timed(r) => IF r.exact THEN \E i \in DOMAIN r.stamps : r.stamps[i] = e.time
                           ELSE \E i, j \in DOMAIN r.stamps :
                                  r.stamps[i] <= e.time /\ e.time <= r.stamps[j]
            /\ ~(r.low # Null /\ e.value < r.low) /\ ~(r.high # Null /\ e.value > r.high)
            /\ r.active # Null => status[e.device] = r.active
      BY <3>1, <3>2, <3>3, <3>4, MatchingIsWanted
    <3> QED BY <3>1, <3>3, <3>5 DEF OnlyWanted, Timed
  <2> QED BY <2>1, <2>2, AnswersOf
<1> QED BY <1>1, <1>2, TypeInvHolds, PTL DEF Spec

-----------------------------------------------------------------------------
(* Queries: what was counted.                                              *)

LEMMA MatchingGrows ==
  ASSUME readings \subseteq readings', status' = status, NEW q
  PROVE  Matching(q) \subseteq Matching(q)'
BY DEF Matching, MatchesReading, MatchesSensor

LEMMA MatchingKept ==
  ASSUME readings' = readings, NEW q, q.table = "data", q.active = Null
  PROVE  Matching(q)' = Matching(q)
BY DEF Matching, MatchesReading, MatchesSensor

\* Whatever a writer does, a walk that it leaves undisturbed loses no row, and
\* was undisturbed before.
LEMMA WriterLosesNothing ==
  ASSUME TypeInv, walk # NoWalk, walk' # NoWalk, Undisturbed(walk'),
         walk.request.kind \notin {"meta", "latest"},
         NEW s \in Sensors,
         \/ \E t \in Times, v \in Values : Store(s, t, v)
         \/ \E new \in Rows : Change(s, new)
  PROVE  /\ Undisturbed(walk) /\ walk'.request = walk.request /\ query' = query
         /\ walk'.page = walk.page /\ walk'.start = walk.start /\ walk'.got = walk.got
         /\ walk'.ended = walk.ended
         /\ Matching(Select(walk.request)) \subseteq Matching(Select(walk.request))'
         /\ IsFiniteSet(readings')
<1>0. walk \in Walk /\ walk.request \in Requests BY DEF TypeInv, TypeOK, Walk
<1> DEFINE r == walk.request
<1>1. ASSUME NEW t \in Times, NEW v \in Values, Store(s, t, v)
      PROVE  /\ walk' = walk /\ UNCHANGED <<status, query>> /\ readings \subseteq readings'
             /\ IsFiniteSet(readings')
  BY <1>1, StoreStep, PastWalk
<1>2. ASSUME NEW new \in Rows, Change(s, new)
      PROVE  /\ walk'.request = walk.request /\ walk'.steady = walk.steady \ {s}
             /\ walk'.page = walk.page /\ walk'.start = walk.start /\ walk'.got = walk.got
             /\ walk'.ended = walk.ended /\ UNCHANGED <<readings, query>>
  BY <1>2, ChangeStep
<1>3. CASE \E t \in Times, v \in Values : Store(s, t, v)
  <2>1. /\ walk' = walk /\ UNCHANGED <<status, query>> /\ readings \subseteq readings'
        /\ IsFiniteSet(readings')
    BY <1>1, <1>3
  <2>2. PICK q : q = Select(walk.request) /\ q = Select(walk.request)' BY <2>1
  <2>3. Matching(q) \subseteq Matching(q)' BY <2>1, MatchingGrows
  <2>4. Matching(Select(walk.request)) = Matching(q)
        /\ Matching(Select(walk.request))' = Matching(q)'
    BY <2>2
  <2> QED BY <2>1, <2>3, <2>4
<1>4. CASE \E new \in Rows : Change(s, new)
  <2>1. /\ walk'.request = walk.request /\ walk'.steady = walk.steady \ {s}
        /\ walk'.page = walk.page /\ walk'.start = walk.start /\ walk'.got = walk.got
        /\ walk'.ended = walk.ended /\ UNCHANGED <<readings, query>>
    BY <1>2, <1>4
  <2>2. walk.request.active = Null BY <2>1 DEF Undisturbed
  <2>3. PICK q : q = Select(walk.request) /\ q = Select(walk.request)'
    BY <2>1 DEF Select, Everything, ByTimestamps, ByGraphQL
  <2>4. q.table = "data" /\ q.active = Null BY <1>0, <2>2, <2>3, SelectFields
  <2>5. Matching(q)' = Matching(q) BY <2>1, <2>4, MatchingKept
  <2>6. Matching(Select(walk.request)) = Matching(q)
        /\ Matching(Select(walk.request))' = Matching(q)'
    BY <2>3
  <2>7. IsFiniteSet(readings') BY <2>1 DEF TypeInv
  <2> QED BY <2>1, <2>2, <2>5, <2>6, <2>7 DEF Undisturbed
<1> QED BY <1>3, <1>4

\* What was counted is a finite set, and is still there unless disturbed.
CountedInv ==
  query.pc = "page" =>
    /\ IsFiniteSet(query.counted)
    /\ (Undisturbed(walk) /\ query.request.kind # "meta") =>
         query.counted \subseteq Matching(Select(query.request))

LEMMA CountCounts ==
  ASSUME TypeInv, Count
  PROVE  /\ query'.counted = Matching(Select(query.request))
         /\ query'.request = query.request /\ UNCHANGED <<readings, status, walk>>
<1>1. query \in Query BY InFlight DEF Count
<1> QED BY <1>1 DEF Count, Query

LEMMA NextCountedInv == TypeInv /\ CountedInv /\ [Next]_vars => CountedInv'
<1> SUFFICES ASSUME TypeInv, CountedInv, [Next]_vars, query'.pc = "page" PROVE CountedInv'
  BY DEF CountedInv
<1>0. NoQuery.pc = "none" BY NullsApart
<1>1. CASE UNCHANGED vars
  BY <1>1 DEF vars, CountedInv, Undisturbed, Matching, MatchesReading, MatchesSensor
<1>2. CASE \E r \in Requests : Ask(r)
  <2>1. PICK r \in Requests : Ask(r) BY <1>2
  <2>2. CASE Accepted(r) BY <2>1, <2>2 DEF Ask, Enter, Starts
  <2>3. CASE ~Accepted(r) BY <1>0, <2>1, <2>3 DEF Ask
  <2> QED BY <2>2, <2>3
<1>3. CASE AskNext BY <1>3 DEF AskNext, Enter, Starts
<1>4. CASE Leave BY <1>0, <1>4 DEF Leave
<1>5. CASE Exists \/ Raise \/ Page
  <2>1. CASE query' = NoQuery BY <1>0, <2>1
  <2>2. CASE query' = [query EXCEPT !.pc = "count"] /\ Exists
    <3>1. query \in Query BY <2>2, InFlight DEF Exists
    <3> QED BY <2>2, <3>1 DEF Query
  <2> QED BY <1>5, <2>1, <2>2 DEF Exists, Raise, Page, Answer
<1>6. CASE Count
  <2>1. PICK q : q = Select(query.request) /\ q = Select(query.request)'
    BY <1>6, CountCounts DEF Select, Everything, ByTimestamps, ByGraphQL
  <2>2. Matching(q)' = Matching(q)
    BY <1>6, CountCounts DEF Matching, MatchesReading, MatchesSensor
  <2>3. IsFiniteSet(Matching(q)) BY MatchingFinite DEF TypeInv
  <2>4. Matching(Select(query.request)) = Matching(q)
        /\ Matching(Select(query.request))' = Matching(q)'
    BY <2>1
  <2> QED BY <1>6, <2>2, <2>3, <2>4, CountCounts DEF CountedInv
<1>7. CASE ListSensors \/ Known \/ FetchLatest
  <2>1. CASE query' = NoQuery BY <1>0, <2>1
  <2>2. CASE ListSensors BY <2>2, ListSensorsStep
  <2>3. CASE Known BY <2>3, KnownStep
  <2>4. CASE FetchLatest /\ query.valid # <<>> BY <2>4, FetchStep
  <2> QED BY <1>7, <2>1, <2>2, <2>3, <2>4 DEF FetchLatest, Answer
<1>8. CASE \/ \E s \in Sensors, t \in Times, v \in Values : Store(s, t, v)
           \/ \E s \in Sensors, new \in Rows : Change(s, new)
  <2>1. PICK s \in Sensors : \/ \E t \in Times, v \in Values : Store(s, t, v)
                             \/ \E new \in Rows : Change(s, new)
    BY <1>8
  <2>2. query' = query
    <3>1. CASE \E t \in Times, v \in Values : Store(s, t, v) BY <3>1, StoreStep
    <3>2. CASE \E new \in Rows : Change(s, new) BY <3>2, ChangeStep
    <3> QED BY <2>1, <3>1, <3>2
  <2>3. query # NoQuery /\ query.pc = "page" /\ walk # NoWalk /\ walk.request = query.request
        /\ query.request.kind # "latest"
    BY <2>2, InFlight DEF TypeInv
  <2>4. walk' # NoWalk
    <3>1. TypeInv' BY NextTypeInv
    <3> QED BY <2>2, <2>3, <3>1 DEF TypeInv, TypeOK
  <2>5. ASSUME Undisturbed(walk)', query.request.kind # "meta"
        PROVE  query.counted \subseteq Matching(Select(query.request))'
    <3>1. /\ Undisturbed(walk) /\ Matching(Select(walk.request)) \subseteq Matching(Select(walk.request))'
          /\ walk'.request = walk.request
      BY <2>1, <2>3, <2>4, <2>5, WriterLosesNothing DEF Undisturbed
    <3>2. Select(query.request)' = Select(walk.request)'
      BY <2>2, <2>3, <3>1 DEF Select, Everything, ByTimestamps, ByGraphQL
    <3>3. Matching(Select(query.request))' = Matching(Select(walk.request))' BY <3>2 
    <3>4. query.counted \subseteq Matching(Select(walk.request))
      BY <2>3, <2>5, <3>1 DEF CountedInv
    <3> QED BY <3>1, <3>3, <3>4
  <2> QED BY <2>2, <2>3, <2>5 DEF CountedInv
<1> QED BY <1>1, <1>2, <1>3, <1>4, <1>5, <1>6, <1>7, <1>8 DEF Next

LEMMA InitCountedInv == Init => CountedInv
  BY NullsApart DEF Init, CountedInv

LEMMA CountedInvHolds == Spec => []CountedInv
  BY InitCountedInv, NextCountedInv, TypeInvHolds, PTL DEF Spec

\* The arithmetic of a page: of rows there are |R|, S are skipped, n returned.
LEMMA PageCounts ==
  ASSUME IsFiniteSet(readings), NEW r \in Requests, Accepted(r), NEW page \in Nat, page >= 1,
         NEW items \in PageOf(r, page, Matching(Select(r))),
         NEW counted, IsFiniteSet(counted)
  PROVE  LET rows == Matching(Select(r))
             size == PageSize(r)
             offset == (PageAsked(r, page) - 1) * PageSize(r)
             n == Cardinality(items)
         IN  /\ n > 0 => offset + n <= Cardinality(counted) + Cardinality(rows \ counted)
             /\ counted \subseteq rows => n >= Min({size, Cardinality(counted) - offset})
<1> DEFINE rows == Matching(Select(r))
           size == PageSize(r)
           offset == (PageAsked(r, page) - 1) * PageSize(r)
           n == Cardinality(items)
<1>1. size \in Nat \ {0} /\ offset \in Nat /\ Cardinality(rows) \in Nat BY PageSlice
<1>2. PICK skipped \in SUBSET rows :
        /\ items \subseteq rows \ skipped /\ IsFiniteSet(items) /\ IsFiniteSet(skipped)
        /\ Cardinality(skipped) = IF offset <= Cardinality(rows) THEN offset ELSE Cardinality(rows)
        /\ Cardinality(rows \ skipped) = Cardinality(rows) - Cardinality(skipped)
        /\ Cardinality(items) = IF size <= Cardinality(rows \ skipped) THEN size
                                ELSE Cardinality(rows \ skipped)
        /\ \A a \in skipped, b \in rows \ skipped : MayPrecede(Select(r), a, b)
        /\ \A a \in items, b \in (rows \ skipped) \ items : MayPrecede(Select(r), a, b)
  BY PageSlice, Zenon
<1>3. IsFiniteSet(rows) BY MatchingFinite
<1> HIDE DEF rows, size, offset
<1>4. n \in Nat /\ Cardinality(skipped) \in Nat BY <1>2, FS_CardinalityType
<1>5. Cardinality(counted) \in Nat /\ Cardinality(rows \ counted) \in Nat
      /\ Cardinality(rows) <= Cardinality(counted) + Cardinality(rows \ counted)
  <2>1. IsFiniteSet(rows \ counted) BY <1>3, FS_Difference
  <2>2. IsFiniteSet(rows \cap counted)
        /\ Cardinality(rows \ counted) = Cardinality(rows) - Cardinality(rows \cap counted)
    BY <1>3, FS_Difference, FS_Intersection
  <2>3. Cardinality(rows \cap counted) <= Cardinality(counted)
    <3>1. rows \cap counted \in SUBSET counted OBVIOUS
    <3> QED BY <3>1, FS_Subset
  <2>4. Cardinality(counted) \in Nat /\ Cardinality(rows \ counted) \in Nat
        /\ Cardinality(rows \cap counted) \in Nat
    BY <2>1, <2>2, FS_CardinalityType
  <2> QED BY <2>2, <2>3, <2>4, <1>1
<1>6. n > 0 => offset + n <= Cardinality(counted) + Cardinality(rows \ counted)
  BY <1>1, <1>2, <1>4, <1>5
<1>7. ASSUME counted \subseteq rows
      PROVE  n >= Min({size, Cardinality(counted) - offset})
  <2>1. Cardinality(counted) <= Cardinality(rows)
    <3>1. counted \in SUBSET rows BY <1>7
    <3> QED BY <3>1, <1>3, FS_Subset
  <2>2. Min({size, Cardinality(counted) - offset})
          = IF size <= Cardinality(counted) - offset THEN size ELSE Cardinality(counted) - offset
    BY <1>1, <1>5, MinOfTwo
  <2>3. n >= Cardinality(counted) - offset \/ n = size BY <1>1, <1>2, <1>4, <1>5, <2>1
  <2> QED BY <2>2, <2>3, <1>1, <1>4, <1>5
<1> QED BY <1>6, <1>7 DEF rows, size, offset

(* A page never reaches beyond the total it comes with by more than what   *)
(* was stored between its two statements, and is full as far as the total  *)
(* reaches unless a sensor it filters by changed, whatever the pages' size *)
(* and however many readings there are.                                    *)
THEOREM PagesAgreeWithTotals == Spec => []PageAgreesWithTotal
<1>1. Init => PageAgreesWithTotal BY DEF Init, PageAgreesWithTotal, NoAnswer
<1>2. TypeInv /\ CountedInv /\ PageAgreesWithTotal /\ [Next]_vars => PageAgreesWithTotal'
  <2> SUFFICES ASSUME TypeInv, CountedInv, PageAgreesWithTotal, [Next]_vars,
                      answer'.kind = "page"
               PROVE  PageAgreesWithTotal'
    BY DEF PageAgreesWithTotal
  <2>1. CASE UNCHANGED vars BY <2>1 DEF vars, PageAgreesWithTotal, Undisturbed
  <2>2. CASE Page
    <3>1. PICK r \in Requests,
               items \in PageOf(query.request, query.page, Matching(Select(query.request))) :
            /\ r = query.request /\ r = walk.request /\ Accepted(r)
            /\ answer'.items = items /\ answer'.size = PageSize(r)
            /\ answer'.offset = (PageAsked(r, query.page) - 1) * PageSize(r)
            /\ answer'.total = Cardinality(query.counted)
            /\ answer'.fresh = Matching(Select(r)) \ query.counted
            /\ walk'.request = r /\ walk'.steady = walk.steady
      BY <2>2, PageFields
    <3>2. query.page \in Nat /\ query.page >= 1 /\ IsFiniteSet(readings) /\ query.pc = "page"
      BY <2>2, InFlight DEF Page, TypeInv, TypeOK
    <3>3. /\ IsFiniteSet(query.counted)
          /\ (Undisturbed(walk) /\ r.kind # "meta") => query.counted \subseteq Matching(Select(r))
      BY <3>1, <3>2 DEF CountedInv
    <3>4. /\ Cardinality(items) > 0 =>
               answer'.offset + Cardinality(items) <= answer'.total + Cardinality(answer'.fresh)
          /\ query.counted \subseteq Matching(Select(r)) =>
               Cardinality(items) >= Min({answer'.size, answer'.total - answer'.offset})
      BY <3>1, <3>2, <3>3, PageCounts
    <3>5. Undisturbed(walk)' <=> Undisturbed(walk) BY <3>1 DEF Undisturbed
    <3> QED BY <3>1, <3>3, <3>4, <3>5 DEF PageAgreesWithTotal
  <2> QED BY <2>1, <2>2, AnswersOf
<1> QED BY <1>1, <1>2, TypeInvHolds, CountedInvHolds, PTL DEF Spec

-----------------------------------------------------------------------------
(* Queries: what the pages of a walk have passed.                          *)

Newer(rows, r) == {b \in rows : b.time > r.time}
Untied(rows, r) == \A b \in rows \ {r} : b.time # r.time

\* After so many pages of walk w, a reading that shares its time with none and
\* was not on them is still ahead: all pages were full, held nothing older, and
\* there is as much before it as they skipped and held.
StillAhead(rows, w, pages, r) ==
  (Untied(rows, r) /\ r \notin w.got) =>
    /\ ~w.ended
    /\ \A g \in w.got : g.time >= r.time
    /\ Cardinality(Newer(rows, r)) >= pages * PageSize(w.request)
MissesNone(rows, w, pages) ==
  /\ w.start \subseteq rows /\ w.got \subseteq rows
  /\ \A r \in w.start : StillAhead(rows, w, pages, r)

PagesRead == IF query = NoQuery THEN walk.page ELSE walk.page - 1
WalkInv ==
  (walk # NoWalk /\ Undisturbed(walk) /\ walk.request.kind \notin {"meta", "latest"}) =>
    MissesNone(Matching(Select(walk.request)), walk, PagesRead)

LEMMA NewerFinite ==
  ASSUME NEW rows, IsFiniteSet(rows), NEW r
  PROVE  IsFiniteSet(Newer(rows, r)) /\ Cardinality(Newer(rows, r)) \in Nat
<1>1. Newer(rows, r) \in SUBSET rows BY DEF Newer
<1>2. IsFiniteSet(Newer(rows, r)) BY <1>1, FS_Subset
<1> QED BY <1>2, FS_CardinalityType

\* New readings put no reading behind.
LEMMA MissesNoneGrows ==
  ASSUME NEW rows, NEW more, rows \subseteq more, IsFiniteSet(more), NEW w, NEW w2,
         w2.start = w.start, w2.got = w.got, w2.ended = w.ended, w2.request = w.request,
         w.request \in Requests, Accepted(w.request),
         NEW pages \in Nat, MissesNone(rows, w, pages)
  PROVE  MissesNone(more, w2, pages)
<1>1. pages * PageSize(w.request) \in Nat
  <2>1. \A a, b \in Nat : a * b \in Nat OBVIOUS
  <2> QED BY <2>1, PageSizes
<1>2. ASSUME NEW r \in w.start, Untied(more, r), r \notin w.got
      PROVE  /\ ~w.ended /\ \A g \in w.got : g.time >= r.time
             /\ Cardinality(Newer(more, r)) >= pages * PageSize(w.request)
  <2>1. Untied(rows, r) BY <1>2 DEF Untied
  <2>2. /\ ~w.ended /\ \A g \in w.got : g.time >= r.time
        /\ Cardinality(Newer(rows, r)) >= pages * PageSize(w.request)
    BY <1>2, <2>1 DEF MissesNone, StillAhead
  <2>3. IsFiniteSet(rows)
    <3>1. rows \in SUBSET more OBVIOUS
    <3> QED BY <3>1, FS_Subset
  <2>4. Cardinality(Newer(rows, r)) <= Cardinality(Newer(more, r))
    <3>1. Newer(rows, r) \in SUBSET Newer(more, r) BY DEF Newer
    <3> QED BY <3>1, NewerFinite, FS_Subset
  <2> QED BY <1>1, <2>2, <2>3, <2>4, NewerFinite
<1>3. w2.start \subseteq more /\ w2.got \subseteq more BY DEF MissesNone
<1>4. ASSUME NEW r \in w2.start PROVE StillAhead(more, w2, pages, r)
  BY <1>2 DEF StillAhead
<1> QED BY <1>3, <1>4 DEF MissesNone

\* A page passes no reading that it does not hold.
LEMMA PagePassesNone ==
  ASSUME IsFiniteSet(readings), readings \subseteq Reading, NEW r \in Requests, Accepted(r),
         r.kind \notin {"meta", "latest"}, NEW page \in Nat, page >= 1,
         NEW items \in PageOf(r, page, Matching(Select(r))), NEW w, NEW w2,
         w.request = r, w2.request = r, w2.start = w.start, w2.got = w.got \cup items,
         w2.ended = (Cardinality(items) < PageSize(r)),
         MissesNone(Matching(Select(r)), w, page - 1)
  PROVE  MissesNone(Matching(Select(r)), w2, page)
<1> DEFINE rows == Matching(Select(r))
           size == PageSize(r)
           offset == (PageAsked(r, page) - 1) * PageSize(r)
<1>1. size \in Nat \ {0} /\ offset \in Nat /\ Cardinality(rows) \in Nat BY PageSlice
<1>2. PICK skipped \in SUBSET rows :
        /\ items \subseteq rows \ skipped /\ IsFiniteSet(items) /\ IsFiniteSet(skipped)
        /\ Cardinality(skipped) = IF offset <= Cardinality(rows) THEN offset ELSE Cardinality(rows)
        /\ Cardinality(rows \ skipped) = Cardinality(rows) - Cardinality(skipped)
        /\ Cardinality(items) = IF size <= Cardinality(rows \ skipped) THEN size
                                ELSE Cardinality(rows \ skipped)
        /\ \A a \in skipped, b \in rows \ skipped : MayPrecede(Select(r), a, b)
        /\ \A a \in items, b \in (rows \ skipped) \ items : MayPrecede(Select(r), a, b)
  BY PageSlice, Zenon
<1>3. offset = (page - 1) * size BY DEF PageAsked
<1>4. IsFiniteSet(rows) /\ rows \subseteq readings /\ \A b \in rows : b.time \in Nat
  <2>1. IsFiniteSet(rows) /\ rows \subseteq readings BY MatchingFinite, SelectFields
  <2>2. \A b \in Reading : b.time \in Nat BY ParametersAssumption DEF Reading
  <2> QED BY <2>1, <2>2
<1>5. \A a, b : MayPrecede(Select(r), a, b) => a.time >= b.time
  BY SelectFields DEF MayPrecede
<1>6. page * size = offset + size
  <2>1. \A a, b \in Nat : a * b = (a - 1) * b + b OBVIOUS
  <2> QED BY <2>1, <1>1, <1>3
<1>7. w.start \subseteq rows /\ w.got \subseteq rows
      /\ \A e \in w.start : StillAhead(rows, w, page - 1, e)
  BY DEF MissesNone
<1> HIDE DEF rows, size, offset
<1>8. ASSUME NEW e \in w.start, Untied(rows, e), e \notin w.got, e \notin items
      PROVE  /\ Cardinality(items) = size
             /\ \A g \in w.got \cup items : g.time >= e.time
             /\ Cardinality(Newer(rows, e)) >= page * size
  <2>1. /\ \A g \in w.got : g.time >= e.time
        /\ Cardinality(Newer(rows, e)) >= offset
    BY <1>3, <1>7, <1>8 DEF StillAhead, size
  <2>2. e \in rows /\ e.time \in Nat BY <1>4, <1>7, <1>8
  <2>3. IsFiniteSet(Newer(rows, e)) /\ Cardinality(Newer(rows, e)) \in Nat BY <1>4, NewerFinite
  <2>4. Cardinality(Newer(rows, e)) <= Cardinality(rows)
    <3>1. Newer(rows, e) \in SUBSET rows BY DEF Newer
    <3> QED BY <3>1, <1>4, FS_Subset
  <2>5. Cardinality(skipped) = offset BY <1>1, <1>2, <2>1, <2>3, <2>4
  <2>6. e \notin skipped
    <3> SUFFICES ASSUME e \in skipped PROVE FALSE OBVIOUS
    <3>1. \A b \in rows \ skipped : e.time >= b.time BY <1>2, <1>5
    <3>2. Newer(rows, e) \in SUBSET (skipped \ {e})
      BY <2>2, <1>4, <3>1 DEF Newer
    <3>3. IsFiniteSet(skipped \ {e}) /\ Cardinality(skipped \ {e}) = offset - 1
      BY <1>2, <2>5, FS_RemoveElement
    <3>4. Cardinality(Newer(rows, e)) <= offset - 1 BY <3>2, <3>3, FS_Subset
    <3> QED BY <3>4, <2>1, <2>3, <1>1
  <2>7. \A a \in skipped : a.time > e.time
    <3>1. \A a \in skipped : a.time >= e.time /\ a # e /\ a \in rows BY <1>2, <1>5, <2>2, <2>6
    <3> QED BY <3>1, <1>4, <1>8, <2>2 DEF Untied
  <2>8. \A a \in items : a.time > e.time
    <3>1. \A a \in items : a.time >= e.time /\ a # e /\ a \in rows BY <1>2, <1>5, <1>8, <2>2, <2>6
    <3> QED BY <3>1, <1>4, <1>8, <2>2 DEF Untied
  <2>9. Cardinality(items) = size
    <3>1. IsFiniteSet(rows \ skipped) BY <1>4, FS_Difference
    <3>2. items \in SUBSET (rows \ skipped) /\ items # rows \ skipped BY <1>2, <1>8, <2>2, <2>6
    <3>3. Cardinality(items) # Cardinality(rows \ skipped) BY <3>1, <3>2, FS_Subset
    <3> QED BY <3>3, <1>2
  <2>10. Cardinality(skipped \cup items) = offset + size
    <3>1. skipped \cap items = {} BY <1>2
    <3>2. Cardinality(skipped \cup items)
            = Cardinality(skipped) + Cardinality(items) - Cardinality(skipped \cap items)
      BY <1>2, FS_Union
    <3>3. Cardinality(skipped \cap items) = 0 BY <3>1, FS_EmptySet
    <3> QED BY <3>2, <3>3, <2>5, <2>9, <1>1
  <2>11. Cardinality(skipped \cup items) <= Cardinality(Newer(rows, e))
    <3>1. (skipped \cup items) \in SUBSET Newer(rows, e) BY <1>2, <2>7, <2>8 DEF Newer
    <3> QED BY <3>1, <2>3, FS_Subset
  <2>12. \A g \in items : g.time >= e.time
    <3>1. \A g \in items : g.time \in Nat BY <1>2, <1>4
    <3> QED BY <3>1, <2>2, <2>8
  <2> QED BY <1>6, <2>1, <2>9, <2>10, <2>11, <2>12
<1>9. w2.start \subseteq rows /\ w2.got \subseteq rows BY <1>2, <1>7
<1>10. ASSUME NEW e \in w2.start PROVE StillAhead(rows, w2, page, e)
  <2> SUFFICES ASSUME Untied(rows, e), e \notin w2.got
               PROVE  /\ ~w2.ended /\ \A g \in w2.got : g.time >= e.time
                      /\ Cardinality(Newer(rows, e)) >= page * size
    BY DEF StillAhead, size
  <2>1. /\ Cardinality(items) = size
        /\ \A g \in w.got \cup items : g.time >= e.time
        /\ Cardinality(Newer(rows, e)) >= page * size
    BY <1>8, <1>10
  <2>2. ~(Cardinality(items) < size) BY <2>1, <1>1
  <2>3. ~w2.ended BY <2>2 DEF size
  <2> QED BY <2>1, <2>3
<1> QED BY <1>9, <1>10 DEF MissesNone, rows

\* A step that leaves the walk and the tables alone, and neither begins nor
\* ends a request.
LEMMA WalkKept ==
  ASSUME WalkInv, UNCHANGED <<readings, status, walk>>, query = NoQuery <=> query' = NoQuery
  PROVE  WalkInv'
<1>1. PICK q : q = Select(walk.request) /\ q = Select(walk.request)' OBVIOUS
<1>2. Matching(q)' = Matching(q) BY DEF Matching, MatchesReading, MatchesSensor
<1>3. Matching(Select(walk.request)) = Matching(q) /\ Matching(Select(walk.request))' = Matching(q)'
  BY <1>1
<1>4. PagesRead' = PagesRead BY DEF PagesRead
<1> QED BY <1>2, <1>3, <1>4 DEF WalkInv, Undisturbed

LEMMA AskWalkInv ==
  ASSUME TypeInv, NEW r \in Requests, Ask(r), r.kind \notin {"meta", "latest"}, Accepted(r)
  PROVE  MissesNone(Matching(Select(walk.request)), walk, PagesRead)'
<1>1. /\ Enter(r, 1) /\ UNCHANGED <<readings, status>>
      /\ walk' = [page |-> 1, request |-> r, got |-> {}, ended |-> FALSE,
                  start |-> Matching(Select(r)), steady |-> Sensors]
  BY DEF Ask
<1>2. query' # NoQuery BY <1>1, Entering
<1>3. /\ walk'.page = 1 /\ walk'.request = r /\ walk'.got = {} /\ ~walk'.ended
      /\ walk'.start = Matching(Select(r))
  BY <1>1
<1>4. PICK q : q = Select(r) /\ q = Select(walk.request)'
  BY <1>3 DEF Select, Everything, ByTimestamps, ByGraphQL
<1>5. Matching(q)' = Matching(q) BY <1>1 DEF Matching, MatchesReading, MatchesSensor
<1>6. Matching(Select(r)) = Matching(q) /\ Matching(Select(walk.request))' = Matching(q)' BY <1>4
<1>7. PagesRead' = 0 BY <1>2, <1>3 DEF PagesRead
<1>8. ASSUME NEW e \in Matching(q) PROVE StillAhead(Matching(q), walk', 0, e)
  <2>1. Cardinality(Newer(Matching(q), e)) \in Nat BY MatchingFinite, NewerFinite DEF TypeInv
  <2>2. 0 * PageSize(walk'.request) = 0
    <3>1. PageSize(r) \in Nat BY PageSizes
    <3>2. \A a \in Nat : 0 * a = 0 OBVIOUS
    <3> QED BY <3>1, <3>2, <1>3
  <2>3. Cardinality(Newer(Matching(q), e)) >= 0 BY <2>1
  <2>4. Cardinality(Newer(Matching(q), e)) >= 0 * PageSize(walk'.request) BY <2>2, <2>3
  <2> QED BY <1>3, <2>4 DEF StillAhead
<1>9. MissesNone(Matching(q), walk', 0) BY <1>3, <1>6, <1>8 DEF MissesNone
<1> QED BY <1>5, <1>6, <1>7, <1>9

LEMMA NextWalkInv == TypeInv /\ WalkInv /\ [Next]_vars => WalkInv'
<1> SUFFICES ASSUME TypeInv, WalkInv, [Next]_vars, walk' # NoWalk, Undisturbed(walk)',
                    walk'.request.kind \notin {"meta", "latest"}
             PROVE  MissesNone(Matching(Select(walk.request)), walk, PagesRead)'
  BY DEF WalkInv
<1>0. TypeInv' BY NextTypeInv
<1>1. CASE UNCHANGED vars BY <1>1, WalkKept DEF vars, WalkInv
<1>2. CASE \E r \in Requests : Ask(r)
  <2>1. PICK r \in Requests : Ask(r) BY <1>2
  <2>2. Accepted(r) BY <2>1 DEF Ask
  <2>3. walk'.request = r BY <2>1, <2>2 DEF Ask
  <2> QED BY <2>1, <2>2, <2>3, AskWalkInv
<1>3. CASE AskNext
  <2>1. walk \in Walk /\ walk # NoWalk /\ query = NoQuery /\ Accepted(walk.request)
    BY <1>3 DEF AskNext, TypeInv, TypeOK
  <2>2. walk.page \in Nat /\ walk.request \in Requests BY <2>1 DEF Walk
  <2>3. /\ walk' = [walk EXCEPT !.page = walk.page + 1] /\ Enter(walk.request, walk.page + 1)
        /\ UNCHANGED <<readings, status>>
    BY <1>3 DEF AskNext
  <2>4. query' # NoQuery BY <2>2, <2>3, Entering
  <2>5. /\ walk'.page = walk.page + 1 /\ walk'.request = walk.request /\ walk'.got = walk.got
        /\ walk'.ended = walk.ended /\ walk'.start = walk.start /\ walk'.steady = walk.steady
    BY <2>1, <2>3 DEF Walk
  <2>6. PagesRead = walk.page /\ PagesRead' = walk.page
    BY <2>1, <2>2, <2>4, <2>5 DEF PagesRead
  <2>7. PICK q : q = Select(walk.request) /\ q = Select(walk.request)'
    BY <2>5 DEF Select, Everything, ByTimestamps, ByGraphQL
  <2>8. Matching(q)' = Matching(q) BY <2>3 DEF Matching, MatchesReading, MatchesSensor
  <2>9. Matching(Select(walk.request)) = Matching(q)
        /\ Matching(Select(walk.request))' = Matching(q)'
    BY <2>7
  <2>10. MissesNone(Matching(q), walk, walk.page)
    BY <2>1, <2>5, <2>6, <2>9 DEF WalkInv, Undisturbed
  <2>11. IsFiniteSet(Matching(q)) BY MatchingFinite DEF TypeInv
  <2>12. MissesNone(Matching(q), walk', walk.page)
    BY <2>1, <2>2, <2>5, <2>10, <2>11, MissesNoneGrows
  <2> QED BY <2>6, <2>8, <2>9, <2>12
<1>4. CASE Leave \/ Raise BY <1>4 DEF Leave, Raise
<1>5. CASE Exists \/ Count \/ ListSensors \/ Known
  <2>1. CASE walk' = NoWalk BY <2>1
  <2>2. CASE Exists /\ query' = [query EXCEPT !.pc = "count"] /\ walk' = walk
    <3>1. query \in Query /\ query # NoQuery BY <2>2, InFlight DEF Exists
    <3>2. query'.pc = "count" BY <2>2, <3>1 DEF Query
    <3>3. query' # NoQuery BY <3>2, NullsApart
    <3> QED BY <2>2, <3>1, <3>3, WalkKept DEF Exists, WalkInv
  <2>3. CASE Count
    <3>1. query \in Query /\ query # NoQuery BY <2>3, InFlight DEF Count
    <3>2. query'.pc = "page" BY <2>3, <3>1 DEF Count, Query
    <3>3. query' # NoQuery BY <3>2, NullsApart
    <3> QED BY <2>3, <3>1, <3>3, WalkKept DEF Count, WalkInv
  <2>4. CASE ListSensors \/ Known
    <3>1. walk' = walk /\ walk # NoWalk /\ walk.request.kind = "latest"
      BY <2>4, InFlight DEF ListSensors, Known, TypeInv
    <3> QED BY <3>1
  <2> QED BY <1>5, <2>1, <2>2, <2>3, <2>4 DEF Exists, Answer
<1>6. CASE FetchLatest
  <2>1. walk.request.kind = "latest" /\ walk \in Walk BY <1>6, InFlight DEF FetchLatest, TypeInv
  <2>2. walk'.request = walk.request BY <1>6, <2>1 DEF FetchLatest, Walk
  <2> QED BY <2>1, <2>2
<1>7. CASE Page
  <2>1. PICK r \in Requests,
             items \in PageOf(query.request, query.page, Matching(Select(query.request))) :
          /\ r = query.request /\ r = walk.request /\ r.kind # "latest" /\ Accepted(r)
          /\ query' = NoQuery /\ UNCHANGED <<readings, status, changes>>
          /\ walk'.request = r /\ walk'.page = walk.page /\ walk'.start = walk.start
          /\ walk'.steady = walk.steady /\ walk'.got = walk.got \cup items
          /\ walk'.ended = (Cardinality(items) < PageSize(r) \/ r.kind = "meta")
    BY <1>7, PageFields
  <2>2. query # NoQuery /\ query.page \in Nat /\ walk.page = query.page /\ walk.page >= 1
        /\ walk # NoWalk
    BY <1>7, InFlight DEF Page, TypeInv
  <2>3. PagesRead = walk.page - 1 /\ PagesRead' = walk.page BY <2>1, <2>2 DEF PagesRead
  <2>4. MissesNone(Matching(Select(r)), walk, walk.page - 1)
    BY <2>1, <2>2, <2>3 DEF WalkInv, Undisturbed
  <2>5. walk'.ended = (Cardinality(items) < PageSize(r)) /\ r.kind # "meta" BY <2>1
  <2>6. MissesNone(Matching(Select(r)), walk', walk.page)
    <3>1. IsFiniteSet(readings) /\ readings \subseteq Reading BY DEF TypeInv, TypeOK
    <3>2. items \in PageOf(r, walk.page, Matching(Select(r))) BY <2>1, <2>2
    <3> QED BY <3>1, <3>2, <2>1, <2>2, <2>4, <2>5, PagePassesNone
  <2>7. PICK q : q = Select(r) /\ q = Select(walk.request)'
    BY <2>1 DEF Select, Everything, ByTimestamps, ByGraphQL
  <2>8. Matching(q)' = Matching(q) BY <2>1 DEF Matching, MatchesReading, MatchesSensor
  <2>9. Matching(Select(r)) = Matching(q) /\ Matching(Select(walk.request))' = Matching(q)'
    BY <2>7
  <2> QED BY <2>3, <2>6, <2>8, <2>9
<1>8. CASE \/ \E s \in Sensors, t \in Times, v \in Values : Store(s, t, v)
           \/ \E s \in Sensors, new \in Rows : Change(s, new)
  <2>1. PICK s \in Sensors : \/ \E t \in Times, v \in Values : Store(s, t, v)
                             \/ \E new \in Rows : Change(s, new)
    BY <1>8
  <2>2. walk # NoWalk /\ walk.request = walk'.request
    <3>1. CASE \E t \in Times, v \in Values : Store(s, t, v) BY <3>1, StoreStep, PastWalk
    <3>2. CASE \E new \in Rows : Change(s, new) BY <3>2, ChangeStep, PastWalk
    <3> QED BY <2>1, <3>1, <3>2
  <2>3. /\ Undisturbed(walk) /\ walk'.request = walk.request /\ query' = query
        /\ walk'.page = walk.page /\ walk'.start = walk.start /\ walk'.got = walk.got
        /\ walk'.ended = walk.ended
        /\ Matching(Select(walk.request)) \subseteq Matching(Select(walk.request))'
        /\ IsFiniteSet(readings')
    BY <2>1, <2>2, WriterLosesNothing DEF Undisturbed
  <2>4. MissesNone(Matching(Select(walk.request)), walk, PagesRead) BY <2>2, <2>3 DEF WalkInv
  <2>5. PagesRead' = PagesRead /\ PagesRead \in Nat
    <3>1. walk \in Walk /\ walk.page >= 1 BY <2>2 DEF TypeInv, TypeOK
    <3>2. walk.page \in Nat BY <3>1 DEF Walk
    <3> QED BY <2>3, <3>1, <3>2 DEF PagesRead
  <2>6. walk.request \in Requests /\ Accepted(walk.request) BY <2>2 DEF TypeInv, TypeOK, Walk
  <2>7. IsFiniteSet(Matching(Select(walk.request))')
    <3>1. IsFiniteSet(Matching(Select(walk.request))) BY MatchingFinite DEF TypeInv
    <3>2. \A q : IsFiniteSet(readings') => IsFiniteSet(Matching(q)')
      <4> SUFFICES ASSUME NEW q, IsFiniteSet(readings') PROVE IsFiniteSet(Matching(q)') OBVIOUS
      <4>1. Matching(q)' \in SUBSET readings' \/ Matching(q)' \in SUBSET Sensors BY DEF Matching
      <4> QED BY <4>1, FS_Subset, ParametersAssumption
    <3>3. PICK q : q = Select(walk.request)' OBVIOUS
    <3>4. Matching(Select(walk.request))' = Matching(q)' BY <3>3
    <3> QED BY <2>3, <3>2, <3>4
  <2>8. MissesNone(Matching(Select(walk.request))', walk', PagesRead)
    BY <2>3, <2>4, <2>5, <2>6, <2>7, MissesNoneGrows
  <2> QED BY <2>5, <2>8
<1> QED BY <1>1, <1>2, <1>3, <1>4, <1>5, <1>6, <1>7, <1>8 DEF Next

(* Reading the pages of a query one after another misses no reading of the *)
(* start unless it shares its time with another or a sensor it filters by  *)
(* changed, for pages of any size and any number, however many readings    *)
(* are stored meanwhile.                                                   *)
THEOREM WalksMissOnlyTies == Spec => []WalkMissesOnlyTies
<1>1. Init => WalkInv BY DEF Init, WalkInv
<1>2. TypeInv /\ WalkInv => WalkMissesOnlyTies
  <2> SUFFICES ASSUME TypeInv, WalkInv, query = NoQuery, walk # NoWalk, Undisturbed(walk),
                      walk.request.kind \notin {"meta", "latest"},
                      NEW r \in walk.start,
                      walk.ended \/ \E g \in walk.got : g.time < r.time,
                      r \notin walk.got
               PROVE  \E b \in Matching(Select(walk.request)) \ {r} : b.time = r.time
    BY DEF WalkMissesOnlyTies
  <2>1. MissesNone(Matching(Select(walk.request)), walk, PagesRead) BY DEF WalkInv
  <2>2. StillAhead(Matching(Select(walk.request)), walk, PagesRead, r) BY <2>1 DEF MissesNone
  <2>3. walk.request \in Requests BY DEF TypeInv, TypeOK, Walk
  <2>4. \A b \in Matching(Select(walk.request)) : b.time \in Nat
    <3>1. Matching(Select(walk.request)) \subseteq readings
      BY <2>3, MatchingFinite, SelectFields DEF TypeInv
    <3>2. \A b \in Reading : b.time \in Nat BY ParametersAssumption DEF Reading
    <3> QED BY <3>1, <3>2 DEF TypeInv, TypeOK
  <2>5. r.time \in Nat /\ \A g \in walk.got : g.time \in Nat BY <2>1, <2>4 DEF MissesNone
  <2> QED BY <2>2, <2>5 DEF StillAhead, Untied
<1> QED BY <1>1, <1>2, NextWalkInv, TypeInvHolds, PTL DEF Spec

-----------------------------------------------------------------------------
(* Queries: how often a sensor occurs.                                     *)

Occurrences(q, s) == Cardinality({i \in DOMAIN q : q[i] = s})
Devices(entries) == [i \in DOMAIN entries |-> entries[i].device]
TimesListed(ids, s) == IF ids = <<>> THEN 1 ELSE Occurrences(ids, s)

LEMMA OccurrencesFinite ==
  ASSUME NEW S, NEW q \in Seq(S), NEW s
  PROVE  IsFiniteSet({i \in DOMAIN q : q[i] = s}) /\ Occurrences(q, s) \in Nat
<1>1. DOMAIN q = 1 .. Len(q) /\ Len(q) \in Nat OBVIOUS
<1>2. IsFiniteSet(1 .. Len(q)) BY <1>1, FS_Interval
<1>3. {i \in DOMAIN q : q[i] = s} \in SUBSET (1 .. Len(q)) BY <1>1
<1>4. IsFiniteSet({i \in DOMAIN q : q[i] = s}) BY <1>2, <1>3, FS_Subset
<1> QED BY <1>4, FS_CardinalityType DEF Occurrences

LEMMA OccurrencesEmpty == ASSUME NEW s PROVE Occurrences(<<>>, s) = 0
<1>1. {i \in DOMAIN <<>> : <<>>[i] = s} = {} OBVIOUS
<1> QED BY <1>1, FS_EmptySet DEF Occurrences

LEMMA AppendParts ==
  ASSUME NEW S, NEW q \in Seq(S), NEW x \in S
  PROVE  /\ DOMAIN Append(q, x) = 1 .. Len(q) + 1
         /\ \A i \in 1 .. Len(q) : Append(q, x)[i] = q[i]
         /\ Append(q, x)[Len(q) + 1] = x
         /\ Append(q, x) \in [1 .. Len(q) + 1 -> S]
<1>1. Append(q, x) \in Seq(S) /\ Len(Append(q, x)) = Len(q) + 1
  OBVIOUS
<1>2. Append(q, x) \in [1 .. Len(q) + 1 -> S]
  <2>1. \A t \in Seq(S) : t \in [1 .. Len(t) -> S] OBVIOUS
  <2>2. Append(q, x) \in [1 .. Len(Append(q, x)) -> S] BY <1>1, <2>1
  <2> QED BY <1>1, <2>2
<1>3. /\ \A i \in 1 .. Len(q) : Append(q, x)[i] = q[i]
      /\ Append(q, x)[Len(q) + 1] = x
  OBVIOUS
<1> QED BY <1>2, <1>3

LEMMA OccurrencesAppend ==
  ASSUME NEW S, NEW q \in Seq(S), NEW x \in S, NEW s
  PROVE  Occurrences(Append(q, x), s) = Occurrences(q, s) + (IF x = s THEN 1 ELSE 0)
<1> DEFINE old == {i \in DOMAIN q : q[i] = s}
           all == {i \in DOMAIN Append(q, x) : Append(q, x)[i] = s}
<1>1. IsFiniteSet(old) /\ Cardinality(old) \in Nat BY OccurrencesFinite DEF Occurrences
<1>2. /\ DOMAIN q = 1 .. Len(q) /\ Len(q) \in Nat /\ DOMAIN Append(q, x) = 1 .. Len(q) + 1
      /\ \A i \in 1 .. Len(q) : Append(q, x)[i] = q[i]
      /\ Append(q, x)[Len(q) + 1] = x
  OBVIOUS
<1>3. Len(q) + 1 \notin old BY <1>2
<1>6. Occurrences(q, s) = Cardinality(old) /\ Occurrences(Append(q, x), s) = Cardinality(all)
  BY DEF Occurrences
<1> HIDE DEF old, all
<1>4. CASE x = s
  <2>1. all = old \cup {Len(q) + 1} BY <1>2, <1>4 DEF old, all
  <2>2. Cardinality(all) = Cardinality(old) + 1 BY <2>1, <1>1, <1>3, FS_AddElement
  <2> QED BY <2>2, <1>4, <1>6
<1>5. CASE x # s
  <2>1. all = old BY <1>2, <1>5 DEF old, all
  <2> QED BY <2>1, <1>1, <1>5, <1>6
<1> QED BY <1>4, <1>5

LEMMA OccurrencesTail ==
  ASSUME NEW S, NEW q \in Seq(S), q # <<>>, NEW s
  PROVE  Occurrences(q, s) = Occurrences(Tail(q), s) + (IF Head(q) = s THEN 1 ELSE 0)
<1> DEFINE tail == {i \in DOMAIN Tail(q) : Tail(q)[i] = s}
           rest == {i \in 2 .. Len(q) : q[i] = s}
           all == {i \in DOMAIN q : q[i] = s}
           f == [i \in tail |-> i + 1]
<1>1. /\ DOMAIN q = 1 .. Len(q) /\ Len(q) \in Nat /\ Len(q) >= 1 /\ Head(q) = q[1]
      /\ Tail(q) \in Seq(S) /\ DOMAIN Tail(q) = 1 .. Len(q) - 1
      /\ \A i \in 1 .. Len(q) - 1 : Tail(q)[i] = q[i + 1]
  OBVIOUS
<1>2. IsFiniteSet(tail) /\ Cardinality(tail) \in Nat BY <1>1, OccurrencesFinite DEF Occurrences
<1>3. IsFiniteSet(rest) /\ Cardinality(rest) = Cardinality(tail)
  <2>1. \A i \in tail : i \in 1 .. Len(q) - 1 /\ i + 1 \in rest BY <1>1
  <2>2. \A j \in rest : j - 1 \in tail /\ (j - 1) + 1 = j BY <1>1
  <2>3. f \in Injection(tail, rest)
    <3>1. f \in [tail -> rest] BY <2>1
    <3>2. \A a, b \in tail : f[a] = f[b] => a = b BY <2>1
    <3> QED BY <3>1, <3>2 DEF Injection, IsInjective
  <2>4. f \in Surjection(tail, rest)
    <3>1. f \in [tail -> rest] BY <2>1
    <3>2. \A j \in rest : \E i \in tail : f[i] = j BY <2>2
    <3> QED BY <3>1, <3>2 DEF Surjection
  <2>5. ExistsBijection(tail, rest) BY <2>3, <2>4 DEF ExistsBijection, Bijection
  <2> HIDE DEF tail, rest, f
  <2> QED BY <2>5, <1>2, FS_Bijection
<1>4. 1 \notin rest OBVIOUS
<1>7. Occurrences(q, s) = Cardinality(all) /\ Occurrences(Tail(q), s) = Cardinality(tail)
  BY DEF Occurrences
<1> HIDE DEF all, rest, tail
<1>5. CASE Head(q) = s
  <2>1. all = rest \cup {1} BY <1>1, <1>5 DEF all, rest
  <2>2. Cardinality(all) = Cardinality(rest) + 1 BY <2>1, <1>3, <1>4, FS_AddElement
  <2> QED BY <2>2, <1>3, <1>5, <1>7
<1>6. CASE Head(q) # s
  <2>1. all = rest BY <1>1, <1>6 DEF all, rest
  <2> QED BY <2>1, <1>2, <1>3, <1>6, <1>7
<1> QED BY <1>5, <1>6

\* An enumeration of a finite set holds each member once.
LEMMA OccurrencesOnce ==
  ASSUME NEW S, IsFiniteSet(S), NEW all \in [1 .. Cardinality(S) -> S],
         \A i, j \in 1 .. Cardinality(S) : i # j => all[i] # all[j], NEW s \in S
  PROVE  Occurrences(all, s) = 1
<1>1. Cardinality(S) \in Nat BY FS_CardinalityType
<1>2. IsFiniteSet(1 .. Cardinality(S)) /\ Cardinality(1 .. Cardinality(S)) = Cardinality(S)
  BY <1>1, FS_Interval
<1>3. all \in Injection(1 .. Cardinality(S), S) BY DEF Injection, IsInjective
<1>4. all \in Surjection(1 .. Cardinality(S), S) BY <1>2, <1>3, FS_Injection
<1>5. PICK k \in 1 .. Cardinality(S) : all[k] = s BY <1>4 DEF Surjection
<1>6. {i \in DOMAIN all : all[i] = s} = {k} BY <1>5
<1> QED BY <1>6, FS_Singleton DEF Occurrences

LEMMA DevicesOf ==
  ASSUME NEW found \in Seq(Reading)
  PROVE  /\ Devices(found) \in Seq(Sensors) /\ DOMAIN Devices(found) = DOMAIN found
         /\ \A e \in Reading : Devices(Append(found, e)) = Append(Devices(found), e.device)
<1>1. DOMAIN found = 1 .. Len(found) /\ Len(found) \in Nat
      /\ \A i \in 1 .. Len(found) : found[i] \in Reading
  OBVIOUS
<1>2. \A e \in Reading : e.device \in Sensors BY DEF Reading
<1>3. Devices(found) \in [1 .. Len(found) -> Sensors] BY <1>1, <1>2 DEF Devices
<1>4. Devices(found) \in Seq(Sensors) /\ Len(Devices(found)) = Len(found) BY <1>1, <1>3
<1>5. ASSUME NEW e \in Reading
      PROVE  Devices(Append(found, e)) = Append(Devices(found), e.device)
  <2>1. /\ DOMAIN Append(found, e) = 1 .. Len(found) + 1
        /\ \A i \in 1 .. Len(found) : Append(found, e)[i] = found[i]
        /\ Append(found, e)[Len(found) + 1] = e
    BY <1>1
  <2>2. /\ DOMAIN Append(Devices(found), e.device) = 1 .. Len(found) + 1
        /\ \A i \in 1 .. Len(found) : Append(Devices(found), e.device)[i] = Devices(found)[i]
        /\ Append(Devices(found), e.device)[Len(found) + 1] = e.device
    BY <1>2, <1>4, AppendParts
  <2>3. \A i \in 1 .. Len(found) : Devices(found)[i] = found[i].device BY <1>1 DEF Devices
  <2>4. Append(Devices(found), e.device) \in [1 .. Len(found) + 1 -> Sensors]
    BY <1>2, <1>4, AppendParts
  <2>5. \A i \in 1 .. Len(found) + 1 :
          Append(Devices(found), e.device)[i] = Append(found, e)[i].device
    BY <2>1, <2>2, <2>3, <1>1
  <2> QED BY <2>1, <2>4, <2>5 DEF Devices
<1> QED BY <1>3, <1>4, <1>5, <1>1

-----------------------------------------------------------------------------
(* Queries: the latest readings.                                           *)

\* A sensor is as often still to be looked up, known to exist or found as it is
\* listed, and no entry of it is older than its readings of the start.
FreshSoFar(q, w, s) ==
  /\ q.pc # "list" =>
       Occurrences(q.todo, s) + Occurrences(q.valid, s) + Occurrences(Devices(q.found), s)
         = TimesListed(q.request.ids, s)
  /\ \A i \in DOMAIN q.found : q.found[i].device = s =>
       \A b \in w.start : b.device = s => q.found[i].time >= b.time

HadReadings(w, s) == \E b \in w.start : b.device = s

LatestInv ==
  /\ (walk # NoWalk /\ walk.request.kind = "latest" /\ query = NoQuery) => walk.ended
  /\ (query # NoQuery /\ query.request.kind = "latest") =>
       /\ walk.start \subseteq readings
       /\ query.pc = "list" => query.request.ids = <<>> /\ query.valid = <<>> /\ query.found = <<>>
       /\ query.pc = "fetch" => query.todo = <<>>
       /\ \A s \in walk.steady :
            (status[s] # "none" /\ HadReadings(walk, s)) => FreshSoFar(query, walk, s)

LEMMA ListIsFresh ==
  ASSUME TypeInv, LatestInv, ListSensors
  PROVE  LatestInv'
<1> DEFINE S == {s \in Sensors : status[s] # "none"}
<1>1. query.pc = "list" /\ query # NoQuery /\ query.request.kind = "latest" /\ query \in Query
      /\ walk \in Walk
  BY InFlight DEF ListSensors, TypeInv
<1>2. PICK all \in Seq(Sensors) :
        /\ IsFiniteSet(S) /\ Len(all) = Cardinality(S)
        /\ all \in [1 .. Cardinality(S) -> S]
        /\ \A i, j \in 1 .. Cardinality(S) : i # j => all[i] # all[j]
        /\ query' \in Query' /\ query'.pc = "known" /\ query'.todo = all
        /\ query'.request = query.request /\ query'.page = query.page
        /\ query'.valid = query.valid /\ query'.found = query.found
        /\ UNCHANGED <<readings, status, walk, answer, changes>>
  BY ListSensorsStep
<1>3. /\ walk.start \subseteq readings
      /\ query.request.ids = <<>> /\ query.valid = <<>> /\ query.found = <<>>
  BY <1>1 DEF LatestInv
<1>4. ASSUME NEW s \in walk.steady, status[s] # "none"
      PROVE  FreshSoFar(query', walk', s)
  <2>1. s \in S BY <1>1, <1>4 DEF Walk
  <2>2. Occurrences(all, s) = 1
    <3> HIDE DEF S
    <3> QED BY <1>2, <2>1, OccurrencesOnce
  <2>3. Devices(<<>>) = <<>> BY DEF Devices
  <2>4. Occurrences(<<>>, s) = 0 BY OccurrencesEmpty
  <2>5. TimesListed(query'.request.ids, s) = 1 BY <1>2, <1>3 DEF TimesListed
  <2>6. query'.todo = all /\ query'.valid = <<>> /\ query'.found = <<>> BY <1>2, <1>3
  <2> QED BY <2>2, <2>3, <2>4, <2>5, <2>6 DEF FreshSoFar
<1>5. query'.pc = "known" /\ query' # NoQuery /\ query'.request = query.request
  BY <1>2, NullsApart
<1> QED BY <1>2, <1>3, <1>4, <1>5 DEF LatestInv

LEMMA KnownIsFresh ==
  ASSUME TypeInv, LatestInv, Known
  PROVE  LatestInv'
<1>1. query.pc = "known" /\ query # NoQuery /\ query.request.kind = "latest" /\ query \in Query
  BY InFlight DEF Known, TypeInv
<1>2. UNCHANGED <<readings, status, walk, answer, changes>> BY DEF Known
<1>3. /\ query' \in Query' /\ query'.request = query.request /\ query'.found = query.found
      /\ query.todo = <<>> => query'.pc = "fetch" /\ query'.todo = <<>>
                             /\ query'.valid = query.valid
      /\ query.todo # <<>> =>
           /\ query'.pc = "known" /\ query'.todo = Tail(query.todo)
           /\ query'.valid = IF status[Head(query.todo)] # "none"
                               THEN Append(query.valid, Head(query.todo)) ELSE query.valid
  BY KnownStep
<1>4. query.todo \in Seq(Sensors) /\ query.valid \in Seq(Sensors) BY <1>1 DEF Query
<1>5. ASSUME NEW s \in walk.steady, status[s] # "none", HadReadings(walk, s)
      PROVE  FreshSoFar(query', walk', s)
  <2>1. /\ Occurrences(query.todo, s) + Occurrences(query.valid, s) + Occurrences(Devices(query.found), s)
              = TimesListed(query.request.ids, s)
        /\ \A i \in DOMAIN query.found : query.found[i].device = s =>
             \A b \in walk.start : b.device = s => query.found[i].time >= b.time
    BY <1>1, <1>5 DEF LatestInv, FreshSoFar
  <2>2. Occurrences(query'.todo, s) + Occurrences(query'.valid, s)
          = Occurrences(query.todo, s) + Occurrences(query.valid, s)
    <3>1. CASE query.todo = <<>> BY <1>3, <3>1
    <3>2. CASE query.todo # <<>>
      <4>1. Head(query.todo) \in Sensors /\ Tail(query.todo) \in Seq(Sensors) BY <1>4, <3>2
      <4>2. Occurrences(query.todo, s)
              = Occurrences(Tail(query.todo), s) + (IF Head(query.todo) = s THEN 1 ELSE 0)
        BY <1>4, <3>2, OccurrencesTail
      <4>3. Occurrences(Tail(query.todo), s) \in Nat /\ Occurrences(query.valid, s) \in Nat
        BY <1>4, <4>1, OccurrencesFinite
      <4>4. CASE status[Head(query.todo)] # "none"
        <5>1. Occurrences(query'.valid, s)
                = Occurrences(query.valid, s) + (IF Head(query.todo) = s THEN 1 ELSE 0)
          <6>1. query'.valid = Append(query.valid, Head(query.todo)) BY <1>3, <3>2, <4>4
          <6> QED BY <1>4, <4>1, <6>1, OccurrencesAppend
        <5> QED BY <1>3, <3>2, <4>2, <4>3, <5>1
      <4>5. CASE status[Head(query.todo)] = "none"
        <5>1. Head(query.todo) # s BY <1>5, <4>5
        <5> QED BY <1>3, <3>2, <4>2, <4>3, <4>5, <5>1
      <4> QED BY <4>4, <4>5
    <3> QED BY <3>1, <3>2
  <2> QED BY <1>2, <1>3, <2>1, <2>2 DEF FreshSoFar
<1>6. query' # NoQuery /\ query'.pc # "list" /\ (query'.pc = "fetch" => query'.todo = <<>>)
      /\ query'.request = query.request
  BY <1>3, NullsApart
<1>7. walk.start \subseteq readings BY <1>1 DEF LatestInv
<1> QED BY <1>1, <1>2, <1>5, <1>6, <1>7 DEF LatestInv, HadReadings

LEMMA FetchIsFresh ==
  ASSUME TypeInv, LatestInv, FetchLatest, query.valid # <<>>
  PROVE  LatestInv'
<1> DEFINE h == Head(query.valid)
<1>1. query.pc = "fetch" /\ query # NoQuery /\ query.request.kind = "latest" /\ query \in Query
  BY InFlight DEF FetchLatest, TypeInv
<1>2. query.valid \in Seq(Sensors) /\ query.found \in Seq(Reading) /\ h \in Sensors
  BY <1>1 DEF Query
<1>3. /\ query' \in Query' /\ query'.request = query.request /\ query'.pc = "fetch"
      /\ query'.todo = query.todo /\ query'.valid = Tail(query.valid)
      /\ UNCHANGED <<readings, status, walk, answer, changes>>
      /\ \/ query'.found = query.found /\ \A b \in readings : b.device # h
         \/ \E e \in readings :
              /\ query'.found = Append(query.found, e) /\ e.device = h
              /\ \A b \in readings : b.device = h => e.time >= b.time
  BY FetchStep
<1>4. walk.start \subseteq readings /\ query.todo = <<>> /\ readings \subseteq Reading
  BY <1>1 DEF LatestInv, TypeInv, TypeOK
<1>5. ASSUME NEW s \in walk.steady, status[s] # "none", HadReadings(walk, s)
      PROVE  FreshSoFar(query', walk', s)
  <2>1. /\ Occurrences(query.todo, s) + Occurrences(query.valid, s) + Occurrences(Devices(query.found), s)
              = TimesListed(query.request.ids, s)
        /\ \A i \in DOMAIN query.found : query.found[i].device = s =>
             \A b \in walk.start : b.device = s => query.found[i].time >= b.time
    BY <1>1, <1>5 DEF LatestInv, FreshSoFar
  <2>2. Occurrences(query.valid, s)
          = Occurrences(Tail(query.valid), s) + (IF h = s THEN 1 ELSE 0)
    BY <1>2, OccurrencesTail
  <2>3. /\ Occurrences(query.todo, s) \in Nat /\ Occurrences(Tail(query.valid), s) \in Nat
        /\ Occurrences(Devices(query.found), s) \in Nat
    <3>1. Tail(query.valid) \in Seq(Sensors) BY <1>2
    <3>2. query.todo \in Seq(Sensors) BY <1>1 DEF Query
    <3>3. Devices(query.found) \in Seq(Sensors) BY <1>2, DevicesOf
    <3> QED BY <3>1, <3>2, <3>3, OccurrencesFinite
  <2>4. CASE query'.found = query.found /\ \A b \in readings : b.device # h
    <3>1. h # s BY <1>4, <1>5, <2>4 DEF HadReadings
    <3>2. Occurrences(query.valid, s) = Occurrences(Tail(query.valid), s) BY <2>2, <2>3, <3>1
    <3> HIDE DEF h
    <3> QED BY <1>3, <2>1, <2>3, <2>4, <3>2 DEF FreshSoFar
  <2>5. ASSUME NEW e \in readings, query'.found = Append(query.found, e), e.device = h,
               \A b \in readings : b.device = h => e.time >= b.time
        PROVE  FreshSoFar(query', walk', s)
    <3>1. Devices(query'.found) = Append(Devices(query.found), h)
      BY <1>2, <1>4, <2>5, DevicesOf
    <3>2. Occurrences(Devices(query'.found), s)
            = Occurrences(Devices(query.found), s) + (IF h = s THEN 1 ELSE 0)
      <4>1. Devices(query.found) \in Seq(Sensors) BY <1>2, DevicesOf
      <4> HIDE DEF h
      <4> QED BY <1>2, <3>1, <4>1, OccurrencesAppend
    <3>3. ASSUME NEW i \in DOMAIN query'.found, query'.found[i].device = s,
                 NEW b \in walk.start, b.device = s
          PROVE  query'.found[i].time >= b.time
      <4>1. /\ DOMAIN query'.found = 1 .. Len(query.found) + 1
            /\ \A k \in 1 .. Len(query.found) : query'.found[k] = query.found[k]
            /\ query'.found[Len(query.found) + 1] = e
        <5>1. e \in Reading BY <1>4, <2>5
        <5> QED BY <1>2, <2>5, <5>1, AppendParts
      <4>2. CASE i \in 1 .. Len(query.found)
        <5>1. i \in DOMAIN query.found BY <1>2, <4>2
        <5> QED BY <2>1, <3>3, <4>1, <4>2, <5>1
      <4>3. CASE i = Len(query.found) + 1
        BY <1>4, <2>5, <3>3, <4>1, <4>3
      <4>4. Len(query.found) \in Nat BY <1>2
      <4> QED BY <3>3, <4>1, <4>2, <4>3, <4>4
    <3>4. Occurrences(query'.todo, s) + Occurrences(query'.valid, s)
            + Occurrences(Devices(query'.found), s)
          = TimesListed(query'.request.ids, s)
      <4> HIDE DEF h
      <4> QED BY <1>3, <2>1, <2>2, <2>3, <3>2
    <3> QED BY <1>3, <3>3, <3>4 DEF FreshSoFar
  <2> HIDE DEF h
  <2> QED BY <1>3, <2>4, <2>5
<1>6. query' # NoQuery /\ query'.pc # "list" /\ query'.todo = <<>> /\ query'.request = query.request
  BY <1>3, <1>4, NullsApart
<1> QED BY <1>1, <1>3, <1>4, <1>5, <1>6 DEF LatestInv, HadReadings

LEMMA AskIsFresh ==
  ASSUME TypeInv, NEW r \in Requests, Ask(r)
  PROVE  LatestInv'
<1>1. CASE ~Accepted(r) BY <1>1 DEF Ask, LatestInv
<1>2. CASE Accepted(r)
  <2>1. Enter(r, 1) /\ UNCHANGED <<readings, status>>
        /\ walk' = [page |-> 1, request |-> r, got |-> {}, ended |-> FALSE,
                    start |-> IF r.kind = "latest" THEN readings ELSE Matching(Select(r)),
                    steady |-> Sensors]
    BY <1>2 DEF Ask
  <2>2. /\ query' # NoQuery /\ query'.request = r /\ query'.pc = Starts(r)
        /\ query'.todo = (IF r.kind = "latest" THEN r.ids ELSE <<>>)
        /\ query'.valid = <<>> /\ query'.found = <<>>
    BY <2>1, Entering
  <2> SUFFICES ASSUME r.kind = "latest" PROVE LatestInv'
    BY <2>2 DEF LatestInv
  <2>3. walk'.start = readings BY <2>1
  <2>4. query'.pc = IF r.ids = <<>> THEN "list" ELSE "known" BY <2>2 DEF Starts
  <2>5. ASSUME NEW s PROVE FreshSoFar(query', walk', s)
    <3>1. Devices(<<>>) = <<>> BY DEF Devices
    <3>2. Occurrences(<<>>, s) = 0 BY OccurrencesEmpty
    <3>3. Occurrences(r.ids, s) \in Nat BY RequestFields, OccurrencesFinite
    <3>4. query'.todo = r.ids /\ Devices(query'.found) = <<>> BY <2>2, <3>1
    <3> QED BY <2>2, <2>4, <3>2, <3>3, <3>4 DEF FreshSoFar, TimesListed
  <2>6. query'.pc = "list" => r.ids = <<>> BY <2>4
  <2>7. query'.pc # "fetch" BY <2>4
  <2> QED BY <2>1, <2>2, <2>3, <2>5, <2>6, <2>7 DEF LatestInv
<1> QED BY <1>1, <1>2

LEMMA NextLatestInv == TypeInv /\ LatestInv /\ [Next]_vars => LatestInv'
<1> SUFFICES ASSUME TypeInv, LatestInv, [Next]_vars PROVE LatestInv' OBVIOUS
<1>1. CASE UNCHANGED vars BY <1>1 DEF vars, LatestInv
<1>2. CASE \E r \in Requests : Ask(r) BY <1>2, AskIsFresh
<1>3. CASE AskNext
  <2>1. walk.request.kind # "latest" BY <1>3 DEF AskNext, LatestInv
  <2>2. walk.request \in Requests /\ walk.page + 1 \in Nat
    BY <1>3 DEF AskNext, TypeInv, TypeOK, Walk
  <2>3. query' # NoQuery /\ query'.request = walk.request
    BY <1>3, <2>2, Entering DEF AskNext
  <2> QED BY <2>1, <2>3 DEF LatestInv
<1>4. CASE Leave \/ Raise
  BY <1>4 DEF Leave, Raise, Answer, LatestInv
<1>5. CASE Exists \/ Count \/ Page
  <2>1. query.request.kind # "latest" /\ query \in Query /\ walk.request = query.request
        /\ walk \in Walk
        /\ query # NoQuery
    BY <1>5, InFlight DEF Exists, Count, Page, TypeInv
  <2>2. CASE Page
    <3>1. query' = NoQuery /\ walk'.request = walk.request BY <2>2, PageFields
    <3> QED BY <2>1, <3>1 DEF LatestInv
  <2>3. CASE Count
    <3>1. query'.request = query.request /\ query'.pc = "page" BY <2>1, <2>3 DEF Count, Query
    <3>2. query' # NoQuery BY <3>1, NullsApart
    <3> QED BY <2>1, <3>1, <3>2 DEF LatestInv
  <2>4. CASE query' = NoQuery /\ walk' = NoWalk BY <2>4 DEF LatestInv
  <2>5. CASE query' = [query EXCEPT !.pc = "count"]
    <3>1. query'.request = query.request /\ query'.pc = "count" BY <2>1, <2>5 DEF Query
    <3>2. query' # NoQuery BY <3>1, NullsApart
    <3> QED BY <2>1, <3>1, <3>2 DEF LatestInv
  <2> QED BY <1>5, <2>2, <2>3, <2>4, <2>5 DEF Exists, Answer
<1>6. CASE ListSensors BY <1>6, ListIsFresh
<1>7. CASE Known BY <1>7, KnownIsFresh
<1>8. CASE FetchLatest
  <2>1. CASE query.valid # <<>> BY <1>8, <2>1, FetchIsFresh
  <2>2. CASE query.valid = <<>>
    <3>1. query' = NoQuery /\ walk' = [walk EXCEPT !.ended = TRUE]
      BY <1>8, <2>2 DEF FetchLatest, Answer
    <3>2. walk \in Walk BY <1>8, InFlight DEF FetchLatest
    <3>3. walk'.ended BY <3>1, <3>2 DEF Walk
    <3> QED BY <3>1, <3>3 DEF LatestInv
  <2> QED BY <2>1, <2>2
<1>9. CASE \E s \in Sensors, t \in Times, v \in Values : Store(s, t, v)
  <2>1. /\ readings \subseteq readings' /\ walk' = Past(walk) /\ UNCHANGED <<status, query>>
    BY <1>9, StoreStep
  <2>2. walk' = walk \/ (walk' = NoWalk /\ query = NoQuery) BY <2>1, PastWalk
  <2> QED BY <2>1, <2>2 DEF LatestInv
<1>10. CASE \E s \in Sensors, new \in Rows : Change(s, new)
  <2>1. PICK s \in Sensors, new \in Rows : Change(s, new) BY <1>10
  <2>2. CASE Past(walk) = NoWalk
    <3>1. walk' = NoWalk /\ query = NoQuery /\ query' = query BY <2>1, <2>2, ChangeStep, PastWalk
    <3> QED BY <3>1 DEF LatestInv
  <2>3. CASE Past(walk) # NoWalk
    <3>1. /\ UNCHANGED <<readings, query>> /\ status' = [status EXCEPT ![s] = new]
          /\ walk'.request = walk.request /\ walk'.start = walk.start
          /\ walk'.ended = walk.ended /\ walk'.steady = walk.steady \ {s}
          /\ walk # NoWalk /\ walk \in Walk
      BY <2>1, <2>3, ChangeStep, PastWalk DEF TypeInv, TypeOK
    <3>2. \A u \in walk'.steady : u \in walk.steady /\ status'[u] = status[u]
      BY <3>1 DEF TypeInv, TypeOK, Walk
    <3>3. \A u : HadReadings(walk', u) <=> HadReadings(walk, u) BY <3>1 DEF HadReadings
    <3>4. \A u : FreshSoFar(query, walk, u) => FreshSoFar(query', walk', u)
      BY <3>1 DEF FreshSoFar
    <3> QED BY <3>1, <3>2, <3>3, <3>4 DEF LatestInv
  <2> QED BY <2>2, <2>3
<1> QED BY <1>1, <1>2, <1>3, <1>4, <1>5, <1>6, <1>7, <1>8, <1>9, <1>10 DEF Next

LEMMA LatestInvHolds == Spec => []LatestInv
<1>1. Init => LatestInv BY DEF Init, LatestInv
<1> QED BY <1>1, NextLatestInv, TypeInvHolds, PTL DEF Spec

(* The latest readings hold one entry for each time a sensor is listed     *)
(* that was registered throughout and had a reading, none older than what  *)
(* was stored when the call began, for any list and any number of sensors  *)
(* that come, go and report meanwhile.                                     *)
THEOREM LatestAreFresh == Spec => []LatestIsFresh
<1>1. Init => LatestIsFresh BY DEF Init, LatestIsFresh, NoAnswer
<1>2. TypeInv /\ LatestInv /\ LatestIsFresh /\ [Next]_vars => LatestIsFresh'
  <2> SUFFICES ASSUME TypeInv, LatestInv, LatestIsFresh, [Next]_vars, answer'.kind = "latest"
               PROVE  LatestIsFresh'
    BY DEF LatestIsFresh
  <2>1. CASE UNCHANGED vars BY <2>1 DEF vars, LatestIsFresh
  <2>2. CASE FetchLatest /\ query.valid = <<>>
    <3>1. answer' = [kind |-> "latest", found |-> query.found] /\ UNCHANGED <<readings, status>>
          /\ walk' = [walk EXCEPT !.ended = TRUE]
      BY <2>2 DEF FetchLatest, Answer
    <3>2. query \in Query /\ walk \in Walk /\ query # NoQuery /\ query.pc = "fetch"
          /\ query.request.kind = "latest" /\ walk.request = query.request
      BY <2>2, InFlight DEF FetchLatest, TypeInv
    <3>3. /\ walk'.request = walk.request /\ walk'.start = walk.start /\ walk'.steady = walk.steady
          /\ answer'.found = query.found
      BY <3>1, <3>2 DEF Walk
    <3>4. ASSUME NEW s \in walk.steady, status[s] # "none", HadReadings(walk, s)
          PROVE  /\ Cardinality({i \in DOMAIN query.found : query.found[i].device = s})
                       = TimesListed(query.request.ids, s)
                 /\ \A i \in DOMAIN query.found : query.found[i].device = s =>
                      \A b \in walk.start : b.device = s => query.found[i].time >= b.time
      <4>1. FreshSoFar(query, walk, s) /\ query.todo = <<>> BY <3>2, <3>4 DEF LatestInv
      <4>2. query.found \in Seq(Reading) BY <3>2 DEF Query
      <4>3. Occurrences(<<>>, s) = 0 BY OccurrencesEmpty
      <4>4. Occurrences(Devices(query.found), s) \in Nat BY <4>2, DevicesOf, OccurrencesFinite
      <4>5. Occurrences(Devices(query.found), s) = TimesListed(query.request.ids, s)
        BY <2>2, <3>2, <4>1, <4>3, <4>4 DEF FreshSoFar
      <4>6. {i \in DOMAIN Devices(query.found) : Devices(query.found)[i] = s}
              = {i \in DOMAIN query.found : query.found[i].device = s}
        BY DEF Devices
      <4> QED BY <4>1, <4>5, <4>6 DEF FreshSoFar, Occurrences
    <3>5. \A s : HadReadings(walk, s) <=> {b \in walk.start : b.device = s} # {}
      BY DEF HadReadings
    <3> SUFFICES ASSUME NEW s \in walk'.steady, status'[s] # "none",
                        {b \in walk'.start : b.device = s} # {}
                 PROVE  /\ Cardinality({i \in DOMAIN answer'.found : answer'.found[i].device = s})
                              = IF walk'.request.ids = <<>> THEN 1
                                ELSE Cardinality({i \in DOMAIN walk'.request.ids : walk'.request.ids[i] = s})
                        /\ \A i \in {i \in DOMAIN answer'.found : answer'.found[i].device = s},
                              b \in {b \in walk'.start : b.device = s} :
                              answer'.found[i].time >= b.time
      BY Zenon DEF LatestIsFresh
    <3>6. s \in walk.steady /\ status[s] # "none" /\ HadReadings(walk, s) BY <3>1, <3>3, <3>5
    <3>7. /\ Cardinality({i \in DOMAIN query.found : query.found[i].device = s})
               = TimesListed(query.request.ids, s)
          /\ \A i \in DOMAIN query.found : query.found[i].device = s =>
               \A b \in walk.start : b.device = s => query.found[i].time >= b.time
      BY <3>4, <3>6
    <3>8. TimesListed(query.request.ids, s)
            = IF walk'.request.ids = <<>> THEN 1
              ELSE Cardinality({i \in DOMAIN walk'.request.ids : walk'.request.ids[i] = s})
      BY <3>2, <3>3 DEF TimesListed, Occurrences
    <3> QED BY <3>3, <3>7, <3>8
  <2> QED BY <2>1, <2>2, AnswersOf
<1> QED BY <1>1, <1>2, TypeInvHolds, LatestInvHolds, PTL DEF Spec

=============================================================================
