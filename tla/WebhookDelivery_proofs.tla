------------------------ MODULE WebhookDelivery_proofs ------------------------
(***************************************************************************)
(* Proofs of the safety properties of WebhookDelivery, for any webhooks,   *)
(* ranks and tasks, any number of attempts and any bounds.                 *)
(***************************************************************************)
EXTENDS WebhookDelivery, WellFoundedInduction, FiniteSetTheorems, TLAPS

-----------------------------------------------------------------------------
(* Induction, over sets of numbers.                                        *)

LEMMA Least ==
  ASSUME NEW T, T \subseteq Nat, T # {}
  PROVE  \E n \in T : \A m \in T : n <= m
<1>1. \E n \in T : \A m \in T : <<m, n>> \notin OpToRel(<, Nat)
  BY NatLessThanWellFounded, WFMin, Zenon
<1>2. \A m, n \in Nat : <<m, n>> \notin OpToRel(<, Nat) => n <= m
  BY DEF OpToRel
<1> QED BY <1>1, <1>2

LEMMA UpTo ==
  ASSUME NEW T, 0 \in T, NEW N \in Nat, \A n \in 0 .. N : n \in T /\ n < N => n + 1 \in T
  PROVE  \A n \in 0 .. N : n \in T
<1> DEFINE M == (0 .. N) \ T
<1> SUFFICES ASSUME M # {} PROVE FALSE
  OBVIOUS
<1>1. M \subseteq Nat
  OBVIOUS
<1> HIDE DEF M
<1>2. PICK n \in M : \A m \in M : n <= m
  BY <1>1, Least
<1> USE DEF M
<1>3. n - 1 \in 0 .. N /\ n - 1 < N /\ n - 1 \in T
  BY <1>2
<1> QED BY <1>2, <1>3

-----------------------------------------------------------------------------
(* What remove makes of a list.                                            *)

\* The equation of the recursive function in Removed, up to n.
IsKept(kept, lst, w, n) ==
  kept = [i \in 0 .. n |->
            IF i = 0 THEN <<>>
            ELSE IF lst[i].id = w THEN kept[i - 1] ELSE Append(kept[i - 1], lst[i])]

LEMMA KeptExists ==
  ASSUME NEW lst \in Seq(Config), NEW w
  PROVE  \E kept : IsKept(kept, lst, w, Len(lst))
<1> DEFINE T == {n \in 0 .. Len(lst) : \E kept : IsKept(kept, lst, w, n)}
<1>0. Len(lst) \in Nat
  OBVIOUS
<1>1. 0 \in T
  <2>1. IsKept([i \in 0 .. 0 |-> <<>>], lst, w, 0) BY DEF IsKept
  <2> QED BY <2>1, <1>0
<1>2. ASSUME NEW n \in 0 .. Len(lst), n \in T, n < Len(lst) PROVE n + 1 \in T
  <2>1. PICK kept : IsKept(kept, lst, w, n) BY <1>2
  <2> DEFINE more == [i \in 0 .. n + 1 |->
                 IF i <= n THEN kept[i]
                 ELSE IF lst[i].id = w THEN kept[i - 1] ELSE Append(kept[i - 1], lst[i])]
  <2>2. IsKept(more, lst, w, n + 1) 
    <3>1. \A i \in 0 .. n : kept[i] = IF i = 0 THEN <<>>
            ELSE IF lst[i].id = w THEN kept[i - 1] ELSE Append(kept[i - 1], lst[i])
      BY <2>1 DEF IsKept
    <3>2. \A i \in 0 .. n + 1 : more[i] = IF i = 0 THEN <<>>
            ELSE IF lst[i].id = w THEN more[i - 1] ELSE Append(more[i - 1], lst[i])
      BY <3>1
    <3> QED BY <3>2 DEF IsKept
  <2> HIDE DEF more
  <2>3. n + 1 \in 0 .. Len(lst) BY <1>2
  <2> QED BY <2>2, <2>3
<1> HIDE DEF T
<1>3. \A n \in 0 .. Len(lst) : n \in T /\ n < Len(lst) => n + 1 \in T BY <1>2
<1>4. Len(lst) \in T
  <2>1. \A n \in 0 .. Len(lst) : n \in T BY <1>0, <1>1, <1>3, UpTo
  <2> QED BY <1>0, <2>1
<1> QED BY <1>4 DEF T

LEMMA RemovedIsKept ==
  ASSUME NEW lst \in Seq(Config), NEW w
  PROVE  \E kept : IsKept(kept, lst, w, Len(lst)) /\ Removed(lst, w) = kept[Len(lst)]
<1> DEFINE chosen == CHOOSE kept : IsKept(kept, lst, w, Len(lst))
<1>1. IsKept(chosen, lst, w, Len(lst)) BY KeptExists
<1>2. Removed(lst, w) = chosen[Len(lst)] BY Zenon DEF Removed, IsKept
<1> QED BY <1>1, <1>2

\* picks is the increasing enumeration of the indices of what is kept.
Enumerates(picks, out, lst, w, n) ==
  /\ out \in Seq(Config)
  /\ picks \in [1 .. Len(out) -> 1 .. n]
  /\ \A i, j \in 1 .. Len(out) : i < j => picks[i] < picks[j]
  /\ \A i \in 1 .. Len(out) : out[i] = lst[picks[i]] /\ out[i].id # w
  /\ \A j \in 1 .. n : lst[j].id # w => \E i \in 1 .. Len(out) : picks[i] = j

LEMMA RemovedSelects ==
  ASSUME NEW lst \in Seq(Config), NEW w
  PROVE  \E picks : Enumerates(picks, Removed(lst, w), lst, w, Len(lst))
<1>1. PICK kept : IsKept(kept, lst, w, Len(lst)) /\ Removed(lst, w) = kept[Len(lst)]
  BY RemovedIsKept
<1> DEFINE T == {n \in 0 .. Len(lst) : \E picks : Enumerates(picks, kept[n], lst, w, n)}
<1>0. Len(lst) \in Nat
  OBVIOUS
<1>2. \A i \in 0 .. Len(lst) : kept[i] = IF i = 0 THEN <<>>
            ELSE IF lst[i].id = w THEN kept[i - 1] ELSE Append(kept[i - 1], lst[i])
  BY <1>1 DEF IsKept
<1>3. 0 \in T
  <2>1. Enumerates(<<>>, <<>>, lst, w, 0) BY DEF Enumerates
  <2>2. kept[0] = <<>> BY <1>2
  <2> QED BY <2>1, <2>2
<1>4. ASSUME NEW n \in 0 .. Len(lst), n \in T, n < Len(lst) PROVE n + 1 \in T
  <2>1. PICK picks : Enumerates(picks, kept[n], lst, w, n) BY <1>4
  <2>0. n + 1 \in 1 .. Len(lst) /\ n + 1 # 0 /\ (n + 1) - 1 = n BY <1>4
  <2>2. CASE lst[n + 1].id = w
    <3>1. kept[n + 1] = kept[n] BY <2>0, <2>2, <1>2
    <3>2. Enumerates(picks, kept[n + 1], lst, w, n + 1)
      BY <2>1, <2>2, <3>1 DEF Enumerates
    <3> QED BY <3>2, <2>0
  <2>3. CASE lst[n + 1].id # w
    <3>0. kept[n + 1] = Append(kept[n], lst[n + 1])
      <4>1. n + 1 \in 0 .. Len(lst) BY <2>0
      <4> QED BY <2>0, <2>3, <1>2, <4>1, Zenon
    <3> DEFINE out == kept[n]
               last == lst[n + 1]
               longer == [i \in 1 .. Len(out) + 1 |-> IF i <= Len(out) THEN picks[i] ELSE n + 1]
    <3>1. kept[n + 1] = Append(out, last) BY <3>0
    <3>2. last \in Config BY <2>0
    <3> HIDE DEF out, last
    <3>3. Enumerates(picks, out, lst, w, n) BY <2>1 DEF out
    <3>4. Enumerates(longer, Append(out, last), lst, w, n + 1)
      <4>0. out \in Seq(Config) /\ Len(out) \in Nat BY <3>3 DEF Enumerates
      <4>1. Len(Append(out, last)) = Len(out) + 1 /\ Append(out, last) \in Seq(Config)
        BY <3>2, <4>0
      <4>2. \A i \in 1 .. Len(out) : Append(out, last)[i] = out[i]
        BY <3>2, <4>0
      <4>3. Append(out, last)[Len(out) + 1] = last
        BY <3>2, <4>0
      <4>4. longer \in [1 .. Len(out) + 1 -> 1 .. n + 1] BY <3>3 DEF Enumerates
      <4>5. \A i, j \in 1 .. Len(out) + 1 : i < j => longer[i] < longer[j]
        BY <3>3, <4>0 DEF Enumerates
      <4>6. ASSUME NEW j \in 1 .. n + 1, lst[j].id # w
            PROVE  \E i \in 1 .. Len(out) + 1 : longer[i] = j
        <5>1. CASE j = n + 1
          <6>1. longer[Len(out) + 1] = j BY <5>1, <4>0
          <6> QED BY <6>1, <4>0
        <5>2. CASE j \in 1 .. n
          <6>1. PICK i \in 1 .. Len(out) : picks[i] = j BY <5>2, <4>6, <3>3 DEF Enumerates
          <6>2. longer[i] = j /\ i \in 1 .. Len(out) + 1 BY <6>1, <4>0
          <6> QED BY <6>2
        <5> QED BY <5>1, <5>2
      <4>7. ASSUME NEW i \in 1 .. Len(out) + 1
            PROVE  Append(out, last)[i] = lst[longer[i]] /\ Append(out, last)[i].id # w
        <5>1. CASE i = Len(out) + 1 BY <5>1, <4>0, <4>3, <2>3 DEF last
        <5>2. CASE i \in 1 .. Len(out) BY <5>2, <4>0, <4>2, <3>3 DEF Enumerates
        <5> QED BY <5>1, <5>2
      <4> HIDE DEF longer
      <4> QED BY <4>1, <4>4, <4>5, <4>6, <4>7 DEF Enumerates
    <3>5. n + 1 \in 0 .. Len(lst) BY <2>0, <1>0
    <3> HIDE DEF longer
    <3> QED BY <3>1, <3>4, <3>5
  <2> QED BY <2>2, <2>3
<1> HIDE DEF T
<1>5. \A n \in 0 .. Len(lst) : n \in T /\ n < Len(lst) => n + 1 \in T BY <1>4
<1>6. Len(lst) \in T
  <2>1. \A n \in 0 .. Len(lst) : n \in T BY <1>0, <1>3, <1>5, UpTo
  <2> QED BY <1>0, <2>1
<1> QED BY <1>1, <1>6 DEF T

-----------------------------------------------------------------------------
(* Lists of configs: no webhook twice, the alert processor's sorted.       *)

Elements(lst) == {lst[i] : i \in DOMAIN lst}

Ordered(lst) == \A i, j \in 1 .. Len(lst) : i < j => lst[i].rank <= lst[j].rank

WellFormed(lst, sorted) ==
  /\ lst \in Seq(Config)
  /\ \A i, j \in 1 .. Len(lst) : lst[i].id = lst[j].id => i = j
  /\ sorted => Ordered(lst)

LEMMA RankIsNat == \A c \in Config : c.rank \in Nat \ {0} /\ c.id \in Webhooks
  BY ParametersAssumption DEF Config

LEMMA RemovedWellFormed ==
  ASSUME NEW lst, NEW sorted, WellFormed(lst, sorted), NEW w
  PROVE  /\ WellFormed(Removed(lst, w), sorted)
         /\ Elements(Removed(lst, w)) = {c \in Elements(lst) : c.id # w}
<1> DEFINE out == Removed(lst, w)
<1>0. lst \in Seq(Config) BY DEF WellFormed
<1>1. PICK picks : Enumerates(picks, out, lst, w, Len(lst))
  BY <1>0, RemovedSelects
<1> HIDE DEF out
<1>2. /\ out \in Seq(Config)
      /\ picks \in [1 .. Len(out) -> 1 .. Len(lst)]
      /\ \A i, j \in 1 .. Len(out) : i < j => picks[i] < picks[j]
      /\ \A i \in 1 .. Len(out) : out[i] = lst[picks[i]] /\ out[i].id # w
      /\ \A j \in 1 .. Len(lst) : lst[j].id # w => \E i \in 1 .. Len(out) : picks[i] = j
  BY <1>1 DEF Enumerates
<1>3. \A i, j \in 1 .. Len(out) : out[i].id = out[j].id => i = j
  <2> SUFFICES ASSUME NEW i \in 1 .. Len(out), NEW j \in 1 .. Len(out), out[i].id = out[j].id
               PROVE  i = j
    OBVIOUS
  <2>1. picks[i] = picks[j] BY <1>2 DEF WellFormed
  <2> QED BY <2>1, <1>2
<1>4. sorted => Ordered(out)
  BY <1>2 DEF WellFormed, Ordered
<1>5. Elements(out) = {c \in Elements(lst) : c.id # w}
  <2>1. DOMAIN out = 1 .. Len(out) /\ DOMAIN lst = 1 .. Len(lst) BY <1>0, <1>2
  <2>2. ASSUME NEW c \in Elements(out) PROVE c \in Elements(lst) /\ c.id # w
    BY <1>2, <2>1, <2>2 DEF Elements
  <2>3. ASSUME NEW c \in Elements(lst), c.id # w PROVE c \in Elements(out)
    <3>1. PICK j \in 1 .. Len(lst) : lst[j] = c BY <2>1, <2>3 DEF Elements
    <3>2. PICK i \in 1 .. Len(out) : picks[i] = j BY <1>2, <2>3, <3>1
    <3> QED BY <1>2, <2>1, <3>1, <3>2 DEF Elements
  <2> QED BY <2>2, <2>3
<1> QED BY <1>2, <1>3, <1>4, <1>5 DEF WellFormed, out

-----------------------------------------------------------------------------
(* What add makes of a list.                                               *)

LEMMA Prefix ==
  ASSUME NEW n \in Nat, NEW S, S \subseteq 1 .. n,
         \A i, j \in 1 .. n : i < j /\ j \in S => i \in S
  PROVE  Cardinality(S) \in 0 .. n /\ S = 1 .. Cardinality(S)
<1> DEFINE Out == (1 .. n + 1) \ S
<1>1. Out \subseteq Nat /\ n + 1 \in Out OBVIOUS
<1> HIDE DEF Out
<1>2. PICK m \in Out : \A i \in Out : m <= i BY <1>1, Least
<1> USE DEF Out
<1>3. m \in 1 .. n + 1 /\ m \notin S BY <1>2
<1>4. S = 1 .. m - 1
  <2>1. ASSUME NEW i \in S PROVE i \in 1 .. m - 1 BY <1>3, <2>1
  <2>2. ASSUME NEW i \in 1 .. m - 1 PROVE i \in S BY <1>2, <1>3
  <2> QED BY <2>1, <2>2
<1>5. Cardinality(1 .. m - 1) = m - 1 BY <1>3, FS_Interval
<1> QED BY <1>3, <1>4, <1>5

\* out is lst with c put at place k.
Inserted(out, lst, c, k) ==
  /\ out \in Seq(Config) /\ k \in 1 .. Len(lst) + 1 /\ Len(out) = Len(lst) + 1
  /\ out[k] = c
  /\ \A i \in 1 .. k - 1 : out[i] = lst[i]
  /\ \A i \in k .. Len(lst) : out[i + 1] = lst[i]

LEMMA AddedInserts ==
  ASSUME NEW lst, WellFormed(lst, alert), NEW c \in Config
  PROVE  \E k : /\ Inserted(Added(lst, c), lst, c, k)
                /\ ~alert => k = Len(lst) + 1
                /\ alert => /\ \A i \in 1 .. k - 1 : lst[i].rank <= c.rank
                            /\ \A i \in k .. Len(lst) : c.rank < lst[i].rank
<1> DEFINE S == {i \in DOMAIN lst : lst[i].rank <= c.rank}
           k == IF alert THEN Cardinality(S) ELSE Len(lst)
<1>1. lst \in Seq(Config) /\ Len(lst) \in Nat /\ DOMAIN lst = 1 .. Len(lst)
  BY DEF WellFormed
<1>2. k \in 0 .. Len(lst) /\ (alert => S = 1 .. k)
  <2>1. CASE alert
    <3>1. \A i, j \in 1 .. Len(lst) : i < j /\ j \in S => i \in S
      BY <1>1, <2>1, RankIsNat DEF WellFormed, Ordered
    <3>2. S \subseteq 1 .. Len(lst) BY <1>1
    <3> HIDE DEF S
    <3>3. Cardinality(S) \in 0 .. Len(lst) /\ S = 1 .. Cardinality(S)
      BY <1>1, <3>1, <3>2, Prefix
    <3> QED BY <2>1, <3>3
  <2> QED BY <2>1, <1>1
<1>3. Added(lst, c) = SubSeq(lst, 1, k) \o <<c>> \o SubSeq(lst, k + 1, Len(lst))
  BY Zenon DEF Added
<1>4. alert => /\ \A i \in 1 .. k : lst[i].rank <= c.rank
               /\ \A i \in k + 1 .. Len(lst) : c.rank < lst[i].rank
  <2> HIDE DEF k
  <2>1. \A i \in 1 .. Len(lst) :
          (i \in S => lst[i].rank <= c.rank) /\ (i \notin S => c.rank < lst[i].rank)
    BY <1>1, RankIsNat
  <2> HIDE DEF S
  <2> QED BY <1>1, <1>2, <2>1
<1> HIDE DEF S, k
<1>5. Inserted(SubSeq(lst, 1, k) \o <<c>> \o SubSeq(lst, k + 1, Len(lst)), lst, c, k + 1)
  <2> DEFINE front == SubSeq(lst, 1, k)
             back == SubSeq(lst, k + 1, Len(lst))
  <2>1. front \in Seq(Config) /\ Len(front) = k /\ \A i \in 1 .. k : front[i] = lst[i]
    BY <1>1, <1>2
  <2>2. back \in Seq(Config) /\ Len(back) = Len(lst) - k
        /\ \A i \in 1 .. Len(lst) - k : back[i] = lst[k + i]
    <3>1. k + 1 \in 1 .. Len(lst) + 1 /\ Len(lst) - (k + 1) + 1 = Len(lst) - k
      BY <1>1, <1>2
    <3>2. back \in Seq(Config) /\ Len(back) = Len(lst) - k
      <4> DEFINE b == k + 1
      <4>1. b \in 1 .. Len(lst) + 1 /\ Len(lst) - b + 1 = Len(lst) - k BY <3>1
      <4> HIDE DEF b
      <4>2. SubSeq(lst, b, Len(lst)) \in Seq(Config)
            /\ Len(SubSeq(lst, b, Len(lst))) = Len(lst) - b + 1
        BY <1>1, <4>1
      <4> QED BY <4>1, <4>2 DEF b
    <3>3. \A i \in 1 .. Len(lst) - k : back[i] = lst[(k + 1) + i - 1]
      <4> DEFINE b == k + 1
      <4>1. b \in 1 .. Len(lst) + 1 /\ Len(lst) - b + 1 = Len(lst) - k BY <3>1
      <4> HIDE DEF b
      <4>2. \A i \in 1 .. Len(lst) - b + 1 : SubSeq(lst, b, Len(lst))[i] = lst[b + i - 1]
        BY <1>1, <4>1
      <4> QED BY <4>1, <4>2 DEF b
    <3>4. \A i \in 1 .. Len(lst) - k : (k + 1) + i - 1 = k + i
      BY <1>1, <1>2
    <3> QED BY <3>2, <3>3, <3>4
  <2> HIDE DEF front, back
  <2>3. <<c>> \in Seq(Config) /\ Len(<<c>>) = 1 /\ <<c>>[1] = c
    OBVIOUS
  <2> DEFINE out == front \o <<c>> \o back
  <2>4. out \in Seq(Config) /\ Len(out) = Len(lst) + 1
    BY <1>1, <1>2, <2>1, <2>2, <2>3
  <2>5. \A i \in 1 .. k : out[i] = lst[i]
    BY <1>1, <1>2, <2>1, <2>2, <2>3
  <2>6. out[k + 1] = c
    BY <1>1, <1>2, <2>1, <2>2, <2>3
  <2>7. ASSUME NEW i \in k + 1 .. Len(lst) PROVE out[i + 1] = lst[i]
    <3>1. i - k \in 1 .. Len(lst) - k /\ back[i - k] = lst[i]
      BY <1>1, <1>2, <2>2
    <3>2. out[i + 1] = back[i - k]
      BY <1>1, <1>2, <2>1, <2>2, <2>3, <3>1
    <3> QED BY <3>1, <3>2
  <2> HIDE DEF out
  <2>8. (k + 1) - 1 = k /\ k + 1 \in 1 .. Len(lst) + 1 BY <1>1, <1>2
  <2>9. Inserted(out, lst, c, k + 1)
    BY <2>4, <2>5, <2>6, <2>7, <2>8 DEF Inserted
  <2> QED BY <2>9, Zenon DEF out, front, back
<1>6. (k + 1) - 1 = k BY <1>2, <1>1
<1> QED BY <1>2, <1>3, <1>4, <1>5, <1>6 DEF k

LEMMA AddedWellFormed ==
  ASSUME NEW lst, WellFormed(lst, alert), NEW c \in Config,
         \A i \in DOMAIN lst : lst[i].id # c.id
  PROVE  /\ WellFormed(Added(lst, c), alert)
         /\ Elements(Added(lst, c)) = Elements(lst) \cup {c}
<1> DEFINE out == Added(lst, c)
<1>1. PICK k : /\ Inserted(out, lst, c, k)
               /\ alert => /\ \A i \in 1 .. k - 1 : lst[i].rank <= c.rank
                           /\ \A i \in k .. Len(lst) : c.rank < lst[i].rank
  BY AddedInserts
<1> HIDE DEF out
<1>2. lst \in Seq(Config) /\ Len(lst) \in Nat /\ DOMAIN lst = 1 .. Len(lst)
      /\ out \in Seq(Config) /\ DOMAIN out = 1 .. Len(out)
  BY <1>1 DEF WellFormed, Inserted
<1>3. \A i \in 1 .. Len(out) :
         \/ i < k /\ i \in 1 .. Len(lst) /\ out[i] = lst[i]
         \/ i = k /\ out[i] = c
         \/ i > k /\ i - 1 \in 1 .. Len(lst) /\ out[i] = lst[i - 1]
  <2>0. k \in 1 .. Len(lst) + 1 /\ Len(out) = Len(lst) + 1 /\ out[k] = c
        /\ \A i \in 1 .. k - 1 : out[i] = lst[i]
    BY <1>1 DEF Inserted
  <2> SUFFICES ASSUME NEW i \in 1 .. Len(out), i > k PROVE out[i] = lst[i - 1]
    BY <1>2, <2>0
  <2>1. i - 1 \in k .. Len(lst) /\ (i - 1) + 1 = i BY <1>1, <1>2 DEF Inserted
  <2>2. \A j \in k .. Len(lst) : out[j + 1] = lst[j] BY <1>1 DEF Inserted
  <2>3. out[(i - 1) + 1] = lst[i - 1] BY <2>1, <2>2
  <2> QED BY <2>1, <2>3
<1>4. k \in 1 .. Len(lst) + 1 /\ Len(out) = Len(lst) + 1 BY <1>1 DEF Inserted
<1>5. \A i, j \in 1 .. Len(out) : out[i].id = out[j].id => i = j
  <2>1. \A i, j \in 1 .. Len(lst) : lst[i].id = lst[j].id => i = j BY DEF WellFormed
  <2>2. \A i \in 1 .. Len(lst) : lst[i].id # c.id BY <1>2
  <2> SUFFICES ASSUME NEW i \in 1 .. Len(out), NEW j \in 1 .. Len(out), i # j
               PROVE  out[i].id # out[j].id
    OBVIOUS
  <2>3. \/ i < k /\ i \in 1 .. Len(lst) /\ out[i] = lst[i]
        \/ i = k /\ out[i] = c
        \/ i > k /\ i - 1 \in 1 .. Len(lst) /\ out[i] = lst[i - 1]
    BY <1>3
  <2>4. \/ j < k /\ j \in 1 .. Len(lst) /\ out[j] = lst[j]
        \/ j = k /\ out[j] = c
        \/ j > k /\ j - 1 \in 1 .. Len(lst) /\ out[j] = lst[j - 1]
    BY <1>3
  <2> QED BY <1>4, <2>1, <2>2, <2>3, <2>4
<1>6. alert => Ordered(out)
  <2> SUFFICES ASSUME alert, NEW i \in 1 .. Len(out), NEW j \in 1 .. Len(out), i < j
               PROVE  out[i].rank <= out[j].rank
    BY DEF Ordered
  <2>1. \A m, n \in 1 .. Len(lst) : m < n => lst[m].rank <= lst[n].rank
    BY DEF WellFormed, Ordered
  <2>2. /\ \A m \in 1 .. k - 1 : lst[m].rank <= c.rank
        /\ \A m \in k .. Len(lst) : c.rank < lst[m].rank
    BY <1>1
  <2>3. c.rank \in Nat /\ \A m \in 1 .. Len(lst) : lst[m].rank \in Nat
    BY <1>2, RankIsNat
  <2>4. \/ i < k /\ i \in 1 .. Len(lst) /\ out[i] = lst[i]
        \/ i = k /\ out[i] = c
        \/ i > k /\ i - 1 \in 1 .. Len(lst) /\ out[i] = lst[i - 1]
    BY <1>3
  <2>5. \/ j < k /\ j \in 1 .. Len(lst) /\ out[j] = lst[j]
        \/ j = k /\ out[j] = c
        \/ j > k /\ j - 1 \in 1 .. Len(lst) /\ out[j] = lst[j - 1]
    BY <1>3
  <2>6. k \in Int /\ i \in Int /\ j \in Int BY <1>2, <1>4
  <2>7. CASE i < k /\ j < k BY <2>1, <2>4, <2>5, <2>6, <2>7
  <2>8. CASE i < k /\ j >= k
    <3>1. lst[i].rank <= c.rank /\ lst[i].rank \in Nat BY <2>2, <2>3, <2>4, <2>6, <2>8
    <3>2. CASE j = k BY <3>1, <3>2, <2>4, <2>5, <2>6, <2>8
    <3>3. CASE j > k
      <4>1. j - 1 \in k .. Len(lst) /\ out[j] = lst[j - 1] BY <3>3, <2>5, <2>6
      <4>2. c.rank < lst[j - 1].rank /\ lst[j - 1].rank \in Nat
        BY <4>1, <2>2, <2>3, <2>5, <3>3, <2>6
      <4> QED BY <3>1, <4>1, <4>2, <2>3, <2>4, <2>6, <2>8
    <3> QED BY <3>2, <3>3, <2>6, <2>8
  <2>9. CASE i = k
    <3>1. j - 1 \in k .. Len(lst) /\ out[j] = lst[j - 1] BY <2>9, <2>5, <2>6
    <3>2. c.rank < lst[j - 1].rank /\ lst[j - 1].rank \in Nat
      BY <3>1, <2>2, <2>3, <2>5, <2>6, <2>9
    <3> QED BY <3>1, <3>2, <2>3, <2>4, <2>9
  <2>10. CASE i > k
    <3>1. i - 1 \in 1 .. Len(lst) /\ j - 1 \in 1 .. Len(lst) /\ i - 1 < j - 1
          /\ out[i] = lst[i - 1] /\ out[j] = lst[j - 1]
      BY <2>10, <2>4, <2>5, <2>6
    <3> QED BY <3>1, <2>1
  <2> QED BY <2>6, <2>7, <2>8, <2>9, <2>10
<1>7. Elements(out) = Elements(lst) \cup {c}
  <2>1. ASSUME NEW d \in Elements(out) PROVE d \in Elements(lst) \cup {c}
    BY <1>2, <1>3 DEF Elements
  <2>2. ASSUME NEW i \in 1 .. Len(lst) PROVE lst[i] \in Elements(out)
    <3>1. CASE i < k BY <3>1, <1>1, <1>2, <1>4 DEF Inserted, Elements
    <3>2. CASE i >= k
      <4>1. i + 1 \in 1 .. Len(out) /\ out[i + 1] = lst[i]
        BY <3>2, <1>1, <1>2, <1>4 DEF Inserted
      <4> QED BY <4>1, <1>2 DEF Elements
    <3> QED BY <3>1, <3>2, <1>2, <1>4
  <2>3. c \in Elements(out) BY <1>1, <1>2, <1>4 DEF Inserted, Elements
  <2> QED BY <2>1, <2>2, <2>3, <1>2 DEF Elements
<1> QED BY <1>2, <1>5, <1>6, <1>7 DEF WellFormed, out

-----------------------------------------------------------------------------
(* The invariant of a dispatch.  lst is the list it iterates, sorted says  *)
(* whether this is the alert processor's, marked holds the webhooks saved. *)

\* It posts to what it was offered, and can raise only if it may.
PlaceInv(q, lst, sorted) ==
  /\ WellFormed(lst, sorted)
  /\ q.next \in 1 .. Len(lst) + 1
  /\ Elements(lst) \subseteq q.offered
  /\ sorted \/ \A r \in Ranks : q.payload[r] = "match"

Pending(q, d, lst) == \E i \in q.next .. Len(lst) : lst[i] = d

\* What is due has been posted or lies ahead.
DueInv(q, lst) ==
  \A d \in q.history.due :
    /\ d \in Config /\ q.payload[d.rank] = "match"
    /\ q.history.visits[d.id] > 0 \/ Pending(q, d, lst)

\* What has been posted lies behind.
OnceInv(q, lst, sorted) ==
  ~(sorted /\ q.grown) =>
    \A w \in Webhooks :
      /\ q.history.visits[w] <= 1
      /\ q.history.visits[w] > 0 => \E i \in 1 .. q.next - 1 : lst[i].id = w

HeardInv(q) ==
  \A w \in Webhooks \ q.history.unsure : q.history.accepted[w] <= q.history.visits[w]

Settled(q, w, marked) ==
  \/ q.history.accepted[w] > 0
  \/ w \in q.history.refused
  \/ w \in q.history.failed \cap marked

\* Of a dispatch that has just begun or is done with a config.
Between(q, lst, sorted, marked) ==
  /\ PlaceInv(q, lst, sorted) /\ DueInv(q, lst) /\ OnceInv(q, lst, sorted) /\ HeardInv(q)
  /\ ~q.poisoned => \A w \in Webhooks : q.history.visits[w] > 0 => Settled(q, w, marked)

\* Of a dispatch at a config: it has counted the visit, but nothing else yet.
TargetInv(q, sorted, marked) ==
  /\ q.target \in q.offered
  /\ q.history.visits[q.target.id] > 0
  /\ q.pc = "post" /\ q.target.id \notin q.history.unsure =>
       q.history.accepted[q.target.id] < q.history.visits[q.target.id]
  /\ q.pc = "save" => q.target.id \in q.history.failed
  /\ sorted => \A d \in q.history.due :
       q.history.visits[d.id] > 0 \/ d.rank >= q.target.rank
  /\ ~q.poisoned => \A w \in Webhooks \ {q.target.id} :
       q.history.visits[w] > 0 => Settled(q, w, marked)

UnderInv(q, lst, sorted, marked) ==
  /\ PlaceInv(q, lst, sorted) /\ DueInv(q, lst) /\ OnceInv(q, lst, sorted) /\ HeardInv(q)
  /\ TargetInv(q, sorted, marked)

EndedInv(q, sorted, marked) ==
  /\ \A d \in q.history.due :
       q.history.visits[d.id] > 0 \/ (sorted /\ q.pc = "raised" /\ d.rank >= q.cut)
  /\ q.pc = "done" /\ ~q.poisoned => \A d \in q.history.due : Settled(q, d.id, marked)
  /\ ~(sorted /\ q.grown) => \A w \in Webhooks \ q.history.unsure : q.history.accepted[w] <= 1

TaskInv(q, lst, sorted, marked) ==
  \/ q = NoDispatch
  \/ q \in Dispatch /\ UnderInv(q, lst, sorted, marked)
  \/ q \in Ended /\ EndedInv(q, sorted, marked)

ListInv == WellFormed(list, alert) /\ registered = Elements(list)

DispatchInv == \A t \in Tasks : TaskInv(tasks[t], View(tasks[t]), alert, saved)

IInv == TypeOK /\ ListInv /\ DispatchInv

-----------------------------------------------------------------------------
(* Advance.                                                                *)

\* A dispatch at a config of S: only the type of its target differs.
DispatchAt(S) ==
  [pc : {"post", "save"}, live : BOOLEAN, own : Seq(Config), next : Nat,
   target : S, attempt : 0 .. MaxAttempts, payload : [Ranks -> Verdicts],
   poisoned : BOOLEAN, history : History, offered : SUBSET Config, grown : BOOLEAN]

Visiting(q, i) ==
  [q EXCEPT !.pc = "post", !.next = i + 1, !.target = View(q)[i], !.attempt = 1,
            !.history.visits[View(q)[i].id] = @ + 1]

SkippedTo(q, i) == \A j \in q.next .. i - 1 : Verdict(q, View(q)[j]) = "skip"

LEMMA AdvanceCases ==
  ASSUME NEW S, NEW q \in DispatchAt(S), View(q) \in Seq(Config), q.next \in 1 .. Len(View(q)) + 1
  PROVE  \/ /\ Advance(q) = End(q, "done", 0)
            /\ SkippedTo(q, Len(View(q)) + 1)
         \/ \E i \in q.next .. Len(View(q)) :
              /\ Advance(q) = End(q, "raised", View(q)[i].rank)
              /\ Verdict(q, View(q)[i]) = "raise" /\ SkippedTo(q, i)
         \/ \E i \in q.next .. Len(View(q)) :
              /\ Advance(q) = Visiting(q, i)
              /\ Verdict(q, View(q)[i]) = "match" /\ SkippedTo(q, i)
<1> DEFINE lst == View(q)
           ahead == {i \in q.next .. Len(lst) : Verdict(q, lst[i]) # "skip"}
<1>1. lst \in Seq(Config) /\ Len(lst) \in Nat /\ q.next \in Nat
  BY DEF DispatchAt
<1>2. \A i \in q.next .. Len(lst) : Verdict(q, lst[i]) \in Verdicts
  <2> SUFFICES ASSUME NEW i \in q.next .. Len(lst) PROVE Verdict(q, lst[i]) \in Verdicts
    OBVIOUS
  <2>1. lst[i] \in Config BY <1>1
  <2>2. lst[i].rank \in Ranks /\ q.payload \in [Ranks -> Verdicts] BY <2>1 DEF Config, DispatchAt
  <2> QED BY <2>2 DEF Verdict
<1>3. Advance(q) =
        IF ahead = {} THEN End(q, "done", 0)
        ELSE IF Verdict(q, lst[Min(ahead)]) = "raise" THEN End(q, "raised", lst[Min(ahead)].rank)
        ELSE Visiting(q, Min(ahead))
  BY Zenon DEF Advance, Visiting
<1>4. CASE ahead = {}
  <2>1. SkippedTo(q, Len(lst) + 1) BY <1>1, <1>4 DEF SkippedTo
  <2> QED BY <2>1, <1>3, <1>4
<1>5. CASE ahead # {}
  <2>1. ahead \subseteq Nat BY <1>1
  <2>2. \A i : i \in ahead <=> i \in q.next .. Len(lst) /\ Verdict(q, lst[i]) # "skip"
    OBVIOUS
  <2> HIDE DEF ahead
  <2>3. PICK n \in ahead : \A m \in ahead : n <= m BY <1>5, <2>1, Least
  <2>4. Min(ahead) \in ahead /\ \A m \in ahead : Min(ahead) <= m
    BY <2>3 DEF Min
  <2> DEFINE i == Min(ahead)
  <2> HIDE DEF i
  <2>5. i \in q.next .. Len(lst) /\ Verdict(q, lst[i]) # "skip" BY <2>2, <2>4 DEF i
  <2>6. SkippedTo(q, i) BY <1>1, <2>2, <2>4, <2>5 DEF SkippedTo, i
  <2>7. Advance(q) = IF Verdict(q, lst[i]) = "raise" THEN End(q, "raised", lst[i].rank)
                     ELSE Visiting(q, i)
    BY <1>3, <1>5 DEF i
  <2> HIDE DEF lst
  <2>8. Verdict(q, lst[i]) = "raise" \/ Verdict(q, lst[i]) = "match"
    BY <1>2, <2>5 DEF Verdicts
  <2>9. CASE Verdict(q, lst[i]) = "raise" BY <2>5, <2>6, <2>7, <2>9 DEF lst
  <2>10. CASE Verdict(q, lst[i]) = "match" BY <2>5, <2>6, <2>7, <2>10 DEF lst
  <2> QED BY <2>8, <2>9, <2>10
<1> QED BY <1>4, <1>5

\* v is q at its next config c, the i-th.
Visits(v, q, c, i) ==
  /\ v.pc = "post" /\ v.next = i + 1 /\ v.target = c
  /\ v.payload = q.payload /\ v.poisoned = q.poisoned
  /\ v.offered = q.offered /\ v.grown = q.grown
  /\ v.history.visits = [q.history.visits EXCEPT ![c.id] = @ + 1]
  /\ v.history.due = q.history.due /\ v.history.accepted = q.history.accepted
  /\ v.history.unsure = q.history.unsure /\ v.history.refused = q.history.refused
  /\ v.history.failed = q.history.failed

LEMMA VisitingFields ==
  ASSUME NEW S, NEW q \in DispatchAt(S), View(q) \in Seq(Config), NEW i \in 1 .. Len(View(q))
  PROVE  /\ Visiting(q, i) \in Dispatch /\ View(Visiting(q, i)) = View(q)
         /\ Visits(Visiting(q, i), q, View(q)[i], i)
<1> DEFINE c == View(q)[i]
<1>1. c \in Config /\ i + 1 \in Nat /\ 1 \in 0 .. MaxAttempts
  BY ParametersAssumption
<1> HIDE DEF c
<1>2. c.id \in Webhooks BY <1>1 DEF Config
<1> DEFINE v == [q EXCEPT !.pc = "post", !.next = i + 1, !.target = c, !.attempt = 1,
                          !.history.visits[c.id] = @ + 1]
<1>3. Visiting(q, i) = v BY DEF Visiting, c
<1>4. q.history \in History /\ q.history.visits \in [Webhooks -> Nat] BY DEF DispatchAt, History
<1>5. v = [q EXCEPT !.pc = "post", !.next = i + 1, !.target = c, !.attempt = 1,
                    !.history = [q.history EXCEPT !.visits =
                      [q.history.visits EXCEPT ![c.id] = q.history.visits[c.id] + 1]]]
  OBVIOUS
<1> DEFINE visits == [q.history.visits EXCEPT ![c.id] = @ + 1]
           history == [q.history EXCEPT !.visits = visits]
<1>6. visits \in [Webhooks -> Nat] BY <1>2, <1>4
<1> HIDE DEF visits
<1>7. /\ history \in History /\ history.visits = visits
      /\ history.due = q.history.due /\ history.accepted = q.history.accepted
      /\ history.unsure = q.history.unsure /\ history.refused = q.history.refused
      /\ history.failed = q.history.failed
  BY <1>4, <1>6 DEF History
<1>8. v = [q EXCEPT !.pc = "post", !.next = i + 1, !.target = c, !.attempt = 1,
                    !.history = history]
  BY <1>5 DEF visits
<1> HIDE DEF v, history
<1>9. /\ v \in Dispatch
      /\ v.pc = "post" /\ v.next = i + 1 /\ v.target = c
      /\ v.live = q.live /\ v.own = q.own /\ v.payload = q.payload /\ v.poisoned = q.poisoned
      /\ v.offered = q.offered /\ v.grown = q.grown /\ v.history = history
  BY <1>1, <1>7, <1>8 DEF DispatchAt, Dispatch
<1>10. View(v) = View(q) BY <1>9 DEF View
<1>11. Visits(v, q, c, i) BY <1>7, <1>9 DEF Visits, visits
<1> QED BY <1>3, <1>9, <1>10, <1>11 DEF c

\* Ending at the end of the list, or at a condition that cannot be compared.
LEMMA AdvanceEnds ==
  ASSUME NEW S, NEW q \in DispatchAt(S), NEW marked, Between(q, View(q), alert, marked),
         NEW i \in q.next .. Len(View(q)) + 1, SkippedTo(q, i),
         NEW pc, NEW cut \in Ranks \cup {0},
         \/ pc = "done" /\ i = Len(View(q)) + 1
         \/ pc = "raised" /\ i <= Len(View(q)) /\ Verdict(q, View(q)[i]) = "raise"
            /\ cut = View(q)[i].rank
  PROVE  End(q, pc, cut) \in Ended /\ EndedInv(End(q, pc, cut), alert, marked)
<1> DEFINE lst == View(q)
           e == End(q, pc, cut)
<1>0. /\ lst \in Seq(Config) /\ q.next \in 1 .. Len(lst) + 1 /\ Len(lst) \in Nat
      /\ q.history \in History /\ q.poisoned \in BOOLEAN /\ q.grown \in BOOLEAN
      /\ q.history.visits \in [Webhooks -> Nat] /\ q.history.accepted \in [Webhooks -> Nat]
  BY DEF Between, PlaceInv, WellFormed, DispatchAt, History
<1>1. /\ e \in Ended /\ e.pc = pc /\ e.cut = cut /\ e.history = q.history
      /\ e.poisoned = q.poisoned /\ e.grown = q.grown
  BY <1>0 DEF End, Ended
<1>2. pc = "raised" => alert
  <2> SUFFICES ASSUME ~alert, pc = "raised" PROVE FALSE
    OBVIOUS
  <2>0. i \in 1 .. Len(lst) BY <1>0
  <2>1. lst[i] \in Config BY <1>0, <2>0
  <2>2. q.payload[lst[i].rank] = "match" BY <2>1 DEF Between, PlaceInv, Config
  <2> QED BY <2>2 DEF Verdict
<1>3. ASSUME NEW d \in q.history.due, q.history.visits[d.id] = 0
      PROVE  pc = "raised" /\ d.rank >= cut
  <2>1. d \in Config /\ q.payload[d.rank] = "match" /\ Pending(q, d, lst)
    BY <1>0, <1>3 DEF Between, DueInv, Config
  <2>2. PICK j \in q.next .. Len(lst) : lst[j] = d BY <2>1 DEF Pending
  <2>3. ~(j < i)
    <3> SUFFICES ASSUME j < i PROVE FALSE
      OBVIOUS
    <3>1. Verdict(q, lst[j]) = "skip" BY <2>2, <1>0 DEF SkippedTo
    <3> QED BY <3>1, <2>1, <2>2 DEF Verdict
  <2>4. pc = "raised" /\ i \in 1 .. Len(lst) /\ j \in 1 .. Len(lst) /\ i <= j
    BY <2>2, <2>3, <1>0
  <2>5. Ordered(lst) BY <2>4, <1>2 DEF Between, PlaceInv, WellFormed
  <2>6. lst[i].rank \in Nat /\ lst[j].rank \in Nat BY <2>4, <1>0, RankIsNat
  <2>7. lst[i].rank <= lst[j].rank BY <2>4, <2>5, <2>6 DEF Ordered
  <2> QED BY <2>2, <2>4, <2>6, <2>7
<1>4. \A d \in q.history.due : d \in Config /\ d.id \in Webhooks
  BY RankIsNat DEF Between, DueInv
<1>5. \A d \in q.history.due :
        q.history.visits[d.id] > 0 \/ (alert /\ pc = "raised" /\ d.rank >= cut)
  BY <1>0, <1>2, <1>3, <1>4
<1>6. pc = "done" /\ ~q.poisoned => \A d \in q.history.due : Settled(q, d.id, marked)
  BY <1>0, <1>3, <1>4 DEF Between
<1>7. ~(alert /\ q.grown) => \A w \in Webhooks \ q.history.unsure : q.history.accepted[w] <= 1
  <2> SUFFICES ASSUME ~(alert /\ q.grown), NEW w \in Webhooks \ q.history.unsure
               PROVE  q.history.accepted[w] <= 1
    OBVIOUS
  <2>1. q.history.accepted[w] <= q.history.visits[w] BY DEF Between, HeardInv
  <2>2. q.history.visits[w] <= 1 BY DEF Between, OnceInv
  <2>3. q.history.accepted[w] \in Nat /\ q.history.visits[w] \in Nat BY <1>0
  <2> QED BY <2>1, <2>2, <2>3
<1>8. \A w : Settled(e, w, marked) <=> Settled(q, w, marked)
  BY <1>1 DEF Settled
<1> HIDE DEF e
<1>9. EndedInv(e, alert, marked) BY <1>1, <1>5, <1>6, <1>7, <1>8 DEF EndedInv
<1> QED BY <1>1, <1>9 DEF e

\* Going on with the next config.
LEMMA AdvancePosts ==
  ASSUME NEW S, NEW q \in DispatchAt(S), NEW marked, Between(q, View(q), alert, marked),
         NEW i \in q.next .. Len(View(q)), SkippedTo(q, i)
  PROVE  UnderInv(Visiting(q, i), View(q), alert, marked)
<1> DEFINE lst == View(q)
           v == Visiting(q, i)
           c == lst[i]
<1>0. /\ lst \in Seq(Config) /\ q.next \in 1 .. Len(lst) + 1 /\ Len(lst) \in Nat
      /\ i \in 1 .. Len(lst)
      /\ q.history.visits \in [Webhooks -> Nat] /\ q.history.accepted \in [Webhooks -> Nat]
  BY DEF Between, PlaceInv, WellFormed, DispatchAt, History
<1>1. /\ v.pc = "post" /\ v.next = i + 1 /\ v.target = c
      /\ v.payload = q.payload /\ v.poisoned = q.poisoned
      /\ v.offered = q.offered /\ v.grown = q.grown
      /\ v.history.visits = [q.history.visits EXCEPT ![c.id] = @ + 1]
      /\ v.history.due = q.history.due /\ v.history.accepted = q.history.accepted
      /\ v.history.unsure = q.history.unsure /\ v.history.refused = q.history.refused
      /\ v.history.failed = q.history.failed
  <2>1. View(q) \in Seq(Config) /\ i \in 1 .. Len(View(q)) BY <1>0
  <2>2. Visits(v, q, c, i) BY <2>1, VisitingFields, Zenon
  <2> HIDE DEF v, c
  <2> QED BY <2>2 DEF Visits
<1>2. c \in Config /\ c.id \in Webhooks /\ c.rank \in Nat /\ c \in Elements(lst)
  BY <1>0, RankIsNat DEF Elements
<1>3. /\ v.history.visits[c.id] = q.history.visits[c.id] + 1
      /\ \A w \in Webhooks \ {c.id} : v.history.visits[w] = q.history.visits[w]
  BY <1>0, <1>1, <1>2
<1> HIDE DEF v, c
<1>4. PlaceInv(v, lst, alert)
  BY <1>0, <1>1 DEF Between, PlaceInv
<1>5. ASSUME NEW d \in q.history.due
      PROVE  /\ d \in Config /\ q.payload[d.rank] = "match"
             /\ v.history.visits[d.id] > 0 \/ (Pending(v, d, lst) /\ (alert => d.rank >= c.rank))
  <2>1. d \in Config /\ q.payload[d.rank] = "match" /\ d.id \in Webhooks
        /\ (q.history.visits[d.id] > 0 \/ Pending(q, d, lst))
    BY RankIsNat DEF Between, DueInv
  <2>2. CASE d.id = c.id BY <2>1, <2>2, <1>0, <1>3
  <2>3. CASE d.id # c.id /\ q.history.visits[d.id] > 0 BY <2>1, <2>3, <1>0, <1>3
  <2>4. CASE d.id # c.id /\ Pending(q, d, lst)
    <3>1. PICK j \in q.next .. Len(lst) : lst[j] = d BY <2>4 DEF Pending
    <3>2. ~(j < i)
      <4> SUFFICES ASSUME j < i PROVE FALSE
        OBVIOUS
      <4>1. Verdict(q, lst[j]) = "skip" BY <3>1, <1>0 DEF SkippedTo
      <4> QED BY <4>1, <2>1, <3>1 DEF Verdict
    <3>3. j # i BY <3>1, <2>4 DEF c
    <3>4. j \in i + 1 .. Len(lst) BY <3>1, <3>2, <3>3, <1>0
    <3>5. Pending(v, d, lst) BY <3>1, <3>4, <1>1 DEF Pending
    <3>6. ASSUME alert PROVE d.rank >= c.rank
      <4>1. Ordered(lst) BY <3>6 DEF Between, PlaceInv, WellFormed
      <4>2. lst[i].rank <= lst[j].rank BY <4>1, <3>4, <1>0 DEF Ordered
      <4> QED BY <4>2, <3>1, <1>2, <2>1, RankIsNat DEF c
    <3> QED BY <2>1, <3>5, <3>6
  <2> QED BY <2>1, <2>2, <2>3, <2>4
<1>6. DueInv(v, lst) BY <1>1, <1>5 DEF DueInv
<1>7. OnceInv(v, lst, alert)
  <2> SUFFICES ASSUME ~(alert /\ q.grown), NEW w \in Webhooks
               PROVE  /\ v.history.visits[w] <= 1
                      /\ v.history.visits[w] > 0 => \E j \in 1 .. i : lst[j].id = w
    BY <1>0, <1>1 DEF OnceInv
  <2>1. /\ q.history.visits[w] \in Nat /\ q.history.visits[w] <= 1
        /\ q.history.visits[w] > 0 => \E j \in 1 .. q.next - 1 : lst[j].id = w
    BY <1>0 DEF Between, OnceInv
  <2>2. CASE w = c.id
    <3>1. q.history.visits[w] = 0
      <4> SUFFICES ASSUME NEW j \in 1 .. q.next - 1, lst[j].id = w PROVE FALSE
        BY <2>1
      <4>1. j \in 1 .. Len(lst) /\ j # i BY <1>0
      <4> QED BY <4>1, <2>2, <1>0 DEF Between, PlaceInv, WellFormed, c
    <3> QED BY <2>2, <3>1, <1>0, <1>3 DEF c
  <2>3. CASE w # c.id
    <3>1. v.history.visits[w] = q.history.visits[w] BY <2>3, <1>3
    <3>2. 1 .. q.next - 1 \subseteq 1 .. i BY <1>0
    <3> QED BY <2>1, <3>1, <3>2
  <2> QED BY <2>2, <2>3
<1>8. \A w \in Webhooks \ q.history.unsure : q.history.accepted[w] <= q.history.visits[w]
  BY DEF Between, HeardInv
<1>9. HeardInv(v)
  <2> SUFFICES ASSUME NEW w \in Webhooks \ q.history.unsure
               PROVE  q.history.accepted[w] <= v.history.visits[w]
    BY <1>1 DEF HeardInv
  <2> QED BY <1>0, <1>3, <1>8
<1>10. TargetInv(v, alert, marked)
  <2>1. c \in q.offered BY <1>2 DEF Between, PlaceInv
  <2>2. v.history.visits[c.id] > 0 BY <1>0, <1>2, <1>3
  <2>3. c.id \notin q.history.unsure => q.history.accepted[c.id] < v.history.visits[c.id]
    <3>1. q.history.accepted[c.id] \in Nat /\ q.history.visits[c.id] \in Nat BY <1>0, <1>2
    <3> QED BY <3>1, <1>2, <1>3, <1>8
  <2>4. alert => \A d \in q.history.due : v.history.visits[d.id] > 0 \/ d.rank >= c.rank
    BY <1>5
  <2>5. ~q.poisoned => \A w \in Webhooks \ {c.id} :
          v.history.visits[w] > 0 => Settled(v, w, marked)
    BY <1>1, <1>3 DEF Between, Settled
  <2> QED BY <1>1, <2>1, <2>2, <2>3, <2>4, <2>5 DEF TargetInv
<1> QED BY <1>4, <1>6, <1>7, <1>9, <1>10 DEF UnderInv, v

LEMMA AdvanceInv ==
  ASSUME NEW S, NEW q \in DispatchAt(S), NEW marked, Between(q, View(q), alert, marked)
  PROVE  TaskInv(Advance(q), View(Advance(q)), alert, marked)
<1> DEFINE lst == View(q)
<1>0. lst \in Seq(Config) /\ q.next \in 1 .. Len(lst) + 1 /\ Len(lst) \in Nat
  BY DEF Between, PlaceInv, WellFormed
<1>1. CASE Advance(q) = End(q, "done", 0) /\ SkippedTo(q, Len(lst) + 1)
  <2>1. Len(lst) + 1 \in q.next .. Len(lst) + 1 BY <1>0
  <2>2. End(q, "done", 0) \in Ended /\ EndedInv(End(q, "done", 0), alert, marked)
    BY <1>1, <2>1, AdvanceEnds
  <2> QED BY <1>1, <2>2 DEF TaskInv
<1>2. ASSUME NEW i \in q.next .. Len(lst), Advance(q) = End(q, "raised", lst[i].rank),
             Verdict(q, lst[i]) = "raise", SkippedTo(q, i)
      PROVE  TaskInv(Advance(q), View(Advance(q)), alert, marked)
  <2>1. i \in q.next .. Len(lst) + 1 /\ i <= Len(lst) /\ i \in 1 .. Len(lst) BY <1>0
  <2>2. lst[i].rank \in Ranks \cup {0}
    <3>1. lst[i] \in Config BY <1>0, <2>1
    <3> QED BY <3>1 DEF Config
  <2>3. End(q, "raised", lst[i].rank) \in Ended
        /\ EndedInv(End(q, "raised", lst[i].rank), alert, marked)
    BY <1>2, <2>1, <2>2, AdvanceEnds
  <2> QED BY <1>2, <2>3 DEF TaskInv
<1>3. ASSUME NEW i \in q.next .. Len(lst), Advance(q) = Visiting(q, i), SkippedTo(q, i)
      PROVE  TaskInv(Advance(q), View(Advance(q)), alert, marked)
  <2>1. i \in 1 .. Len(lst) BY <1>0
  <2>2. Visiting(q, i) \in Dispatch /\ View(Visiting(q, i)) = lst BY <1>0, <2>1, VisitingFields
  <2>3. UnderInv(Visiting(q, i), lst, alert, marked) BY <1>3, AdvancePosts
  <2> QED BY <1>3, <2>2, <2>3 DEF TaskInv
<1> QED BY <1>0, <1>1, <1>2, <1>3, AdvanceCases

-----------------------------------------------------------------------------
(* What a dispatch does at a config.                                       *)

LEMMA DispatchFields ==
  ASSUME NEW q \in Dispatch
  PROVE  /\ q \in DispatchAt(Config) /\ q.history \in History
         /\ q.history.visits \in [Webhooks -> Nat] /\ q.history.accepted \in [Webhooks -> Nat]
         /\ q.poisoned \in BOOLEAN /\ q.live \in BOOLEAN /\ q.target \in Config
         /\ q.target.id \in Webhooks /\ q.next \in Nat /\ q.attempt \in 0 .. MaxAttempts
         /\ q.history.failed \in SUBSET Webhooks /\ q.history.refused \in SUBSET Webhooks
         /\ q.history.unsure \in SUBSET Webhooks /\ q.pc \in {"post", "save"}
  BY DEF Dispatch, DispatchAt, History, Config

LEMMA WithHistory ==
  ASSUME NEW q \in Dispatch, NEW h \in History
  PROVE  LET r == [q EXCEPT !.history = h] IN
         /\ r \in Dispatch /\ View(r) = View(q) /\ r.history = h /\ r.pc = q.pc
         /\ r.next = q.next /\ r.payload = q.payload /\ r.poisoned = q.poisoned
         /\ r.offered = q.offered /\ r.grown = q.grown /\ r.target = q.target
         /\ r.attempt = q.attempt
  BY DEF Dispatch, View

\* The places and the payload, as far as the invariants look at them.
SamePlace(r, q) ==
  /\ r.next = q.next /\ r.payload = q.payload /\ r.offered = q.offered
  /\ r.grown = q.grown /\ r.target = q.target
  /\ r.history.visits = q.history.visits /\ r.history.due = q.history.due

LEMMA SamePlaceInv ==
  ASSUME NEW q, NEW r, SamePlace(r, q), NEW lst, NEW sorted,
         PlaceInv(q, lst, sorted), DueInv(q, lst), OnceInv(q, lst, sorted)
  PROVE  PlaceInv(r, lst, sorted) /\ DueInv(r, lst) /\ OnceInv(r, lst, sorted)
  BY DEF SamePlace, PlaceInv, DueInv, OnceInv, Pending

\* A dispatch that has settled its target, or is poisoned, may go on.
LEMMA LeavesTarget ==
  ASSUME NEW q, NEW r, SamePlace(r, q), NEW lst, NEW sorted, NEW marked, NEW more,
         UnderInv(q, lst, sorted, marked), HeardInv(r),
         r.poisoned \/ /\ ~q.poisoned /\ Settled(r, q.target.id, more)
                       /\ \A w \in Webhooks : Settled(q, w, marked) => Settled(r, w, more)
  PROVE  Between(r, lst, sorted, more)
<1>1. PlaceInv(r, lst, sorted) /\ DueInv(r, lst) /\ OnceInv(r, lst, sorted)
  BY SamePlaceInv DEF UnderInv
<1>2. ~r.poisoned => \A w \in Webhooks : r.history.visits[w] > 0 => Settled(r, w, more)
  BY DEF UnderInv, TargetInv, SamePlace
<1> QED BY <1>1, <1>2 DEF Between

LEMMA SettledGrows ==
  ASSUME NEW q, NEW w, NEW marked, NEW more, marked \subseteq more, Settled(q, w, marked)
  PROVE  Settled(q, w, more)
  BY DEF Settled

LEMMA TaskInvGrows ==
  ASSUME NEW q, NEW lst, NEW sorted, NEW marked, NEW more, marked \subseteq more,
         TaskInv(q, lst, sorted, marked)
  PROVE  TaskInv(q, lst, sorted, more)
<1>1. \A w : Settled(q, w, marked) => Settled(q, w, more) BY SettledGrows
<1> QED BY <1>1 DEF TaskInv, UnderInv, TargetInv, EndedInv

LEMMA ReceivedEffect ==
  ASSUME NEW q \in Dispatch, ~Rejected(q.target.id)
  PROVE  /\ Received(q) \in Dispatch /\ View(Received(q)) = View(q) /\ SamePlace(Received(q), q)
         /\ Received(q).pc = q.pc /\ Received(q).poisoned = q.poisoned
         /\ Received(q).history.accepted =
              [q.history.accepted EXCEPT ![q.target.id] = q.history.accepted[q.target.id] + 1]
         /\ Received(q).history.unsure = q.history.unsure
         /\ Received(q).history.refused = q.history.refused
         /\ Received(q).history.failed = q.history.failed
<1> DEFINE id == q.target.id
           accepted == [q.history.accepted EXCEPT ![id] = q.history.accepted[id] + 1]
           h == [q.history EXCEPT !.accepted = accepted]
           r == [q EXCEPT !.history = h]
<1>1. accepted \in [Webhooks -> Nat] BY DispatchFields
<1>2. Received(q) = r BY DEF Received
<1> HIDE DEF accepted
<1>3. /\ h \in History /\ h.accepted = accepted /\ h.visits = q.history.visits
      /\ h.due = q.history.due /\ h.unsure = q.history.unsure
      /\ h.refused = q.history.refused /\ h.failed = q.history.failed
  BY <1>1, DispatchFields DEF History
<1> HIDE DEF h
<1>4. /\ r \in Dispatch /\ View(r) = View(q) /\ r.history = h /\ r.pc = q.pc
      /\ r.next = q.next /\ r.payload = q.payload /\ r.poisoned = q.poisoned
      /\ r.offered = q.offered /\ r.grown = q.grown /\ r.target = q.target
  BY <1>3, WithHistory
<1> HIDE DEF r
<1> QED BY <1>2, <1>3, <1>4 DEF SamePlace, accepted

LEMMA ReceivedInv ==
  ASSUME NEW q \in Dispatch, q.pc = "post", ~Rejected(q.target.id), NEW lst, NEW sorted,
         NEW marked, UnderInv(q, lst, sorted, marked)
  PROVE  Between(Received(q), lst, sorted, marked)
<1> DEFINE r == Received(q)
           id == q.target.id
<1>1. /\ SamePlace(r, q) /\ r.poisoned = q.poisoned /\ r.history.unsure = q.history.unsure
      /\ r.history.accepted = [q.history.accepted EXCEPT ![id] = q.history.accepted[id] + 1]
      /\ r.history.refused = q.history.refused /\ r.history.failed = q.history.failed
  BY ReceivedEffect
<1>2. /\ id \in Webhooks /\ q.history.accepted \in [Webhooks -> Nat]
      /\ q.history.visits \in [Webhooks -> Nat] /\ q.poisoned \in BOOLEAN
  BY DispatchFields
<1> HIDE DEF r
<1>3. HeardInv(r)
  <2> SUFFICES ASSUME NEW w \in Webhooks \ q.history.unsure
               PROVE  r.history.accepted[w] <= q.history.visits[w]
    BY <1>1 DEF HeardInv, SamePlace
  <2>1. CASE w = id
    <3>1. q.history.accepted[w] < q.history.visits[w] BY <2>1 DEF UnderInv, TargetInv
    <3> QED BY <2>1, <3>1, <1>1, <1>2
  <2>2. CASE w # id
    <3>1. q.history.accepted[w] <= q.history.visits[w] BY DEF UnderInv, HeardInv
    <3> QED BY <2>2, <3>1, <1>1, <1>2
  <2> QED BY <2>1, <2>2
<1>4. Settled(r, id, marked) BY <1>1, <1>2 DEF Settled
<1>5. \A w \in Webhooks : Settled(q, w, marked) => Settled(r, w, marked)
  <2> SUFFICES ASSUME NEW w \in Webhooks, w # id, Settled(q, w, marked)
               PROVE  Settled(r, w, marked)
    BY <1>4
  <2>1. r.history.accepted[w] = q.history.accepted[w] BY <1>1, <1>2
  <2> QED BY <2>1, <1>1 DEF Settled
<1> QED BY <1>1, <1>3, <1>4, <1>5, LeavesTarget DEF r

LEMMA UnsureInv ==
  ASSUME NEW q \in Dispatch, q.pc = "post", ~Rejected(q.target.id), NEW lst, NEW sorted,
         NEW marked, UnderInv(q, lst, sorted, marked)
  PROVE  /\ ReceivedUnheard(q) \in Dispatch /\ ReceivedUnheard(q).pc = "post"
         /\ View(ReceivedUnheard(q)) = View(q)
         /\ UnderInv(ReceivedUnheard(q), lst, sorted, marked)
<1> DEFINE p == Received(q)
           id == q.target.id
           h == [p.history EXCEPT !.unsure = p.history.unsure \cup {id}]
           r == [p EXCEPT !.history = h]
<1>1. /\ p \in Dispatch /\ View(p) = View(q) /\ SamePlace(p, q) /\ p.pc = "post"
      /\ p.poisoned = q.poisoned
      /\ p.history.accepted = [q.history.accepted EXCEPT ![id] = q.history.accepted[id] + 1]
      /\ p.history.unsure = q.history.unsure
      /\ p.history.refused = q.history.refused /\ p.history.failed = q.history.failed
  BY ReceivedEffect
<1>2. ReceivedUnheard(q) = r BY DEF ReceivedUnheard
<1> HIDE DEF p
<1>3. p.history \in History /\ id \in Webhooks BY <1>1, DispatchFields
<1>4. /\ h \in History /\ h.accepted = p.history.accepted /\ h.visits = p.history.visits
      /\ h.due = p.history.due /\ h.unsure = p.history.unsure \cup {id}
      /\ h.refused = p.history.refused /\ h.failed = p.history.failed
  BY <1>3 DEF History
<1> HIDE DEF h
<1>5. /\ r \in Dispatch /\ View(r) = View(p) /\ r.history = h /\ r.pc = p.pc
      /\ r.next = p.next /\ r.payload = p.payload /\ r.poisoned = p.poisoned
      /\ r.offered = p.offered /\ r.grown = p.grown /\ r.target = p.target
  BY <1>1, <1>4, WithHistory
<1> HIDE DEF r
<1>6. SamePlace(r, q) BY <1>1, <1>4, <1>5 DEF SamePlace
<1>7. /\ q.history.accepted \in [Webhooks -> Nat] /\ q.history.visits \in [Webhooks -> Nat]
  BY DispatchFields
<1>8. \A w \in Webhooks \ {id} : r.history.accepted[w] = q.history.accepted[w]
  BY <1>1, <1>4, <1>5, <1>7
<1>9. PlaceInv(r, lst, sorted) /\ DueInv(r, lst) /\ OnceInv(r, lst, sorted)
  BY <1>6, SamePlaceInv DEF UnderInv
<1>10. HeardInv(r)
  BY <1>1, <1>4, <1>5, <1>6, <1>8 DEF HeardInv, UnderInv, SamePlace
<1>11. TargetInv(r, sorted, marked)
  <2>1. ~r.poisoned => \A w \in Webhooks \ {id} :
          r.history.visits[w] > 0 => Settled(r, w, marked)
    <3> SUFFICES ASSUME ~r.poisoned, NEW w \in Webhooks \ {id}, r.history.visits[w] > 0
                 PROVE  Settled(r, w, marked)
      OBVIOUS
    <3>1. Settled(q, w, marked) BY <1>1, <1>5, <1>6 DEF UnderInv, TargetInv, SamePlace
    <3> QED BY <3>1, <1>1, <1>4, <1>5, <1>8 DEF Settled
  <2>2. r.pc = "post" /\ r.target.id \in r.history.unsure BY <1>1, <1>4, <1>5, <1>6 DEF SamePlace
  <2> QED BY <2>1, <2>2, <1>6 DEF TargetInv, UnderInv, SamePlace
<1> QED BY <1>1, <1>2, <1>5, <1>9, <1>10, <1>11 DEF UnderInv

LEMMA RetriedInv ==
  ASSUME NEW q \in Dispatch, q.pc = "post", NEW marked, UnderInv(q, View(q), alert, marked)
  PROVE  TaskInv(Retried(q), View(Retried(q)), alert, marked)
<1> DEFINE id == q.target.id
<1>1. CASE q.attempt < MaxAttempts
  <2> DEFINE r == [q EXCEPT !.attempt = q.attempt + 1]
  <2>1. q.attempt + 1 \in 0 .. MaxAttempts
    BY <1>1, DispatchFields, ParametersAssumption
  <2>2. /\ r \in Dispatch /\ View(r) = View(q) /\ r.history = q.history /\ r.pc = q.pc
        /\ r.next = q.next /\ r.payload = q.payload /\ r.poisoned = q.poisoned
        /\ r.offered = q.offered /\ r.grown = q.grown /\ r.target = q.target
    BY <2>1 DEF Dispatch, View
  <2>3. Retried(q) = r BY <1>1 DEF Retried
  <2> HIDE DEF r
  <2>4. SamePlace(r, q) BY <2>2 DEF SamePlace
  <2>5. PlaceInv(r, View(q), alert) /\ DueInv(r, View(q)) /\ OnceInv(r, View(q), alert)
    BY <2>4, SamePlaceInv DEF UnderInv
  <2>6. HeardInv(r) /\ TargetInv(r, alert, marked)
    BY <2>2 DEF UnderInv, HeardInv, TargetInv, Settled
  <2> QED BY <2>2, <2>3, <2>5, <2>6 DEF TaskInv, UnderInv
<1>2. CASE ~(q.attempt < MaxAttempts)
  <2> DEFINE h == [q.history EXCEPT !.failed = q.history.failed \cup {id}]
             r == [q EXCEPT !.pc = "save", !.history = h]
  <2>1. q.history \in History /\ id \in Webhooks BY DispatchFields
  <2>2. /\ h \in History /\ h.accepted = q.history.accepted /\ h.visits = q.history.visits
        /\ h.due = q.history.due /\ h.unsure = q.history.unsure
        /\ h.refused = q.history.refused /\ h.failed = q.history.failed \cup {id}
    BY <2>1 DEF History
  <2>3. Retried(q) = r BY <1>2 DEF Retried
  <2> HIDE DEF h
  <2>4. /\ r \in Dispatch /\ View(r) = View(q) /\ r.history = h /\ r.pc = "save"
        /\ r.next = q.next /\ r.payload = q.payload /\ r.poisoned = q.poisoned
        /\ r.offered = q.offered /\ r.grown = q.grown /\ r.target = q.target
    BY <2>2 DEF Dispatch, View
  <2> HIDE DEF r
  <2>5. SamePlace(r, q) BY <2>2, <2>4 DEF SamePlace
  <2>6. PlaceInv(r, View(q), alert) /\ DueInv(r, View(q)) /\ OnceInv(r, View(q), alert)
    BY <2>5, SamePlaceInv DEF UnderInv
  <2>7. HeardInv(r) BY <2>2, <2>4 DEF UnderInv, HeardInv
  <2>8. TargetInv(r, alert, marked)
    <3>1. \A w : Settled(q, w, marked) => Settled(r, w, marked)
      BY <2>2, <2>4 DEF Settled
    <3> QED BY <2>2, <2>4, <3>1 DEF UnderInv, TargetInv
  <2> QED BY <2>3, <2>4, <2>6, <2>7, <2>8 DEF TaskInv, UnderInv
<1> QED BY <1>1, <1>2

\* A refusal settles the target for good.
LEMMA RefusedInv ==
  ASSUME NEW q \in Dispatch, NEW lst, NEW sorted, NEW marked, UnderInv(q, lst, sorted, marked)
  PROVE  /\ RefusedBy(q) \in Dispatch /\ View(RefusedBy(q)) = View(q)
         /\ Between(RefusedBy(q), lst, sorted, marked)
<1> DEFINE id == q.target.id
           h == [q.history EXCEPT !.refused = q.history.refused \cup {id}]
           r == [q EXCEPT !.history = h]
<1>1. q.history \in History /\ id \in Webhooks /\ q.poisoned \in BOOLEAN BY DispatchFields
<1>2. /\ h \in History /\ h.accepted = q.history.accepted /\ h.visits = q.history.visits
      /\ h.due = q.history.due /\ h.unsure = q.history.unsure
      /\ h.refused = q.history.refused \cup {id} /\ h.failed = q.history.failed
  BY <1>1 DEF History
<1>3. RefusedBy(q) = r BY DEF RefusedBy
<1> HIDE DEF h
<1>4. /\ r \in Dispatch /\ View(r) = View(q) /\ r.history = h
      /\ r.next = q.next /\ r.payload = q.payload /\ r.poisoned = q.poisoned
      /\ r.offered = q.offered /\ r.grown = q.grown /\ r.target = q.target
  BY <1>2, WithHistory
<1> HIDE DEF r
<1>5. SamePlace(r, q) /\ HeardInv(r) BY <1>2, <1>4 DEF SamePlace, UnderInv, HeardInv
<1>6. Settled(r, id, marked) /\ \A w \in Webhooks : Settled(q, w, marked) => Settled(r, w, marked)
  BY <1>2, <1>4 DEF Settled
<1>7. Between(r, lst, sorted, marked) BY <1>1, <1>4, <1>5, <1>6, LeavesTarget
<1> QED BY <1>3, <1>4, <1>7

LEMMA SavedInv ==
  ASSUME NEW q \in Dispatch, q.pc = "save", ~q.poisoned, NEW lst, NEW sorted, NEW marked,
         UnderInv(q, lst, sorted, marked)
  PROVE  Between(q, lst, sorted, marked \cup {q.target.id})
<1>1. SamePlace(q, q) /\ HeardInv(q) BY DEF SamePlace, UnderInv
<1>2. /\ Settled(q, q.target.id, marked \cup {q.target.id})
      /\ \A w \in Webhooks : Settled(q, w, marked) => Settled(q, w, marked \cup {q.target.id})
  BY DEF UnderInv, TargetInv, Settled
<1> QED BY <1>1, <1>2, LeavesTarget

PoisonedBy(q) == [q EXCEPT !.poisoned = TRUE]

LEMMA PoisonedInv ==
  ASSUME NEW q \in Dispatch, NEW lst, NEW sorted, NEW marked, UnderInv(q, lst, sorted, marked)
  PROVE  /\ PoisonedBy(q) \in Dispatch /\ View(PoisonedBy(q)) = View(q)
         /\ Between(PoisonedBy(q), lst, sorted, marked)
<1> DEFINE r == PoisonedBy(q)
<1>1. /\ r \in Dispatch /\ View(r) = View(q) /\ r.history = q.history
      /\ r.next = q.next /\ r.payload = q.payload /\ r.poisoned = TRUE
      /\ r.offered = q.offered /\ r.grown = q.grown /\ r.target = q.target
  BY DEF Dispatch, View, PoisonedBy
<1> HIDE DEF r
<1>2. SamePlace(r, q) /\ HeardInv(r) BY <1>1 DEF SamePlace, UnderInv, HeardInv
<1>3. Between(r, lst, sorted, marked) BY <1>1, <1>2, LeavesTarget
<1> QED BY <1>1, <1>3 DEF r

LEMMA RaisedInv ==
  ASSUME NEW q \in Dispatch, NEW lst, NEW marked, UnderInv(q, lst, TRUE, marked)
  PROVE  LET e == End(q, "raised", q.target.rank) IN e \in Ended /\ EndedInv(e, TRUE, marked)
<1> DEFINE e == End(q, "raised", q.target.rank)
<1>1. /\ q.history \in History /\ q.poisoned \in BOOLEAN /\ q.grown \in BOOLEAN
      /\ q.target.rank \in Ranks
      /\ q.history.visits \in [Webhooks -> Nat] /\ q.history.accepted \in [Webhooks -> Nat]
  BY DEF Dispatch, History, Config
<1>2. /\ e \in Ended /\ e.pc = "raised" /\ e.cut = q.target.rank /\ e.history = q.history
      /\ e.grown = q.grown
  BY <1>1 DEF End, Ended
<1> HIDE DEF e
<1>3. \A d \in q.history.due : q.history.visits[d.id] > 0 \/ d.rank >= q.target.rank
  BY DEF UnderInv, TargetInv
<1>4. ~q.grown => \A w \in Webhooks \ q.history.unsure : q.history.accepted[w] <= 1
  <2> SUFFICES ASSUME ~q.grown, NEW w \in Webhooks \ q.history.unsure
               PROVE  q.history.accepted[w] <= 1
    OBVIOUS
  <2>1. q.history.accepted[w] <= q.history.visits[w] BY DEF UnderInv, HeardInv
  <2>2. q.history.visits[w] <= 1 BY DEF UnderInv, OnceInv
  <2>3. q.history.accepted[w] \in Nat /\ q.history.visits[w] \in Nat BY <1>1
  <2> QED BY <2>1, <2>2, <2>3
<1>5. EndedInv(e, TRUE, marked) BY <1>2, <1>3, <1>4 DEF EndedInv
<1> QED BY <1>2, <1>5 DEF e

LEMMA AfterErrorInv ==
  ASSUME NEW q \in Dispatch, NEW marked, alert \in BOOLEAN, UnderInv(q, View(q), alert, marked)
  PROVE  TaskInv(AfterError(q), View(AfterError(q)), alert, marked)
<1>1. CASE alert
  <2>1. AfterError(q) = End(q, "raised", q.target.rank) BY <1>1 DEF AfterError
  <2>2. UnderInv(q, View(q), TRUE, marked) /\ alert = TRUE BY <1>1
  <2> QED BY <2>1, <2>2, RaisedInv DEF TaskInv
<1>2. CASE ~alert
  <2>1. AfterError(q) = Advance(PoisonedBy(q)) BY <1>2 DEF AfterError, PoisonedBy
  <2>2. /\ PoisonedBy(q) \in DispatchAt(Config)
        /\ Between(PoisonedBy(q), View(PoisonedBy(q)), alert, marked)
    BY PoisonedInv, DispatchFields
  <2> QED BY <2>1, <2>2, AdvanceInv
<1> QED BY <1>1, <1>2

-----------------------------------------------------------------------------
(* The steps of a dispatch.                                                *)

LEMMA UnderTask ==
  ASSUME IInv, NEW t \in Tasks, Under(t)
  PROVE  tasks[t] \in Dispatch /\ UnderInv(tasks[t], View(tasks[t]), alert, saved)
<1>1. TaskInv(tasks[t], View(tasks[t]), alert, saved) BY DEF IInv, DispatchInv
<1>2. tasks[t].pc \in {"post", "save"} BY DEF Under
<1> QED BY <1>1, <1>2 DEF TaskInv, NoDispatch, Ended

LEMMA TaskTyped ==
  ASSUME NEW q, NEW lst, NEW sorted, NEW marked, TaskInv(q, lst, sorted, marked)
  PROVE  q \in Dispatch \cup Ended \cup {NoDispatch}
  BY DEF TaskInv

\* One task moves, the list and the other tasks stay.
LEMMA OneTaskInv ==
  ASSUME IInv, NEW t \in Tasks, NEW q, UNCHANGED <<alert, list>>, saved \subseteq saved',
         tasks' = [tasks EXCEPT ![t] = q], TaskInv(q, View(q), alert, saved')
  PROVE  DispatchInv' /\ tasks' \in [Tasks -> Dispatch \cup Ended \cup {NoDispatch}]
<1>1. tasks \in [Tasks -> Dispatch \cup Ended \cup {NoDispatch}] BY DEF IInv, TypeOK
<1>2. q \in Dispatch \cup Ended \cup {NoDispatch} BY TaskTyped
<1>3. ASSUME NEW u \in Tasks PROVE TaskInv(tasks[u], View(tasks[u]), alert, saved)'
  <2>1. View(tasks[u])' = View(tasks'[u]) BY DEF View
  <2>2. CASE u = t
    <3>1. tasks'[u] = q BY <1>1, <2>2
    <3> QED BY <2>1, <3>1
  <2>3. CASE u # t
    <3>1. tasks'[u] = tasks[u] BY <1>1, <2>3
    <3>2. TaskInv(tasks[u], View(tasks[u]), alert, saved') BY TaskInvGrows DEF IInv, DispatchInv
    <3> QED BY <2>1, <3>1, <3>2
  <2> QED BY <2>2, <2>3
<1> QED BY <1>1, <1>2, <1>3 DEF DispatchInv

LEMMA StepTaskInv ==
  ASSUME IInv, NEW t \in Tasks, Step(t)
  PROVE  \E q : /\ tasks' = [tasks EXCEPT ![t] = q] /\ TaskInv(q, View(q), alert, saved')
                /\ UNCHANGED <<alert, list>> /\ saved \subseteq saved'
<1> DEFINE q == tasks[t]
<1>1. Under(t) BY DEF Step, Under, Answered, Refused, Unanswered, Save, SaveFails
<1>2. q \in Dispatch /\ UnderInv(q, View(q), alert, saved) BY <1>1, UnderTask
<1>3. alert \in BOOLEAN BY DEF IInv, TypeOK
<1> HIDE DEF q
<1>4. CASE Answered(t)
  <2>1. q.pc = "post" /\ UNCHANGED <<alert, list, saved>>
        /\ tasks' = [tasks EXCEPT ![t] =
             IF Rejected(q.target.id) THEN Retried(q) ELSE Advance(Received(q))]
    BY <1>4 DEF Answered, q
  <2>2. CASE Rejected(q.target.id)
    <3>1. TaskInv(Retried(q), View(Retried(q)), alert, saved) BY <1>2, <2>1, RetriedInv
    <3> QED BY <2>1, <2>2, <3>1
  <2>3. CASE ~Rejected(q.target.id)
    <3> DEFINE r == Received(q)
    <3>1. r \in DispatchAt(Config) /\ View(r) = View(q) /\ Between(r, View(q), alert, saved)
      BY <1>2, <2>1, <2>3, ReceivedEffect, ReceivedInv, DispatchFields
    <3>2. TaskInv(Advance(r), View(Advance(r)), alert, saved) BY <3>1, AdvanceInv
    <3> QED BY <2>1, <2>3, <3>2
  <2> QED BY <2>2, <2>3
<1>5. CASE Refused(t)
  <2>1. UNCHANGED <<alert, list, saved>> /\ tasks' = [tasks EXCEPT ![t] = Advance(RefusedBy(q))]
    BY <1>5 DEF Refused, q
  <2>2. /\ RefusedBy(q) \in DispatchAt(Config)
        /\ Between(RefusedBy(q), View(RefusedBy(q)), alert, saved)
    BY <1>2, RefusedInv, DispatchFields
  <2>3. TaskInv(Advance(RefusedBy(q)), View(Advance(RefusedBy(q))), alert, saved)
    BY <2>2, AdvanceInv
  <2> QED BY <2>1, <2>3
<1>6. CASE Unanswered(t)
  <2>1. q.pc = "post" /\ UNCHANGED <<alert, list, saved>>
    BY <1>6 DEF Unanswered, q
  <2>2. CASE tasks' = [tasks EXCEPT ![t] = Retried(q)]
    <3>1. TaskInv(Retried(q), View(Retried(q)), alert, saved) BY <1>2, <2>1, RetriedInv
    <3> QED BY <2>1, <2>2, <3>1
  <2>3. CASE ~Rejected(q.target.id) /\ tasks' = [tasks EXCEPT ![t] = Retried(ReceivedUnheard(q))]
    <3>1. /\ ReceivedUnheard(q) \in Dispatch /\ ReceivedUnheard(q).pc = "post"
          /\ UnderInv(ReceivedUnheard(q), View(ReceivedUnheard(q)), alert, saved)
      BY <1>2, <2>1, <2>3, UnsureInv
    <3>2. TaskInv(Retried(ReceivedUnheard(q)), View(Retried(ReceivedUnheard(q))), alert, saved)
      BY <3>1, RetriedInv
    <3> QED BY <2>1, <2>3, <3>2
  <2> QED BY <1>6, <2>2, <2>3 DEF Unanswered, q
<1>7. CASE Save(t)
  <2>1. /\ q.pc = "save" /\ ~q.poisoned /\ UNCHANGED <<alert, list>>
        /\ saved' = saved \cup {q.target.id} /\ tasks' = [tasks EXCEPT ![t] = Advance(q)]
    BY <1>7 DEF Save, q
  <2>2. q \in DispatchAt(Config) /\ Between(q, View(q), alert, saved')
    BY <1>2, <2>1, SavedInv, DispatchFields
  <2>3. TaskInv(Advance(q), View(Advance(q)), alert, saved') BY <2>2, AdvanceInv
  <2> QED BY <2>1, <2>3
<1>8. CASE SaveFails(t)
  <2>1. UNCHANGED <<alert, list, saved>> /\ tasks' = [tasks EXCEPT ![t] = AfterError(q)]
    BY <1>8 DEF SaveFails, q
  <2>2. TaskInv(AfterError(q), View(AfterError(q)), alert, saved)
    BY <1>2, <1>3, AfterErrorInv
  <2> QED BY <2>1, <2>2
<1> QED BY <1>4, <1>5, <1>6, <1>7, <1>8 DEF Step

LEMMA StartTaskInv ==
  ASSUME IInv, NEW t \in Tasks, Start(t)
  PROVE  \E q : /\ tasks' = [tasks EXCEPT ![t] = q] /\ TaskInv(q, View(q), alert, saved)
                /\ UNCHANGED <<alert, list, saved>>
<1>1. PICK payload \in Payloads :
        LET due == {list[i] : i \in {j \in DOMAIN list : payload[list[j].rank] = "match"}}
            fresh == [pc |-> "post", live |-> TRUE, own |-> <<>>, next |-> 1,
                      target |-> CHOOSE c \in Config : TRUE, attempt |-> 0,
                      payload |-> payload, poisoned |-> FALSE, grown |-> FALSE,
                      offered |-> registered,
                      history |-> [visits |-> [w \in Webhooks |-> 0], due |-> due,
                                   accepted |-> [w \in Webhooks |-> 0], unsure |-> {},
                                   refused |-> {}, failed |-> {}]] IN
        tasks' = [tasks EXCEPT ![t] = Advance(fresh)]
  BY DEF Start
<1> DEFINE due == {list[i] : i \in {j \in DOMAIN list : payload[list[j].rank] = "match"}}
           target == CHOOSE c \in Config : TRUE
           none == [w \in Webhooks |-> 0]
           history == [visits |-> none, due |-> due, accepted |-> none, unsure |-> {},
                       refused |-> {}, failed |-> {}]
           fresh == [pc |-> "post", live |-> TRUE, own |-> <<>>, next |-> 1,
                     target |-> target, attempt |-> 0,
                     payload |-> payload, poisoned |-> FALSE, grown |-> FALSE,
                     offered |-> registered, history |-> history]
<1>2. tasks' = [tasks EXCEPT ![t] = Advance(fresh)] BY <1>1
<1>3. /\ list \in Seq(Config) /\ WellFormed(list, alert) /\ registered = Elements(list)
      /\ registered \in SUBSET Config
  BY DEF IInv, TypeOK, ListInv
<1>4. payload \in [Ranks -> Verdicts] /\ (alert \/ \A r \in Ranks : payload[r] = "match")
  BY DEF Payloads, Verdicts
<1>5. \A d \in due : /\ d \in Config /\ payload[d.rank] = "match"
                     /\ \E i \in 1 .. Len(list) : list[i] = d
  BY <1>3
<1>6. none \in [Webhooks -> Nat] /\ \A w \in Webhooks : none[w] = 0
  OBVIOUS
<1> HIDE DEF due, none
<1>7. /\ history \in History /\ history.visits = none /\ history.due = due
      /\ history.accepted = none /\ history.unsure = {}
  BY <1>5, <1>6 DEF History
<1> HIDE DEF history, target
<1>8. /\ fresh \in DispatchAt({target}) /\ fresh.next = 1 /\ fresh.payload = payload
      /\ fresh.offered = registered /\ fresh.history = history /\ fresh.live = TRUE
      /\ fresh.poisoned = FALSE
  BY <1>3, <1>4, <1>7, ParametersAssumption DEF DispatchAt
<1> HIDE DEF fresh
<1>9. View(fresh) = list BY <1>8 DEF View
<1>10. PlaceInv(fresh, list, alert)
  <2>1. 1 \in 1 .. Len(list) + 1 BY <1>3
  <2> QED BY <2>1, <1>3, <1>4, <1>8 DEF PlaceInv
<1>11. DueInv(fresh, list) BY <1>5, <1>7, <1>8 DEF DueInv, Pending
<1>12. OnceInv(fresh, list, alert) /\ HeardInv(fresh)
  BY <1>6, <1>7, <1>8 DEF OnceInv, HeardInv
<1>13. \A w \in Webhooks : ~(fresh.history.visits[w] > 0) BY <1>6, <1>7, <1>8
<1>14. Between(fresh, View(fresh), alert, saved)
  BY <1>9, <1>10, <1>11, <1>12, <1>13 DEF Between
<1>15. TaskInv(Advance(fresh), View(Advance(fresh)), alert, saved)
  BY <1>8, <1>14, AdvanceInv
<1> QED BY <1>2, <1>15 DEF Start

-----------------------------------------------------------------------------
(* The edits of the list.                                                  *)

\* View, of a list that may be another one than now.
Iterates(q, lst) == IF q.live THEN lst ELSE q.own

LEMMA ReboundInv ==
  ASSUME IInv, UNCHANGED <<alert, saved>>, tasks' = [t \in Tasks |-> Rebound(tasks[t])]
  PROVE  DispatchInv' /\ tasks' \in [Tasks -> Dispatch \cup Ended \cup {NoDispatch}]
<1>1. ASSUME NEW t \in Tasks
      PROVE  TaskInv(tasks'[t], Iterates(tasks'[t], list'), alert, saved)
  <2> DEFINE q == tasks[t]
  <2>1. TaskInv(q, Iterates(q, list), alert, saved)
    BY DEF IInv, DispatchInv, View, Iterates
  <2>2. tasks'[t] = Rebound(q) OBVIOUS
  <2> HIDE DEF q
  <2>3. CASE q = NoDispatch \/ q \in Ended
    <3>1. Rebound(q) = q BY <2>3 DEF Rebound, NoDispatch, Ended
    <3>2. TaskInv(q, Iterates(q, list'), alert, saved)
      BY <2>1, <2>3 DEF TaskInv, NoDispatch, Ended, Dispatch
    <3> QED BY <2>2, <3>1, <3>2
  <2>4. CASE q \in Dispatch
    <3>1. UnderInv(q, Iterates(q, list), alert, saved)
      BY <2>1, <2>4 DEF TaskInv, NoDispatch, Ended, Dispatch
    <3>2. q.pc \in {"post", "save"} /\ q.live \in BOOLEAN BY <2>4, DispatchFields
    <3>3. CASE ~q.live
      <4>1. Rebound(q) = q BY <3>3 DEF Rebound
      <4>2. Iterates(q, list') = Iterates(q, list) BY <3>3 DEF Iterates
      <4> QED BY <2>1, <2>2, <4>1, <4>2
    <3>4. CASE q.live
      <4> DEFINE r == [q EXCEPT !.live = FALSE, !.own = list]
      <4>1. Rebound(q) = r BY <3>2, <3>4 DEF Rebound
      <4>2. list \in Seq(Config) BY DEF IInv, TypeOK
      <4>3. /\ r \in Dispatch /\ ~r.live /\ r.own = list /\ r.history = q.history
            /\ r.pc = q.pc /\ r.next = q.next /\ r.payload = q.payload
            /\ r.poisoned = q.poisoned /\ r.offered = q.offered /\ r.grown = q.grown
            /\ r.target = q.target
        BY <2>4, <4>2 DEF Dispatch
      <4> HIDE DEF r
      <4>4. Iterates(r, list') = list /\ Iterates(q, list) = list BY <3>4, <4>3 DEF Iterates
      <4>5. SamePlace(r, q) BY <4>3 DEF SamePlace
      <4>6. PlaceInv(r, list, alert) /\ DueInv(r, list) /\ OnceInv(r, list, alert)
        BY <3>1, <4>4, <4>5, SamePlaceInv DEF UnderInv
      <4>7. HeardInv(r) /\ TargetInv(r, alert, saved)
        BY <3>1, <4>3 DEF UnderInv, HeardInv, TargetInv, Settled
      <4> QED BY <2>2, <4>1, <4>3, <4>4, <4>6, <4>7 DEF TaskInv, UnderInv
    <3> QED BY <3>2, <3>3, <3>4
  <2> QED BY <2>1, <2>3, <2>4 DEF TaskInv
<1>2. \A t \in Tasks : tasks'[t] \in Dispatch \cup Ended \cup {NoDispatch}
  BY <1>1, TaskTyped
<1>3. DispatchInv'
  <2>1. \A t \in Tasks : View(tasks[t])' = Iterates(tasks'[t], list') BY DEF View, Iterates
  <2> QED BY <1>1, <2>1 DEF DispatchInv
<1> QED BY <1>2, <1>3

\* A config inserted into the list a dispatch iterates.
LEMMA GrownInv ==
  ASSUME NEW q \in Dispatch, NEW lst, NEW marked, UnderInv(q, lst, alert, marked),
         NEW c \in Config, \A i \in DOMAIN lst : lst[i].id # c.id, NEW r \in Dispatch,
         r = [q EXCEPT !.offered = q.offered \cup {c}, !.grown = TRUE]
  PROVE  UnderInv(r, Added(lst, c), alert, marked)
<1> DEFINE out == Added(lst, c)
<1>1. /\ r.history = q.history
      /\ r.pc = q.pc /\ r.next = q.next /\ r.payload = q.payload /\ r.poisoned = q.poisoned
      /\ r.offered = q.offered \cup {c} /\ r.grown = TRUE /\ r.target = q.target
  BY DEF Dispatch
<1>2. WellFormed(lst, alert) /\ q.next \in 1 .. Len(lst) + 1 /\ Elements(lst) \subseteq q.offered
  BY DEF UnderInv, PlaceInv
<1>3. WellFormed(out, alert) /\ Elements(out) = Elements(lst) \cup {c}
  BY <1>2, AddedWellFormed
<1>4. PICK k : Inserted(out, lst, c, k) /\ (~alert => k = Len(lst) + 1)
  BY <1>2, AddedInserts
<1> HIDE DEF out
<1>5. /\ lst \in Seq(Config) /\ Len(lst) \in Nat /\ k \in 1 .. Len(lst) + 1
      /\ Len(out) = Len(lst) + 1
      /\ \A i \in 1 .. k - 1 : out[i] = lst[i]
      /\ \A i \in k .. Len(lst) : out[i + 1] = lst[i]
  BY <1>2, <1>4 DEF Inserted, WellFormed
<1>6. PlaceInv(r, out, alert)
  <2>1. r.next \in 1 .. Len(out) + 1 BY <1>1, <1>2, <1>5
  <2>2. Elements(out) \subseteq r.offered BY <1>1, <1>2, <1>3
  <2> QED BY <1>1, <1>3, <2>1, <2>2 DEF UnderInv, PlaceInv
<1>7. ASSUME NEW d, Pending(q, d, lst) PROVE Pending(r, d, out)
  <2>1. PICK i \in q.next .. Len(lst) : lst[i] = d BY <1>7 DEF Pending
  <2>2. CASE i < k
    <3>1. i \in q.next .. Len(out) /\ out[i] = d BY <2>1, <2>2, <1>2, <1>5
    <3> QED BY <3>1, <1>1 DEF Pending
  <2>3. CASE ~(i < k)
    <3>1. i + 1 \in q.next .. Len(out) /\ out[i + 1] = d BY <2>1, <2>3, <1>2, <1>5
    <3> QED BY <3>1, <1>1 DEF Pending
  <2> QED BY <2>2, <2>3
<1>8. DueInv(r, out) BY <1>1, <1>7 DEF UnderInv, DueInv
<1>9. OnceInv(r, out, alert)
  <2> SUFFICES ASSUME ~alert, NEW w \in Webhooks
               PROVE  /\ q.history.visits[w] <= 1
                      /\ q.history.visits[w] > 0 => \E i \in 1 .. q.next - 1 : out[i].id = w
    BY <1>1 DEF OnceInv
  <2>1. /\ q.history.visits[w] <= 1
        /\ q.history.visits[w] > 0 => \E i \in 1 .. q.next - 1 : lst[i].id = w
    BY DEF UnderInv, OnceInv
  <2>2. \A i \in 1 .. q.next - 1 : out[i] = lst[i] BY <1>2, <1>4, <1>5
  <2> QED BY <2>1, <2>2
<1>10. HeardInv(r) /\ TargetInv(r, alert, marked)
  BY <1>1 DEF UnderInv, HeardInv, TargetInv, Settled
<1> QED BY <1>6, <1>8, <1>9, <1>10 DEF UnderInv, out

LEMMA AddInv ==
  ASSUME IInv, NEW c \in Config, Add(c)
  PROVE  /\ ListInv' /\ list' \in Seq(Config) /\ DispatchInv'
         /\ tasks' \in [Tasks -> Dispatch \cup Ended \cup {NoDispatch}]
<1>1. /\ \A i \in DOMAIN list : list[i].id # c.id
      /\ list' = Added(list, c) /\ registered' = registered \cup {c}
      /\ tasks' = [t \in Tasks |->
                     IF Under(t) /\ tasks[t].live
                       THEN [tasks[t] EXCEPT !.offered = @ \cup {c}, !.grown = TRUE]
                       ELSE tasks[t]]
      /\ UNCHANGED <<alert, saved>>
  BY DEF Add
<1>2. ListInv' /\ list' \in Seq(Config)
  <2>1. WellFormed(list, alert) /\ registered = Elements(list) BY DEF IInv, ListInv
  <2>2. WellFormed(list', alert) /\ Elements(list') = Elements(list) \cup {c}
    BY <1>1, <2>1, AddedWellFormed
  <2>3. Elements(list') = Elements(list)' BY DEF Elements
  <2>4. WellFormed(list, alert)' BY <2>2, <1>1 DEF WellFormed, Ordered
  <2> QED BY <1>1, <2>1, <2>2, <2>3, <2>4 DEF ListInv, WellFormed
<1>3. ASSUME NEW t \in Tasks
      PROVE  TaskInv(tasks'[t], Iterates(tasks'[t], list'), alert, saved)
  <2> DEFINE q == tasks[t]
  <2>1. TaskInv(q, Iterates(q, list), alert, saved)
    BY DEF IInv, DispatchInv, View, Iterates
  <2>2. CASE Under(t) /\ q.live
    <3> DEFINE r == [q EXCEPT !.offered = q.offered \cup {c}, !.grown = TRUE]
    <3>1. q \in Dispatch /\ UnderInv(q, Iterates(q, list), alert, saved)
      BY <2>2, UnderTask DEF View, Iterates
    <3>2. tasks'[t] = r BY <1>1, <2>2
    <3> HIDE DEF q
    <3>3. r \in Dispatch /\ r.live = q.live BY <3>1 DEF Dispatch
    <3>4. Iterates(q, list) = list /\ Iterates(r, list') = list'
      BY <2>2, <3>3 DEF Iterates
    <3>5. UnderInv(r, Added(list, c), alert, saved)
      BY <1>1, <3>1, <3>3, <3>4, GrownInv
    <3> HIDE DEF r
    <3> QED BY <1>1, <3>2, <3>3, <3>4, <3>5 DEF TaskInv
  <2>3. CASE ~(Under(t) /\ q.live)
    <3>1. tasks'[t] = q BY <1>1, <2>3
    <3>2. q.pc \in {"post", "save"} => ~q.live BY <2>3 DEF Under
    <3> HIDE DEF q
    <3>3. q \in Dispatch => Iterates(q, list') = Iterates(q, list)
      BY <3>2 DEF Dispatch, Iterates
    <3> QED BY <2>1, <3>1, <3>3 DEF TaskInv
  <2> QED BY <2>2, <2>3
<1>4. \A t \in Tasks : tasks'[t] \in Dispatch \cup Ended \cup {NoDispatch}
  BY <1>3, TaskTyped
<1>5. DispatchInv'
  <2>1. \A t \in Tasks : View(tasks[t])' = Iterates(tasks'[t], list') BY DEF View, Iterates
  <2> QED BY <1>1, <1>3, <2>1 DEF DispatchInv
<1>6. tasks' \in [Tasks -> Dispatch \cup Ended \cup {NoDispatch}] BY <1>1, <1>4
<1> QED BY <1>2, <1>5, <1>6

LEMMA RemoveInv ==
  ASSUME IInv, NEW w, list' = Removed(list, w), UNCHANGED alert,
         registered' = {c \in registered : c.id # w}
  PROVE  ListInv' /\ list' \in Seq(Config)
<1>1. WellFormed(list, alert) /\ registered = Elements(list) BY DEF IInv, ListInv
<1>2. WellFormed(list', alert) /\ Elements(list') = {c \in Elements(list) : c.id # w}
  BY <1>1, RemovedWellFormed
<1>3. Elements(list') = Elements(list)' /\ (WellFormed(list', alert) => WellFormed(list, alert)')
  BY DEF Elements, WellFormed, Ordered
<1> QED BY <1>1, <1>2, <1>3 DEF ListInv, WellFormed

LEMMA ReplaceInv ==
  ASSUME IInv, NEW c \in Config, list' = Added(Removed(list, c.id), c), UNCHANGED alert,
         registered' = {d \in registered : d.id # c.id} \cup {c}
  PROVE  ListInv' /\ list' \in Seq(Config)
<1> DEFINE rest == Removed(list, c.id)
<1>1. WellFormed(list, alert) /\ registered = Elements(list) BY DEF IInv, ListInv
<1>2. WellFormed(rest, alert) /\ Elements(rest) = {d \in Elements(list) : d.id # c.id}
  BY <1>1, RemovedWellFormed
<1>3. list' = Added(rest, c) OBVIOUS
<1> HIDE DEF rest
<1>4. \A i \in DOMAIN rest : rest[i].id # c.id BY <1>2 DEF Elements
<1>5. WellFormed(list', alert) /\ Elements(list') = Elements(rest) \cup {c}
  BY <1>2, <1>3, <1>4, AddedWellFormed
<1>6. Elements(list') = Elements(list)' /\ (WellFormed(list', alert) => WellFormed(list, alert)')
  BY DEF Elements, WellFormed, Ordered
<1> QED BY <1>1, <1>2, <1>5, <1>6 DEF ListInv, WellFormed

-----------------------------------------------------------------------------
(* The invariant.                                                          *)

LEMMA InitIInv == Init => IInv
<1> SUFFICES ASSUME Init PROVE IInv
  OBVIOUS
<1>1. PICK n \in 0 .. Cardinality(Webhooks) : list \in [1 .. n -> Config]
  BY DEF Init
<1>2. n \in Nat
  OBVIOUS
<1>3. list \in Seq(Config) /\ DOMAIN list = 1 .. Len(list) BY <1>1, <1>2
<1>4. LoadedList(list) /\ registered = {list[i] : i \in DOMAIN list} BY DEF Init
<1>5. WellFormed(list, alert) BY <1>3, <1>4 DEF LoadedList, WellFormed, Ordered
<1>6. ListInv BY <1>4, <1>5 DEF ListInv, Elements
<1>7. DispatchInv BY DEF Init, DispatchInv, TaskInv
<1>8. TypeOK
  <2>1. registered \in SUBSET Config BY <1>3, <1>4
  <2>2. dispatched \in [Tasks -> 0 .. MaxDispatches] /\ budget \in [edits : Nat, failures : Nat]
    BY ParametersAssumption DEF Init
  <2> QED BY <1>3, <2>1, <2>2 DEF Init, TypeOK
<1> QED BY <1>6, <1>7, <1>8 DEF IInv

LEMMA RegisteredTyped ==
  ASSUME ListInv', list' \in Seq(Config)
  PROVE  registered' \in SUBSET Config
  BY DEF ListInv, Elements

LEMMA ListInvStays ==
  ASSUME IInv, UNCHANGED <<alert, list, registered>>
  PROVE  ListInv'
  BY DEF IInv, ListInv, WellFormed, Ordered, Elements

LEMMA SpendTyped ==
  ASSUME IInv, SpendEdit
  PROVE  budget' \in [edits : Nat, failures : Nat]
<1>1. /\ budget \in [edits : Nat, failures : Nat] /\ budget.edits > 0
      /\ budget' = [budget EXCEPT !.edits = budget.edits - 1]
  BY DEF SpendEdit, IInv, TypeOK
<1>2. budget.edits - 1 \in Nat BY <1>1
<1> QED BY <1>1, <1>2

LEMMA NextIInv == IInv /\ [Next]_vars => IInv'
<1> SUFFICES ASSUME IInv, [Next]_vars PROVE IInv'
  OBVIOUS
<1>0. TypeOK BY DEF IInv
<1>1. ASSUME NEW c \in Config, Add(c) PROVE IInv'
  <2>1. /\ UNCHANGED <<alert, dispatched, saved>> /\ SpendEdit
    BY <1>1 DEF Add
  <2>2. /\ ListInv' /\ list' \in Seq(Config) /\ DispatchInv'
        /\ tasks' \in [Tasks -> Dispatch \cup Ended \cup {NoDispatch}]
    BY <1>1, AddInv
  <2>3. TypeOK' BY <1>0, <2>1, <2>2, RegisteredTyped, SpendTyped DEF TypeOK
  <2> QED BY <2>2, <2>3 DEF IInv
<1>2. ASSUME NEW c \in Config, Replace(c) PROVE IInv'
  <2>1. /\ UNCHANGED <<alert, dispatched, saved>> /\ SpendEdit
        /\ list' = Added(Removed(list, c.id), c)
        /\ registered' = {d \in registered : d.id # c.id} \cup {c}
        /\ tasks' = [t \in Tasks |-> Rebound(tasks[t])]
    BY <1>2 DEF Replace
  <2>2. ListInv' /\ list' \in Seq(Config) BY <2>1, ReplaceInv
  <2>3. DispatchInv' /\ tasks' \in [Tasks -> Dispatch \cup Ended \cup {NoDispatch}]
    BY <2>1, ReboundInv
  <2>4. TypeOK' BY <1>0, <2>1, <2>2, <2>3, RegisteredTyped, SpendTyped DEF TypeOK
  <2> QED BY <2>2, <2>3, <2>4 DEF IInv
<1>3. ASSUME NEW w \in Webhooks, Remove(w) PROVE IInv'
  <2>1. /\ UNCHANGED <<alert, dispatched, saved>> /\ SpendEdit
        /\ list' = Removed(list, w) /\ registered' = {c \in registered : c.id # w}
        /\ tasks' = [t \in Tasks |-> Rebound(tasks[t])]
    BY <1>3 DEF Remove
  <2>2. ListInv' /\ list' \in Seq(Config) BY <2>1, RemoveInv
  <2>3. DispatchInv' /\ tasks' \in [Tasks -> Dispatch \cup Ended \cup {NoDispatch}]
    BY <2>1, ReboundInv
  <2>4. TypeOK' BY <1>0, <2>1, <2>2, <2>3, RegisteredTyped, SpendTyped DEF TypeOK
  <2> QED BY <2>2, <2>3, <2>4 DEF IInv
<1>4. ASSUME NEW t \in Tasks, Start(t) PROVE IInv'
  <2>1. /\ UNCHANGED <<alert, list, saved, registered, budget>>
        /\ dispatched[t] < MaxDispatches
        /\ dispatched' = [dispatched EXCEPT ![t] = dispatched[t] + 1]
    BY <1>4 DEF Start
  <2>2. PICK q : tasks' = [tasks EXCEPT ![t] = q] /\ TaskInv(q, View(q), alert, saved)
    BY <1>4, StartTaskInv
  <2>3. saved' = saved /\ saved \subseteq saved' BY <2>1
  <2>4. DispatchInv' /\ tasks' \in [Tasks -> Dispatch \cup Ended \cup {NoDispatch}]
    BY <2>1, <2>2, <2>3, OneTaskInv
  <2>5. dispatched' \in [Tasks -> 0 .. MaxDispatches]
    BY <1>0, <2>1, ParametersAssumption DEF TypeOK
  <2>6. ListInv' BY <2>1, ListInvStays
  <2>7. TypeOK' BY <1>0, <2>1, <2>4, <2>5 DEF TypeOK
  <2> QED BY <2>4, <2>6, <2>7 DEF IInv
<1>5. ASSUME NEW t \in Tasks, Step(t) PROVE IInv'
  <2>1. PICK q : /\ tasks' = [tasks EXCEPT ![t] = q] /\ TaskInv(q, View(q), alert, saved')
                 /\ UNCHANGED <<alert, list>> /\ saved \subseteq saved'
    BY <1>5, StepTaskInv
  <2>2. DispatchInv' /\ tasks' \in [Tasks -> Dispatch \cup Ended \cup {NoDispatch}]
    BY <2>1, OneTaskInv
  <2>3. UNCHANGED <<alert, list, dispatched, registered>>
    BY <1>5 DEF Step, Answered, Refused, Unanswered, Save, SaveFails
  <2>4. saved' \in SUBSET Webhooks
    <3>1. CASE UNCHANGED saved BY <3>1, <1>0 DEF TypeOK
    <3>2. CASE Save(t)
      <4>1. Under(t) /\ saved' = saved \cup {tasks[t].target.id} BY <3>2 DEF Save, Under
      <4>2. tasks[t].target.id \in Webhooks BY <4>1, UnderTask, DispatchFields
      <4> QED BY <1>0, <4>1, <4>2 DEF TypeOK
    <3> QED BY <1>5, <3>1, <3>2 DEF Step, Answered, Refused, Unanswered, SaveFails
  <2>5. budget' \in [edits : Nat, failures : Nat]
    <3>1. CASE UNCHANGED budget BY <3>1, <1>0 DEF TypeOK
    <3>2. CASE budget.failures > 0 /\ budget' = [budget EXCEPT !.failures = budget.failures - 1]
      <4>1. budget \in [edits : Nat, failures : Nat] /\ budget.failures - 1 \in Nat
        BY <1>0, <3>2 DEF TypeOK
      <4> QED BY <3>2, <4>1
    <3> QED BY <1>5, <3>1, <3>2 DEF Step, Answered, Refused, Unanswered, Save, SaveFails
  <2>6. ListInv' BY <2>3, ListInvStays
  <2>7. TypeOK' BY <1>0, <2>2, <2>3, <2>4, <2>5 DEF TypeOK
  <2> QED BY <2>2, <2>6, <2>7 DEF IInv
<1>6. CASE UNCHANGED vars
  <2>1. UNCHANGED <<alert, list, tasks, dispatched, saved, registered, budget>>
    BY <1>6 DEF vars
  <2>2. \A t \in Tasks : View(tasks[t])' = View(tasks[t]) BY <2>1 DEF View
  <2>3. DispatchInv' BY <2>1, <2>2 DEF DispatchInv, IInv
  <2>4. ListInv' BY <2>1, ListInvStays
  <2>5. TypeOK' BY <1>0, <2>1 DEF TypeOK
  <2> QED BY <2>3, <2>4, <2>5 DEF IInv
<1> QED BY <1>1, <1>2, <1>3, <1>4, <1>5, <1>6 DEF Next

LEMMA IInvHolds == Spec => []IInv
  BY InitIInv, NextIInv, PTL DEF Spec

(* Every variable of the deliveries has its type, in every behaviour.      *)
THEOREM TypeCorrect == Spec => []TypeOK
<1>1. IInv => TypeOK BY DEF IInv
<1> QED BY <1>1, IInvHolds, PTL

-----------------------------------------------------------------------------
(* The properties.                                                         *)

LEMMA TaskOf ==
  ASSUME IInv, NEW t \in Tasks
  PROVE  LET q == tasks[t] IN
         /\ q.pc \in {"post", "save"} => q \in Dispatch /\ UnderInv(q, View(q), alert, saved)
         /\ q.pc \in {"done", "raised"} => q \in Ended /\ EndedInv(q, alert, saved)
         /\ q.pc \in {"none", "post", "save", "done", "raised"}
<1>1. TaskInv(tasks[t], View(tasks[t]), alert, saved) BY DEF IInv, DispatchInv
<1> QED BY <1>1 DEF TaskInv, NoDispatch, Ended, Dispatch

(* No edit of the list and no failure of a webhook makes a dispatch of any *)
(* length leave out a config it began with, but for the alert processor's  *)
(* error, which cuts off only the ranks from its own on.                   *)
THEOREM EveryDueConfigIsVisited == Spec => []NoneSkipped
<1>1. IInv => NoneSkipped BY TaskOf DEF NoneSkipped, EndedInv
<1> QED BY <1>1, IInvHolds, PTL

(* Removals and replacements never bring a dispatch back to a webhook.     *)
THEOREM VisitsAreSingle == Spec => []PostedOnce
<1>1. IInv => PostedOnce BY TaskOf DEF PostedOnce, Under, UnderInv, OnceInv
<1> QED BY <1>1, IInvHolds, PTL

(* No dispatch posts to a config that was removed before it began.         *)
THEOREM TargetsAreRegistered == Spec => []PostedOnlyRegistered
<1>1. IInv => PostedOnlyRegistered
  BY TaskOf DEF PostedOnlyRegistered, Under, UnderInv, TargetInv
<1> QED BY <1>1, IInvHolds, PTL

(* At its regular end a dispatch has settled all it had to post to, for    *)
(* any number of attempts, unless one of its writes raised.                *)
THEOREM NoWebhookInTheDark == Spec => []DeliveredOrMarked
<1>1. IInv => DeliveredOrMarked
  BY TaskOf DEF DeliveredOrMarked, EndedInv, Settled
<1> QED BY <1>1, IInvHolds, PTL

(* A receiver accepts an event twice only after an answer that was lost, or *)
(* when the alert processor's list grew under the dispatch.                *)
THEOREM AcceptancesAreSingle == Spec => []AcceptedOnce
<1>1. IInv => AcceptedOnce
  <2> SUFFICES ASSUME IInv, NEW t \in Tasks, NEW w \in Webhooks, tasks[t].pc # "none",
                      ~(alert /\ tasks[t].grown), w \notin tasks[t].history.unsure
               PROVE  tasks[t].history.accepted[w] <= 1
    BY DEF AcceptedOnce
  <2> DEFINE q == tasks[t]
  <2>1. CASE q.pc \in {"post", "save"}
    <3>1. q \in Dispatch /\ UnderInv(q, View(q), alert, saved) BY <2>1, TaskOf
    <3>2. q.history.accepted[w] \in Nat /\ q.history.visits[w] \in Nat
      BY <3>1, DispatchFields
    <3>3. q.history.accepted[w] <= q.history.visits[w] /\ q.history.visits[w] <= 1
      BY <3>1 DEF UnderInv, HeardInv, OnceInv
    <3> QED BY <3>2, <3>3
  <2>2. CASE q.pc \in {"done", "raised"} BY <2>2, TaskOf DEF EndedInv
  <2> QED BY <2>1, <2>2, TaskOf
<1> QED BY <1>1, IInvHolds, PTL

=============================================================================
