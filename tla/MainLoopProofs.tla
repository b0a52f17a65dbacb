--------------------------- MODULE MainLoopProofs ---------------------------
(***************************************************************************)
(* Theorems about MainLoop, for any number of timers and threads, any       *)
(* delays and any width of the poll's timeout.                              *)
(***************************************************************************)
EXTENDS MainLoop, WellFoundedInduction, FiniteSetTheorems, TLAPS

Locked == {"top", "events", "handler", "timers"}

(* The mutex is with the thread that is in the library, or with none.       *)
Mutex ==
  /\ \A w \in Workers : thr[w] \in {"in", "full"} <=> lock = w
  /\ loop.pc \in Locked <=> lock = Loop

(* A message that woke the loop is still there when it is read.             *)
QueueFed == "mqueue" \in loop.ready => pipe # <<>>

IInv == TypeOK /\ Mutex /\ QueueFed /\ InOrder /\ WakesInTime

Ordered(l, f) ==
  \A i, j \in DOMAIN l : i < j => l[i] # l[j] /\ f[l[i]] <= f[l[j]]

-----------------------------------------------------------------------------
(* Numbers and sequences.                                                   *)

LEMMA LeastExists ==
  ASSUME NEW S, S \subseteq Nat, S # {}
  PROVE  \E m \in S : \A k \in S : m <= k
<1> DEFINE R == {ss \in Nat \X Nat : ss[1] < ss[2]}
<1>1. IsWellFoundedOn(R, Nat)
  BY NatLessThanWellFounded DEF OpToRel
<1> HIDE DEF R
<1>2. PICK m \in S : \A k \in S : <<k, m>> \notin R
  BY <1>1, WFMin
<1>3. ASSUME NEW k \in S PROVE m <= k
  <2>1. <<k, m>> \in Nat \X Nat /\ ~(k < m) BY <1>2 DEF R
  <2> QED BY <2>1
<1> QED BY <1>3

LEMMA GreatestExists ==
  ASSUME NEW n \in Nat, NEW S, S \subseteq 1..n, S # {}
  PROVE  \E m \in S : \A k \in S : k <= m
<1> DEFINE D == {n - k : k \in S}
<1>1. D \subseteq Nat /\ D # {}
  <2>1. \A k \in S : n - k \in Nat OBVIOUS
  <2> QED BY <2>1
<1> HIDE DEF D
<1>2. PICK d \in D : \A k \in D : d <= k BY <1>1, LeastExists
<1>3. PICK m \in S : d = n - m BY DEF D
<1>4. ASSUME NEW k \in S PROVE k <= m
  <2>1. d <= n - k BY <1>2 DEF D
  <2>2. k \in Int /\ m \in Int OBVIOUS
  <2> QED BY <1>3, <2>1, <2>2
<1> QED BY <1>4

LEMMA Modulo ==
  ASSUME NEW a \in Nat, NEW b \in Nat \ {0}
  PROVE  a % b \in 0..(b - 1) /\ a % b <= a
<1>1. a % b \in 0..(b - 1) OBVIOUS
<1>2. a = b * (a \div b) + (a % b) /\ a \div b \in Nat OBVIOUS
<1> QED BY <1>1, <1>2

LEMMA Inserted ==
  ASSUME NEW S, NEW s \in Seq(S), NEW i \in 1..(Len(s) + 1), NEW e \in S
  PROVE  /\ InsertAt(s, i, e) \in Seq(S)
         /\ Len(InsertAt(s, i, e)) = Len(s) + 1
         /\ \A j \in 1..(Len(s) + 1) :
              InsertAt(s, i, e)[j] = IF j < i THEN s[j]
                                     ELSE IF j = i THEN e ELSE s[j - 1]
<1> DEFINE a == SubSeq(s, 1, i - 1)
           b == SubSeq(s, i, Len(s))
<1>0. Len(s) \in Nat /\ i \in Nat OBVIOUS
<1>1. a \in Seq(S) /\ Len(a) = i - 1 /\ \A j \in 1..(i - 1) : a[j] = s[j]
  OBVIOUS
<1>2. /\ b \in Seq(S) /\ Len(b) = Len(s) - i + 1
      /\ \A j \in 1..(Len(s) - i + 1) : b[j] = s[i + j - 1]
  OBVIOUS
<1>3. InsertAt(s, i, e) = a \o <<e>> \o b BY DEF InsertAt
<1> HIDE DEF a, b
<1> DEFINE c == a \o <<e>>
<1>4. c \in Seq(S) /\ Len(c) = i
  BY <1>1
<1>5. \A j \in 1..i : c[j] = IF j < i THEN s[j] ELSE e
  BY <1>1
<1> HIDE DEF c
<1>6. c \o b \in Seq(S) /\ Len(c \o b) = Len(s) + 1
  BY <1>0, <1>2, <1>4
<1>7. ASSUME NEW j \in 1..(Len(s) + 1)
      PROVE (c \o b)[j] = IF j < i THEN s[j] ELSE IF j = i THEN e ELSE s[j - 1]
  <2>1. CASE j <= i BY <2>1, <1>2, <1>4, <1>5
  <2>2. CASE j > i
    <3>1. (c \o b)[j] = b[j - i] BY <2>2, <1>2, <1>4
    <3>2. j - i \in 1..(Len(s) - i + 1) BY <2>2
    <3>3. b[j - i] = s[j - 1] BY <3>2, <1>0, <1>2
    <3>4. ~(j < i) /\ j # i BY <1>0, <2>2
    <3> QED BY <3>1, <3>3, <3>4
  <2>3. j <= i \/ j > i BY <1>0
  <2> QED BY <2>1, <2>2, <2>3, Zenon
<1> QED BY <1>3, <1>6, <1>7 DEF c

LEMMA Removed ==
  ASSUME NEW S, NEW s \in Seq(S), NEW i \in 1..Len(s)
  PROVE  /\ RemoveAt(s, i) \in Seq(S)
         /\ Len(RemoveAt(s, i)) = Len(s) - 1
         /\ \A j \in 1..(Len(s) - 1) :
              RemoveAt(s, i)[j] = IF j < i THEN s[j] ELSE s[j + 1]
<1> DEFINE a == SubSeq(s, 1, i - 1)
           b == SubSeq(s, i + 1, Len(s))
<1>0. Len(s) \in Nat /\ i \in Nat OBVIOUS
<1>1. a \in Seq(S) /\ Len(a) = i - 1
  OBVIOUS
<1>2. b \in Seq(S) /\ Len(b) = Len(s) - i
  OBVIOUS
<1>3. \A j \in 1..(i - 1) : a[j] = s[j]
  OBVIOUS
<1>4. \A j \in 1..(Len(s) - i) : b[j] = s[i + j]
  OBVIOUS
<1>5. RemoveAt(s, i) = a \o b BY DEF RemoveAt
<1> HIDE DEF a, b
<1>6. a \o b \in Seq(S)
  BY <1>1, <1>2
<1>7. Len(a \o b) = Len(s) - 1
  <2>1. Len(a \o b) = Len(a) + Len(b)
    BY <1>1, <1>2
  <2> QED BY <1>0, <1>1, <1>2, <2>1
<1>8. ASSUME NEW j \in 1..(Len(s) - 1)
      PROVE (a \o b)[j] = IF j < i THEN s[j] ELSE s[j + 1]
  <2>1. CASE j < i
    <3>1. j \in 1..(i - 1) BY <1>0, <2>1
    <3>2. (a \o b)[j] = a[j] BY <1>1, <1>2, <3>1
    <3> QED BY <1>3, <2>1, <3>1, <3>2
  <2>2. CASE j >= i
    <3>1. (a \o b)[j] = b[j - (i - 1)] BY <2>2, <1>1, <1>2
    <3>2. j - (i - 1) \in 1..(Len(s) - i) BY <2>2
    <3>3. b[j - (i - 1)] = s[j + 1] BY <3>2, <1>0, <1>4
    <3>4. ~(j < i) BY <1>0, <2>2
    <3> QED BY <3>1, <3>3, <3>4
  <2>3. j < i \/ j >= i BY <1>0
  <2> QED BY <2>1, <2>2, <2>3, Zenon
<1> QED BY <1>5, <1>6, <1>7, <1>8

-----------------------------------------------------------------------------
(* The list of timers.                                                      *)

Dues == [Timers -> -Slack..DelayMax]

LEMMA PlaceSound ==
  ASSUME NEW l \in Seq(Timers), due \in Dues, Ordered(l, due), NEW d \in 0..DelayMax
  PROVE  /\ Place(l, d) \in 0..Len(l)
         /\ \A i \in 1..Len(l) : IF i <= Place(l, d) THEN due[l[i]] <= d
                                                    ELSE due[l[i]] >= d
<1>1. /\ Len(l) \in Nat /\ DOMAIN l = 1..Len(l)
      /\ \A i \in 1..Len(l) : due[l[i]] \in Int
  BY MainLoopAssumption DEF Dues
<1>2. CASE d = 0
  <2> DEFINE later == {i \in DOMAIN l : due[l[i]] > d}
  <2>1. CASE later = {}
    <3>1. Place(l, d) = Len(l) BY <1>2, <2>1 DEF Place
    <3>2. \A i \in 1..Len(l) : ~(due[l[i]] > d) BY <1>1, <2>1
    <3> QED BY <1>1, <3>1, <3>2
  <2>2. CASE later # {}
    <3>1. later \subseteq Nat BY <1>1
    <3>2. \E m \in later : \A k \in later : m <= k
      <4> HIDE DEF later
      <4> QED BY <2>2, <3>1, LeastExists
    <3> DEFINE m == CHOOSE i \in later : \A j \in later : i <= j
    <3>3. m \in later /\ \A k \in later : m <= k
      <4> HIDE DEF later
      <4> QED BY <3>2
    <3>4. Place(l, d) = m - 1 BY <1>2, <2>2 DEF Place
    <3> HIDE DEF m
    <3>5. m \in 1..Len(l) /\ due[l[m]] > d BY <1>1, <3>3
    <3>6. ASSUME NEW i \in 1..Len(l), i <= m - 1 PROVE due[l[i]] <= d
      <4>1. i \notin later BY <3>3, <3>5, <3>6
      <4> QED BY <4>1, <1>1
    <3>7. ASSUME NEW i \in 1..Len(l), ~(i <= m - 1) PROVE due[l[i]] >= d
      <4>1. i = m \/ m < i BY <3>5, <3>7
      <4>2. due[l[m]] <= due[l[i]] BY <4>1, <3>5, <1>1 DEF Ordered
      <4> QED BY <4>2, <3>5, <1>1
    <3> QED BY <3>4, <3>5, <3>6, <3>7
  <2> QED BY <2>1, <2>2
<1>3. CASE d # 0
  <2> DEFINE before == {i \in DOMAIN l : due[l[i]] <= d}
  <2>1. CASE before = {}
    <3>1. Place(l, d) = 0 BY <1>3, <2>1 DEF Place
    <3>2. \A i \in 1..Len(l) : ~(due[l[i]] <= d) BY <1>1, <2>1
    <3> QED BY <1>1, <3>1, <3>2
  <2>2. CASE before # {}
    <3>1. before \subseteq 1..Len(l) BY <1>1
    <3>2. \E m \in before : \A k \in before : k <= m
      <4> HIDE DEF before
      <4> QED BY <1>1, <2>2, <3>1, GreatestExists
    <3> DEFINE m == CHOOSE i \in before : \A j \in before : j <= i
    <3>3. m \in before /\ \A k \in before : k <= m
      <4> HIDE DEF before
      <4> QED BY <3>2
    <3>4. Place(l, d) = m BY <1>3, <2>2 DEF Place
    <3> HIDE DEF m
    <3>5. m \in 1..Len(l) /\ due[l[m]] <= d BY <1>1, <3>3
    <3>6. ASSUME NEW i \in 1..Len(l), i <= m PROVE due[l[i]] <= d
      <4>1. i = m \/ i < m BY <3>5, <3>6
      <4>2. due[l[i]] <= due[l[m]] BY <4>1, <3>5, <1>1 DEF Ordered
      <4> QED BY <4>2, <3>5, <1>1
    <3>7. ASSUME NEW i \in 1..Len(l), ~(i <= m) PROVE due[l[i]] >= d
      <4>1. i \notin before BY <3>3, <3>5, <3>7
      <4> QED BY <4>1, <1>1
    <3> QED BY <3>4, <3>5, <3>6, <3>7
  <2> QED BY <2>1, <2>2
<1> QED BY <1>2, <1>3

LEMMA WithoutSound ==
  ASSUME NEW l \in Seq(Timers), NEW f, Ordered(l, f), NEW t \in Timers
  PROVE  /\ Without(l, t) \in Seq(Timers) /\ Ordered(Without(l, t), f)
         /\ \A i \in DOMAIN Without(l, t) :
              Without(l, t)[i] # t /\ \E j \in DOMAIN l : l[j] = Without(l, t)[i]
<1> DEFINE at == {i \in DOMAIN l : l[i] = t}
<1>1. CASE at = {}
  <2>1. Without(l, t) = l BY <1>1 DEF Without
  <2> QED BY <1>1, <2>1
<1>2. CASE at # {}
  <2> DEFINE p == CHOOSE i \in at : TRUE
             w == RemoveAt(l, p)
  <2>1. Without(l, t) = w BY <1>2 DEF Without
  <2>2. p \in 1..Len(l) /\ l[p] = t BY <1>2
  <2> HIDE DEF p
  <2>3. /\ w \in Seq(Timers) /\ Len(w) = Len(l) - 1
        /\ \A j \in 1..(Len(l) - 1) : w[j] = IF j < p THEN l[j] ELSE l[j + 1]
    BY <2>2, Removed
  <2> HIDE DEF w
  <2> DEFINE from(j) == IF j < p THEN j ELSE j + 1
  <2>4. Len(l) \in Nat /\ DOMAIN l = 1..Len(l) /\ DOMAIN w = 1..(Len(l) - 1)
    BY <2>3
  <2>5. ASSUME NEW j \in DOMAIN w
        PROVE from(j) \in DOMAIN l /\ from(j) # p /\ w[j] = l[from(j)]
    BY <2>2, <2>3, <2>4
  <2>6. ASSUME NEW i \in DOMAIN w, NEW j \in DOMAIN w, i < j
        PROVE from(i) < from(j)
    BY <2>2, <2>4, <2>6
  <2> HIDE DEF from
  <2>7. Ordered(w, f) BY <2>5, <2>6 DEF Ordered
  <2>8. ASSUME NEW j \in DOMAIN w PROVE w[j] # t
    <3>1. from(j) < p \/ p < from(j) BY <2>2, <2>4, <2>5
    <3> QED BY <2>2, <2>4, <2>5, <3>1 DEF Ordered
  <2> QED BY <2>1, <2>3, <2>5, <2>7, <2>8
<1> QED BY <1>1, <1>2

(* tmr_start keeps the list in order.                                       *)
LEMMA StartSound ==
  ASSUME tmrl \in Seq(Timers), due \in Dues, InOrder,
         NEW t \in Timers, NEW d \in 0..DelayMax, tmr_start(t, d)
  PROVE  /\ tmrl' \in Seq(Timers) /\ due' \in Dues /\ InOrder'
         /\ \A u \in Timers \ {t} : due'[u] = due[u] /\ (Active(u)' => Active(u))
<1> DEFINE l == Without(tmrl, t)
           k == Place(l, d)
<1>0. Ordered(tmrl, due) BY DEF InOrder, Ordered
<1>1. /\ l \in Seq(Timers) /\ Ordered(l, due)
      /\ \A i \in DOMAIN l : l[i] # t /\ \E j \in DOMAIN tmrl : tmrl[j] = l[i]
  BY <1>0, WithoutSound
<1>2. due' = [due EXCEPT ![t] = d] /\ tmrl' = InsertAt(l, k + 1, t)
  BY DEF tmr_start
<1> HIDE DEF l
<1>3. k \in 0..Len(l) /\ \A i \in 1..Len(l) : IF i <= k THEN due[l[i]] <= d
                                                         ELSE due[l[i]] >= d
  BY <1>1, PlaceSound
<1> HIDE DEF k
<1>4. Len(l) \in Nat /\ DOMAIN l = 1..Len(l) BY <1>1
<1>5. /\ tmrl' \in Seq(Timers) /\ Len(tmrl') = Len(l) + 1
      /\ \A j \in 1..(Len(l) + 1) :
           tmrl'[j] = IF j < k + 1 THEN l[j] ELSE IF j = k + 1 THEN t ELSE l[j - 1]
  <2>1. PICK n \in 1..(Len(l) + 1) : n = k + 1 BY <1>3, <1>4
  <2>2. l \in Seq(Timers) BY <1>1
  <2>3. /\ InsertAt(l, n, t) \in Seq(Timers)
        /\ Len(InsertAt(l, n, t)) = Len(l) + 1
        /\ \A j \in 1..(Len(l) + 1) : InsertAt(l, n, t)[j] =
             IF j < n THEN l[j] ELSE IF j = n THEN t ELSE l[j - 1]
    <3>1. n \in 1..(Len(l) + 1)
      BY <2>1
    <3> QED BY <2>2, <3>1, Inserted, SMTT(60)
  <2> QED BY <1>2, <2>1, <2>3
<1>6. DOMAIN tmrl' = 1..(Len(l) + 1) BY <1>5
<1> DEFINE from(j) == IF j < k + 1 THEN j ELSE j - 1
<1>20. \A j \in DOMAIN tmrl' : tmrl'[j] = IF j = k + 1 THEN t ELSE l[from(j)]
  BY <1>3, <1>4, <1>5, <1>6
<1>7. due' \in Dues /\ due'[t] = d /\ \A u \in Timers \ {t} : due'[u] = due[u]
  BY <1>2, MainLoopAssumption DEF Dues
<1>8. \A i \in 1..Len(l) : l[i] \in Timers \ {t} /\ due'[l[i]] = due[l[i]]
  BY <1>1, <1>4, <1>7
<1>9. \A i \in 1..Len(l), j \in 1..Len(l) :
        i < j => l[i] # l[j] /\ due'[l[i]] <= due'[l[j]]
  BY <1>1, <1>4, <1>8 DEF Ordered
<1>10. \A i \in 1..Len(l) : IF i <= k THEN due'[l[i]] <= d ELSE due'[l[i]] >= d
  BY <1>3, <1>8
<1>11. ASSUME NEW i \in DOMAIN tmrl', NEW j \in DOMAIN tmrl', i < j
       PROVE tmrl'[i] # tmrl'[j] /\ due'[tmrl'[i]] <= due'[tmrl'[j]]
  <2>1. CASE i # k + 1 /\ j # k + 1
    <3>1. from(i) \in 1..Len(l) /\ from(j) \in 1..Len(l) /\ from(i) < from(j)
      BY <1>3, <1>4, <1>6, <1>11, <2>1
    <3>2. tmrl'[i] = l[from(i)] /\ tmrl'[j] = l[from(j)] BY <1>20, <2>1
    <3> HIDE DEF from
    <3> QED BY <1>9, <3>1, <3>2
  <2>2. CASE i = k + 1
    <3>1. tmrl'[i] = t /\ tmrl'[j] = l[j - 1] /\ j - 1 \in 1..Len(l) /\ ~(j - 1 <= k)
      BY <1>3, <1>4, <1>5, <1>6, <1>11, <2>2
    <3> QED BY <3>1, <1>7, <1>8, <1>10
  <2>3. CASE j = k + 1
    <3>1. tmrl'[j] = t /\ tmrl'[i] = l[i] /\ i \in 1..Len(l) /\ i <= k
      BY <1>3, <1>4, <1>5, <1>6, <1>11, <2>3
    <3> QED BY <3>1, <1>7, <1>8, <1>10
  <2> QED BY <2>1, <2>2, <2>3
<1>12. InOrder' BY <1>11 DEF InOrder
<1>13. ASSUME NEW u \in Timers \ {t}, Active(u)' PROVE Active(u)
  <2>1. PICK j \in DOMAIN tmrl' : tmrl'[j] = u BY <1>13 DEF Active
  <2>2. \E i \in DOMAIN l : l[i] = u
    <3>1. j # k + 1 BY <1>13, <1>20, <2>1
    <3>2. from(j) \in DOMAIN l BY <1>3, <1>4, <1>6, <3>1
    <3>3. l[from(j)] = u BY <1>20, <2>1, <3>1
    <3> HIDE DEF from
    <3> QED BY <3>2, <3>3
  <2> QED BY <2>2, <1>1 DEF Active
<1> QED BY <1>5, <1>7, <1>12, <1>13

(* tmr_cancel keeps it too.                                                 *)
LEMMA CancelSound ==
  ASSUME tmrl \in Seq(Timers), due \in Dues, InOrder, 0 \in -Slack..DelayMax,
         NEW t \in Timers, tmr_cancel(t)
  PROVE  /\ tmrl' \in Seq(Timers) /\ due' \in Dues /\ InOrder'
         /\ ~Active(t)'
         /\ \A u \in Timers \ {t} : due'[u] = due[u] /\ (Active(u)' => Active(u))
<1>1. tmrl' = Without(tmrl, t) /\ due' = [due EXCEPT ![t] = 0]
  BY DEF tmr_cancel
<1>2. Ordered(tmrl, due) BY DEF InOrder, Ordered
<1>3. /\ tmrl' \in Seq(Timers) /\ Ordered(tmrl', due)
      /\ \A i \in DOMAIN tmrl' : tmrl'[i] # t /\ \E j \in DOMAIN tmrl : tmrl[j] = tmrl'[i]
  BY <1>1, <1>2, WithoutSound
<1>4. due' \in Dues /\ \A u \in Timers \ {t} : due'[u] = due[u]
  BY <1>1 DEF Dues
<1>5. \A i \in DOMAIN tmrl' : tmrl'[i] \in Timers BY <1>3
<1>6. InOrder'
  <2> SUFFICES ASSUME NEW i \in DOMAIN tmrl', NEW j \in DOMAIN tmrl', i < j
               PROVE tmrl'[i] # tmrl'[j] /\ due'[tmrl'[i]] <= due'[tmrl'[j]]
    BY DEF InOrder
  <2> QED BY <1>3, <1>4, <1>5 DEF Ordered
<1> QED BY <1>3, <1>4, <1>6 DEF Active

(* A list that is served from its head stays in order.                      *)
LEMMA ServeSound ==
  ASSUME tmrl \in Seq(Timers), due \in Dues, InOrder, 0 \in -Slack..DelayMax,
         tmrl # <<>>, tmrl' = Tail(tmrl), due' = [due EXCEPT ![Head(tmrl)] = 0]
  PROVE  tmrl' \in Seq(Timers) /\ due' \in Dues /\ InOrder'
<1>1. /\ Len(tmrl) \in Nat \ {0} /\ DOMAIN tmrl = 1..Len(tmrl)
      /\ Head(tmrl) = tmrl[1] /\ \A i \in 1..Len(tmrl) : tmrl[i] \in Timers
  OBVIOUS
<1>2. /\ tmrl' \in Seq(Timers) /\ DOMAIN tmrl' = 1..(Len(tmrl) - 1)
      /\ \A i \in 1..(Len(tmrl) - 1) : tmrl'[i] = tmrl[i + 1]
  OBVIOUS
<1>3. due' \in Dues /\ \A u \in Timers \ {Head(tmrl)} : due'[u] = due[u]
  BY <1>1 DEF Dues
<1>4. \A i \in 1..(Len(tmrl) - 1) :
        tmrl[i + 1] \in Timers \ {Head(tmrl)} /\ due'[tmrl'[i]] = due[tmrl[i + 1]]
  BY <1>1, <1>2, <1>3 DEF InOrder
<1>5. InOrder'
  <2> SUFFICES ASSUME NEW i \in DOMAIN tmrl', NEW j \in DOMAIN tmrl', i < j
               PROVE tmrl'[i] # tmrl'[j] /\ due'[tmrl'[i]] <= due'[tmrl'[j]]
    BY DEF InOrder
  <2>1. i + 1 \in DOMAIN tmrl /\ j + 1 \in DOMAIN tmrl /\ i + 1 < j + 1 BY <1>1, <1>2
  <2>2. tmrl[i + 1] # tmrl[j + 1] /\ due[tmrl[i + 1]] <= due[tmrl[j + 1]]
    BY <2>1 DEF InOrder
  <2> QED BY <1>2, <1>4, <2>2
<1> QED BY <1>2, <1>3, <1>5

(* So it does when time passes, or the clock is set.                        *)
LEMMA ShiftSound ==
  ASSUME tmrl \in Seq(Timers), due \in Dues, InOrder, tmrl' = tmrl,
         \A t, u \in Timers : Active(t) /\ Active(u) /\ due[t] <= due[u] => due'[t] <= due'[u]
  PROVE  InOrder'
<1> SUFFICES ASSUME NEW i \in DOMAIN tmrl, NEW j \in DOMAIN tmrl, i < j
             PROVE tmrl[i] # tmrl[j] /\ due'[tmrl[i]] <= due'[tmrl[j]]
  BY DEF InOrder
<1>1. /\ tmrl[i] # tmrl[j] /\ due[tmrl[i]] <= due[tmrl[j]]
      /\ tmrl[i] \in Timers /\ tmrl[j] \in Timers
  BY DEF InOrder
<1>2. Active(tmrl[i]) /\ Active(tmrl[j]) BY DEF Active
<1> QED BY <1>1, <1>2

(* The timer at the head is the first that is due.                          *)
LEMMA HeadIsNext ==
  ASSUME tmrl \in Seq(Timers), due \in Dues, InOrder, NEW t \in Timers, Active(t)
  PROVE  tmrl # <<>> /\ Head(tmrl) \in Timers /\ due[Head(tmrl)] <= due[t]
<1>1. PICK j \in DOMAIN tmrl : tmrl[j] = t BY DEF Active
<1>2. /\ Len(tmrl) \in Nat \ {0} /\ j \in 1..Len(tmrl) /\ 1 \in DOMAIN tmrl
      /\ Head(tmrl) = tmrl[1] /\ tmrl # <<>> /\ tmrl[1] \in Timers
  BY <1>1
<1>3. due[t] \in Int /\ due[tmrl[1]] \in Int BY <1>2, MainLoopAssumption DEF Dues
<1>4. j = 1 \/ 1 < j BY <1>2
<1> QED BY <1>1, <1>2, <1>3, <1>4 DEF InOrder

(* What the poll is told is no longer than the next timer's delay.          *)
LEMMA TimeoutSound ==
  ASSUME tmrl \in Seq(Timers), due \in Dues, InOrder
  PROVE  /\ tmr_next_timeout \in 0..Forever
         /\ AsInt(tmr_next_timeout) >= 0 => AsInt(tmr_next_timeout) \in 0..tmr_next_timeout
         /\ tmrl # <<>> => /\ tmr_next_timeout # 0
                           /\ \A t \in Timers : Active(t) =>
                                tmr_next_timeout <= IF due[t] > 1 THEN due[t] ELSE 1
<1>1. CASE tmrl = <<>>
  <2>1. tmr_next_timeout = 0 BY <1>1 DEF tmr_next_timeout
  <2>2. 0 % IntSpan = 0
    <3>1. 0 % IntSpan \in 0..(IntSpan - 1) /\ 0 % IntSpan <= 0
      BY Modulo, MainLoopAssumption
    <3> QED BY <3>1, MainLoopAssumption
  <2> QED BY <1>1, <2>1, <2>2, MainLoopAssumption DEF AsInt, Forever
<1>2. CASE tmrl # <<>>
  <2> DEFINE h == due[Head(tmrl)]
             to == tmr_next_timeout
  <2>1. to = IF h <= 0 THEN 1 ELSE h BY <1>2 DEF tmr_next_timeout
  <2>2. Head(tmrl) \in Timers BY <1>2
  <2>3. h \in -Slack..DelayMax BY <2>2 DEF Dues
  <2>4. to \in 1..Forever BY <2>1, <2>3, MainLoopAssumption DEF Forever
  <2>5. \A t \in Timers : Active(t) => h <= due[t] /\ due[t] \in Int
    BY HeadIsNext, MainLoopAssumption DEF Dues
  <2> HIDE DEF to, h
  <2>6. to % IntSpan \in 0..(IntSpan - 1) /\ to % IntSpan <= to
    <3>1. to \in Nat /\ IntSpan \in Nat \ {0} BY <2>4, MainLoopAssumption DEF Forever
    <3> QED BY <3>1, Modulo
  <2>7. AsInt(to) >= 0 => AsInt(to) \in 0..to
    BY <2>4, <2>6, MainLoopAssumption DEF AsInt, Forever
  <2> QED BY <2>1, <2>3, <2>4, <2>5, <2>7, MainLoopAssumption DEF to
<1> QED BY <1>1, <1>2

-----------------------------------------------------------------------------
(* The invariant.                                                           *)

LEMMA InitIInv == Init => IInv
<1> SUFFICES ASSUME Init PROVE IInv OBVIOUS
<1> USE MainLoopAssumption DEF Init
<1>0. 0 \in -Slack..DelayMax /\ 0 \in -Slack..0 /\ 0 \in 0..Forever BY DEF Forever
<1>1. due \in Dues /\ tmrl \in Seq(Timers) BY <1>0 DEF Dues
<1>5. loop \in Running BY <1>0 DEF Running
<1>6. pipe \in Seq(Others \cup {Loop}) /\ Len(pipe) <= Room OBVIOUS
<1>7. thr \in [Others -> {"out", "in", "full", "waits"}] OBVIOUS
<1>8. lock \in Workers \cup {Loop, None} /\ polling \in BOOLEAN
  OBVIOUS
<1>9. troubles \in 0..MaxTroubles OBVIOUS
<1>2. TypeOK BY <1>1, <1>5, <1>6, <1>7, <1>8, <1>9 DEF TypeOK, Dues
<1>3. Mutex BY DEF Mutex, Locked, Others
<1>4. QueueFed /\ InOrder /\ WakesInTime BY DEF QueueFed, InOrder, WakesInTime, Asleep
<1> QED BY <1>2, <1>3, <1>4 DEF IInv

(* A step that leaves the timers alone keeps what is said of them, unless   *)
(* it goes to sleep.                                                        *)
LEMMA TimersKept ==
  ASSUME IInv, UNCHANGED <<due, tmrl>>, loop' \in Running,
         Asleep' => loop' = loop
  PROVE  InOrder' /\ WakesInTime'
BY DEF IInv, InOrder, WakesInTime, Asleep, Active

LEMMA TypeKept ==
  ASSUME TypeOK, UNCHANGED <<due, tmrl, lock, polling, thr, troubles>>, loop' \in Running,
         pipe' \in Seq(Others \cup {Loop}), Len(pipe') <= Room
  PROVE  TypeOK'
<1>1. UNCHANGED due /\ UNCHANGED tmrl /\ UNCHANGED lock /\ UNCHANGED polling
      /\ UNCHANGED thr /\ UNCHANGED troubles
  OBVIOUS
<1> QED BY <1>1 DEF TypeOK

LEMMA LoopStep ==
  ASSUME IInv, TheLoop, ~(loop.pc = "handler" /\ Call)
  PROVE  IInv'
<1> USE MainLoopAssumption
<1>1. /\ due \in Dues /\ tmrl \in Seq(Timers) /\ InOrder /\ loop \in Running
      /\ 0 \in -Slack..DelayMax /\ TypeOK /\ Mutex /\ QueueFed /\ WakesInTime
  BY DEF IInv, TypeOK, Dues
<1>2. CASE re_main
  <2>1. TypeOK' BY <1>1, <1>2 DEF re_main, TypeOK, Running, Goes
  <2>2. Mutex' /\ QueueFed' BY <1>1, <1>2 DEF re_main, Mutex, QueueFed, Running, Goes, Locked
  <2>3. UNCHANGED <<due, tmrl>> /\ ~Asleep'
    BY <1>1, <1>2 DEF re_main, Goes, Running, Asleep
  <2> QED BY <2>1, <2>2, <2>3, TimersKept DEF IInv, TypeOK
<1>3. CASE re_lock
  <2>1. TypeOK' BY <1>1, <1>3 DEF re_lock, TypeOK, Running, Goes
  <2>2. Mutex' /\ QueueFed'
    BY <1>1, <1>3 DEF re_lock, Mutex, QueueFed, Running, Goes, Locked, TypeOK, Others
  <2>3. UNCHANGED <<due, tmrl>> /\ ~Asleep'
    BY <1>1, <1>3 DEF re_lock, Goes, Running, Asleep
  <2> QED BY <2>1, <2>2, <2>3, TimersKept DEF IInv, TypeOK
<1>4. CASE Top
  <2> DEFINE to == tmr_next_timeout
  <2>1. /\ to \in 0..Forever /\ (AsInt(to) >= 0 => AsInt(to) \in 0..to)
        /\ tmrl # <<>> => /\ to # 0
                          /\ \A t \in Timers : Active(t) =>
                               to <= IF due[t] > 1 THEN due[t] ELSE 1
    BY <1>1, TimeoutSound
  <2> HIDE DEF to
  <2>2. CASE ~polling /\ Goes("out") /\ UNCHANGED polling
    <3>1. TypeOK' BY <1>1, <1>4, <2>2 DEF Top, TypeOK, Running, Goes
    <3>2. Mutex' /\ QueueFed'
      BY <1>1, <1>4, <2>2 DEF Top, Mutex, QueueFed, Running, Goes, Locked, TypeOK, Others
    <3>3. UNCHANGED <<due, tmrl>> /\ ~Asleep'
      BY <1>1, <1>4, <2>2 DEF Top, Goes, Running, Asleep
    <3> QED BY <3>1, <3>2, <3>3, TimersKept DEF IInv, TypeOK
  <2>3. CASE polling /\ UNCHANGED polling
             /\ loop' = [loop EXCEPT !.pc = "sleep", !.wrapped = AsInt(to) < 0,
                          !.left = IF to = 0 \/ AsInt(to) < 0 THEN Forever ELSE AsInt(to)]
    <3>0. AsInt(to) \in Int BY <2>1 DEF AsInt, Forever
    <3>1. loop' \in Running
      <4> DEFINE l == IF to = 0 \/ AsInt(to) < 0 THEN Forever ELSE AsInt(to)
      <4>1. l \in 0..Forever BY <2>1, <3>0 DEF Forever
      <4>2. loop' = [loop EXCEPT !.pc = "sleep", !.wrapped = AsInt(to) < 0, !.left = l]
        BY <2>3
      <4> HIDE DEF l
      <4>3. CASE AsInt(to) < 0
        <5>1. loop' = [loop EXCEPT !.pc = "sleep", !.wrapped = TRUE, !.left = l]
          BY <4>2, <4>3
        <5> QED BY <1>1, <4>1, <5>1 DEF Running
      <4>4. CASE ~(AsInt(to) < 0)
        <5>1. loop' = [loop EXCEPT !.pc = "sleep", !.wrapped = FALSE, !.left = l]
          <6>1. (AsInt(to) < 0) = FALSE BY <3>0, <4>4
          <6> QED BY <4>2, <6>1, Zenon
        <5> QED BY <1>1, <4>1, <5>1 DEF Running
      <4> QED BY <4>3, <4>4
    <3>2. TypeOK' BY <1>1, <1>4, <2>3, <3>1 DEF Top, TypeOK
    <3>3. Mutex' /\ QueueFed'
      BY <1>1, <1>4, <2>3 DEF Top, Mutex, QueueFed, Running, Locked, TypeOK, Others
    <3>4. InOrder' BY <1>1, <1>4 DEF Top, InOrder
    <3>5. WakesInTime'
      <4> SUFFICES ASSUME ~(AsInt(to) < 0), NEW t \in Timers, Active(t)
                   PROVE loop'.left <= IF due[t] > 1 THEN due[t] ELSE 1
        BY <1>1, <1>4, <2>3 DEF Top, WakesInTime, Asleep, Active, Running
      <4>1. tmrl # <<>> BY <1>1, HeadIsNext
      <4>2. loop'.left = AsInt(to) BY <1>1, <2>1, <2>3, <4>1 DEF Running
      <4>3. due[t] \in Int /\ to \in Int BY <1>1, <2>1 DEF Dues
      <4> QED BY <2>1, <3>0, <4>1, <4>2, <4>3
    <3> QED BY <3>2, <3>3, <3>4, <3>5 DEF IInv
  <2> QED BY <1>4, <2>2, <2>3 DEF Top, to
<1>5. CASE Wake
  <2>0. PICK r \in SUBSET Sources :
          loop' = [loop EXCEPT !.pc = "relock", !.ready = r, !.late = {},
                               !.wrapped = FALSE, !.left = 0]
    BY <1>5 DEF Wake
  <2>4. 0 \in 0..Forever BY DEF Forever
  <2>5. loop' \in Running BY <1>1, <2>0, <2>4 DEF Running
  <2>1. TypeOK' BY <1>1, <1>5, <2>5 DEF Wake, TypeOK
  <2>2. Mutex' /\ QueueFed'
    BY <1>1, <1>5 DEF Wake, Mutex, QueueFed, Running, Locked, TypeOK, Others, Asleep
  <2>3. UNCHANGED <<due, tmrl>> /\ ~Asleep'
    BY <1>1, <1>5 DEF Wake, Running, Asleep
  <2> QED BY <2>1, <2>2, <2>3, TimersKept DEF IInv, TypeOK
<1>6. CASE PollFails
  <2>4. 0 \in 0..Forever BY DEF Forever
  <2>5. loop' \in Running BY <1>1, <1>6, <2>4 DEF PollFails, Running
  <2>6. polling' \in BOOLEAN BY <1>1, <1>6 DEF PollFails, TypeOK
  <2>7. troubles' \in 0..MaxTroubles BY <1>1, <1>6 DEF PollFails, Trouble, TypeOK
  <2>8. UNCHANGED <<due, tmrl, lock, thr, pipe>> BY <1>6 DEF PollFails
  <2>1. TypeOK' BY <1>1, <2>5, <2>6, <2>7, <2>8 DEF TypeOK
  <2>2. Mutex' /\ QueueFed'
    BY <1>1, <1>6 DEF PollFails, Mutex, QueueFed, Running, Locked, TypeOK, Others, Asleep
  <2>3. UNCHANGED <<due, tmrl>> /\ ~Asleep'
    BY <1>1, <1>6 DEF PollFails, Running, Asleep
  <2> QED BY <2>1, <2>2, <2>3, TimersKept DEF IInv, TypeOK
<1>7. CASE fd_poll
  <2>0. 0 \in -Slack..0 OBVIOUS
  <2>6. UNCHANGED <<due, tmrl, lock, polling, thr, troubles>> BY <1>7 DEF fd_poll
  <2>4. ASSUME loop.ready = {}, UNCHANGED pipe,
               loop' = [loop EXCEPT !.pc = "timers", !.now = 0]
        PROVE TypeOK' /\ Mutex' /\ QueueFed'
    <3>1. loop' \in Running BY <1>1, <2>0, <2>4 DEF Running
    <3>2. Mutex' /\ QueueFed'
      BY <1>1, <1>7, <2>4 DEF fd_poll, Mutex, QueueFed, Running, Locked
    <3>3. pipe' \in Seq(Others \cup {Loop}) /\ Len(pipe') <= Room BY <1>1, <2>4 DEF TypeOK
    <3>4. TypeOK BY <1>1
    <3>5. TypeOK' BY <2>6, <3>1, <3>3, <3>4, TypeKept
    <3> QED BY <3>2, <3>5
  <2>5. ASSUME NEW e \in loop.ready, event_handler(e),
               loop' = [loop EXCEPT !.pc = "handler", !.back = "events", !.ready = @ \ {e}]
        PROVE TypeOK' /\ Mutex' /\ QueueFed'
    <3>1. loop' \in Running BY <1>1, <2>5 DEF Running
    <3>2. pipe' \in Seq(Others \cup {Loop}) /\ Len(pipe') <= Room
      <4>1. CASE e = "mqueue"
        <5>1. pipe # <<>> /\ pipe' = Tail(pipe) /\ pipe \in Seq(Others \cup {Loop})
          BY <1>1, <2>5, <4>1 DEF event_handler, QueueFed, TypeOK
        <5>2. Len(pipe) \in Nat \ {0} /\ Len(pipe') = Len(pipe) - 1 BY <5>1
        <5>3. pipe' \in Seq(Others \cup {Loop}) BY <5>1
        <5> QED BY <1>1, <5>2, <5>3 DEF TypeOK
      <4>2. CASE e # "mqueue" BY <1>1, <2>5, <4>2 DEF event_handler, TypeOK
      <4> QED BY <4>1, <4>2
    <3>3. Mutex' BY <1>1, <1>7, <2>5 DEF fd_poll, Mutex, Running, Locked
    <3>4. QueueFed' BY <1>1, <2>5 DEF event_handler, QueueFed, Running
    <3>5. TypeOK BY <1>1
    <3>6. TypeOK' BY <2>6, <3>1, <3>2, <3>5, TypeKept
    <3> QED BY <3>3, <3>4, <3>6
  <2>1. TypeOK' /\ Mutex' /\ QueueFed' BY <1>7, <2>4, <2>5 DEF fd_poll
  <2>3. UNCHANGED <<due, tmrl>> /\ ~Asleep'
    BY <1>1, <1>7 DEF fd_poll, Running, Asleep
  <2> QED BY <2>1, <2>3, TimersKept DEF IInv, TypeOK
<1>8. CASE tmr_poll
  <2>3. 0 \in -Slack..0 OBVIOUS
  <2>4. \/ loop' = [loop EXCEPT !.pc = "top", !.now = 0]
        \/ loop' = [loop EXCEPT !.pc = "handler", !.back = "timers"]
    BY <1>8 DEF tmr_poll
  <2>5. loop' \in Running /\ ~Asleep' BY <1>1, <2>3, <2>4 DEF Running, Asleep
  <2>6. Mutex' /\ QueueFed'
    BY <1>1, <1>8, <2>4 DEF tmr_poll, Mutex, QueueFed, Running, Locked
  <2>0. loop' \in Running /\ ~Asleep' /\ Mutex' /\ QueueFed' BY <2>5, <2>6
  <2>1. CASE tmrl = <<>> \/ due[Head(tmrl)] > loop.now
    <3>1. UNCHANGED <<due, tmrl>> BY <1>8, <2>1 DEF tmr_poll
    <3>2. TypeOK' BY <1>1, <1>8, <2>0, <3>1 DEF tmr_poll, TypeOK
    <3> QED BY <2>0, <3>1, <3>2, TimersKept DEF IInv
  <2>2. CASE ~(tmrl = <<>> \/ due[Head(tmrl)] > loop.now)
    <3>1. tmrl' = Tail(tmrl) /\ due' = [due EXCEPT ![Head(tmrl)] = 0]
      BY <1>8, <2>2 DEF tmr_poll
    <3>2. tmrl' \in Seq(Timers) /\ due' \in Dues /\ InOrder'
      BY <1>1, <2>2, <3>1, ServeSound
    <3>3. TypeOK' BY <1>1, <1>8, <2>0, <3>2 DEF tmr_poll, TypeOK, Dues
    <3>4. WakesInTime' BY <2>0 DEF WakesInTime
    <3> QED BY <2>0, <3>2, <3>3, <3>4 DEF IInv
  <2> QED BY <2>1, <2>2
<1>9. CASE HandlerPush
  <2>0. loop' \in Running BY <1>1, <1>9 DEF HandlerPush, Running
  <2>4. pipe' \in Seq(Others \cup {Loop}) /\ Len(pipe') <= Room
    <3>1. CASE HasRoom
      <4>1. pipe \in Seq(Others \cup {Loop}) /\ pipe' = Append(pipe, Loop)
        BY <1>1, <1>9, <3>1 DEF HandlerPush, Pushed, TypeOK
      <4>2. pipe' \in Seq(Others \cup {Loop}) /\ Len(pipe') = Len(pipe) + 1 /\ Len(pipe) \in Nat
        BY <4>1
      <4> QED BY <3>1, <4>2 DEF HasRoom
    <3>2. CASE ~HasRoom BY <1>1, <1>9, <3>2 DEF HandlerPush, TypeOK
    <3> QED BY <3>1, <3>2
  <2>1. TypeOK' BY <1>1, <1>9, <2>0, <2>4 DEF HandlerPush, TypeOK
  <2>2. Mutex' /\ QueueFed'
    BY <1>1, <1>9 DEF HandlerPush, Mutex, QueueFed, Running, Locked, Pushed, TypeOK
  <2>3. UNCHANGED <<due, tmrl>> /\ ~Asleep'
    BY <1>1, <1>9 DEF HandlerPush, Running, Asleep
  <2> QED BY <2>1, <2>2, <2>3, TimersKept DEF IInv, TypeOK
<1>10. CASE HandlerReturn
  <2>1. TypeOK' BY <1>1, <1>10 DEF HandlerReturn, TypeOK, Running, Goes
  <2>2. Mutex' /\ QueueFed'
    BY <1>1, <1>10 DEF HandlerReturn, Mutex, QueueFed, Running, Locked, Goes
  <2>3. UNCHANGED <<due, tmrl>> /\ ~Asleep'
    BY <1>1, <1>10 DEF HandlerReturn, Running, Goes, Asleep
  <2> QED BY <2>1, <2>2, <2>3, TimersKept DEF IInv, TypeOK
<1> QED
  BY <1>2, <1>3, <1>4, <1>5, <1>6, <1>7, <1>8, <1>9, <1>10 DEF TheLoop, HandlerCall

(* A call of the library, from a handler or another thread.                 *)
LEMMA CallStep ==
  ASSUME IInv, Call
  PROVE  IInv'
<1> USE MainLoopAssumption
<1>1. /\ due \in Dues /\ tmrl \in Seq(Timers) /\ InOrder /\ loop \in Running
      /\ 0 \in -Slack..DelayMax /\ TypeOK /\ Mutex /\ QueueFed /\ WakesInTime
  BY DEF IInv, TypeOK, Dues
<1>2. UNCHANGED <<lock, thr, pipe>> BY DEF Call
<1>3. ASSUME due' \in Dues, tmrl' \in Seq(Timers), InOrder', polling' = polling,
             troubles' = troubles,
             NEW t \in Timers, NEW new \in SUBSET {t},
             loop' = [loop EXCEPT !.late = (@ \ {t}) \cup new],
             Asleep /\ Active(t)' => new = {t},
             \A u \in Timers \ {t} : due'[u] = due[u] /\ (Active(u)' => Active(u))
      PROVE  IInv'
  <2>1. loop' \in Running BY <1>1, <1>3 DEF Running
  <2>2. TypeOK' BY <1>1, <1>2, <1>3, <2>1 DEF TypeOK, Dues
  <2>3. Mutex' /\ QueueFed' BY <1>1, <1>2, <1>3 DEF Mutex, QueueFed, Running
  <2>4. WakesInTime'
    <3> SUFFICES ASSUME Asleep, ~loop.wrapped, NEW u \in Timers, Active(u)', u \notin loop'.late
                 PROVE loop.left <= IF due'[u] > 1 THEN due'[u] ELSE 1
      BY <1>1, <1>3 DEF WakesInTime, Asleep, Running
    <3>1. u # t BY <1>1, <1>3 DEF Running
    <3>2. u \notin loop.late BY <1>1, <1>3, <3>1 DEF Running
    <3> QED BY <1>1, <1>3, <3>1, <3>2 DEF WakesInTime
  <2> QED BY <1>3, <2>2, <2>3, <2>4 DEF IInv
<1>4. ASSUME NEW t \in Timers, NEW d \in 0..DelayMax, tmr_start(t, d) PROVE IInv'
  <2>1. /\ tmrl' \in Seq(Timers) /\ due' \in Dues /\ InOrder'
        /\ \A u \in Timers \ {t} : due'[u] = due[u] /\ (Active(u)' => Active(u))
    BY <1>1, <1>4, StartSound
  <2>2. CASE Asleep
    <3>1. loop' = [loop EXCEPT !.late = (@ \ {t}) \cup {t}]
      BY <1>1, <1>4, <2>2 DEF tmr_start, Running
    <3> QED BY <1>3, <1>4, <2>1, <3>1 DEF tmr_start
  <2>3. CASE ~Asleep
    <3>1. UNCHANGED <<polling, troubles, loop>>
      BY <1>1, <1>4, <2>3 DEF tmr_start, Running
    <3>2. TypeOK' BY <1>1, <1>2, <2>1, <3>1 DEF TypeOK, Dues
    <3>3. Mutex' /\ QueueFed' BY <1>1, <1>2, <3>1 DEF Mutex, QueueFed
    <3>4. WakesInTime' BY <2>3, <3>1 DEF WakesInTime, Asleep
    <3> QED BY <2>1, <3>2, <3>3, <3>4 DEF IInv
  <2> QED BY <2>2, <2>3
<1>5. ASSUME NEW t \in Timers, tmr_cancel(t) PROVE IInv'
  <2>1. /\ tmrl' \in Seq(Timers) /\ due' \in Dues /\ InOrder' /\ ~Active(t)'
        /\ \A u \in Timers \ {t} : due'[u] = due[u] /\ (Active(u)' => Active(u))
    BY <1>1, <1>5, CancelSound
  <2>2. loop' = [loop EXCEPT !.late = (@ \ {t}) \cup {}]
    BY <1>5 DEF tmr_cancel
  <2>3. {} \in SUBSET {t} OBVIOUS
  <2> QED BY <1>3, <1>5, <2>1, <2>2, <2>3 DEF tmr_cancel
<1>6. CASE re_cancel
  <2>1. UNCHANGED <<due, tmrl, loop>> BY <1>6 DEF re_cancel
  <2>4. polling' \in BOOLEAN BY <1>6 DEF re_cancel
  <2>5. troubles' \in 0..MaxTroubles BY <1>1, <1>6 DEF re_cancel, Trouble, TypeOK
  <2>2. TypeOK' BY <1>1, <1>2, <2>1, <2>4, <2>5 DEF TypeOK
  <2>3. Mutex' /\ QueueFed' BY <1>1, <1>2, <2>1 DEF Mutex, QueueFed
  <2> QED BY <1>1, <2>1, <2>2, <2>3, TimersKept DEF IInv
<1> QED BY <1>4, <1>5, <1>6 DEF Call

LEMMA ThreadStep ==
  ASSUME IInv, NEW w \in Others, Thread(w)
  PROVE  IInv'
<1> USE MainLoopAssumption
<1>1. loop \in Running /\ TypeOK /\ Mutex /\ QueueFed BY DEF IInv, TypeOK
<1>2. CASE ThreadCall(w) BY <1>2, CallStep DEF ThreadCall
<1>3. CASE re_thread_enter(w) \/ re_thread_leave(w) \/ BareBegins(w) \/ BareEnds(w)
  <2>1. UNCHANGED <<due, tmrl, polling, loop, pipe, troubles>>
    BY <1>3 DEF re_thread_enter, re_thread_leave, BareBegins, BareEnds
  <2>2. lock' \in Workers \cup {Loop, None} /\ thr' \in [Others -> {"out", "in", "full", "waits"}]
    BY <1>1, <1>3 DEF re_thread_enter, re_thread_leave, BareBegins, BareEnds, Moves, TypeOK
  <2>3. TypeOK' BY <1>1, <2>1, <2>2 DEF TypeOK
  <2>4. Mutex'
    <3>1. CASE re_thread_enter(w)
      BY <1>1, <2>1, <3>1 DEF re_thread_enter, Moves, Mutex, TypeOK, Others, Locked
    <3>2. CASE re_thread_leave(w)
      BY <1>1, <2>1, <3>2 DEF re_thread_leave, Moves, Mutex, TypeOK, Others, Locked
    <3>3. CASE BareBegins(w) \/ BareEnds(w)
      BY <1>1, <2>1, <3>3 DEF BareBegins, BareEnds, Moves, Mutex, TypeOK, Others, Locked
    <3> QED BY <1>3, <3>1, <3>2, <3>3
  <2>5. QueueFed' BY <1>1, <2>1 DEF QueueFed
  <2> QED BY <1>1, <2>1, <2>3, <2>4, <2>5, TimersKept DEF IInv
<1>4. CASE mqueue_push(w)
  <2>1. UNCHANGED <<due, tmrl, lock, polling, loop, troubles>> BY <1>4 DEF mqueue_push
  <2>2. thr' \in [Others -> {"out", "in", "full", "waits"}]
    BY <1>1, <1>4 DEF mqueue_push, Moves, TypeOK
  <2>3. pipe' \in Seq(Others \cup {Loop}) /\ Len(pipe') <= Room
        /\ (pipe # <<>> => pipe' # <<>>)
    <3>0. pipe \in Seq(Others \cup {Loop}) /\ Len(pipe) <= Room BY <1>1 DEF TypeOK
    <3>1. CASE HasRoom
      <4>1. pipe' = Append(pipe, w) BY <1>4, <3>1 DEF mqueue_push, Pushed
      <4>2. pipe' \in Seq(Others \cup {Loop}) /\ Len(pipe') = Len(pipe) + 1 /\ Len(pipe) \in Nat
        BY <3>0, <4>1
      <4> QED BY <3>1, <4>2 DEF HasRoom
    <3>2. CASE ~HasRoom BY <1>4, <3>0, <3>2 DEF mqueue_push
    <3> QED BY <3>1, <3>2
  <2>4. TypeOK' BY <1>1, <2>1, <2>2, <2>3 DEF TypeOK
  <2>5. \A v \in Workers : thr'[v] \in {"in", "full"} <=> thr[v] \in {"in", "full"}
    BY <1>1, <1>4 DEF mqueue_push, Moves, TypeOK, Others
  <2>6. Mutex' /\ QueueFed' BY <1>1, <2>1, <2>3, <2>5 DEF Mutex, QueueFed
  <2> QED BY <1>1, <2>1, <2>4, <2>6, TimersKept DEF IInv
<1> QED BY <1>2, <1>3, <1>4 DEF Thread

LEMMA TickStep ==
  ASSUME IInv, Tick
  PROVE  IInv'
<1> USE MainLoopAssumption
<1>1. /\ due \in Dues /\ tmrl \in Seq(Timers) /\ InOrder /\ loop \in Running
      /\ TypeOK /\ Mutex /\ QueueFed /\ WakesInTime
  BY DEF IInv, TypeOK, Dues
<1>2. UNCHANGED <<tmrl, lock, polling, thr, pipe, troubles>> BY DEF Tick
<1>3. due' = [t \in Timers |-> IF Active(t) THEN Later(due[t], -Slack) ELSE 0]
  BY DEF Tick
<1>4. due' \in Dues BY <1>1, <1>3 DEF Dues, Later
<1>5. InOrder'
  <2>1. \A t, u \in Timers : Active(t) /\ Active(u) /\ due[t] <= due[u] => due'[t] <= due'[u]
    BY <1>1, <1>3 DEF Later, Dues
  <2> QED BY <1>1, <1>2, <2>1, ShiftSound
<1>6. PICK l \in 0..Forever, n \in -Slack..0 :
        /\ loop' = [loop EXCEPT !.left = l, !.now = n]
        /\ Asleep => l = IF loop.left = Forever THEN loop.left ELSE Later(loop.left, 0)
  <2> DEFINE l == IF Asleep /\ loop.left # Forever THEN Later(loop.left, 0) ELSE loop.left
             n == IF loop.pc = "timers" \/ (loop.pc = "handler" /\ loop.back = "timers")
                  THEN loop.now - 1 ELSE 0
  <2>1. loop' = [loop EXCEPT !.left = l, !.now = n] BY <1>1 DEF Tick, Running
  <2>2. l \in 0..Forever BY <1>1 DEF Running, Later, Forever
  <2>3. n \in -Slack..0 BY <1>1 DEF Tick, Running
  <2> QED BY <2>1, <2>2, <2>3
<1>7. loop' \in Running BY <1>1, <1>6 DEF Running
<1>8. TypeOK' BY <1>1, <1>2, <1>4, <1>7 DEF TypeOK, Dues
<1>9. Mutex' /\ QueueFed' BY <1>1, <1>2, <1>6 DEF Mutex, QueueFed, Running
<1>10. WakesInTime'
  <2> SUFFICES ASSUME Asleep, ~loop.wrapped, NEW t \in Timers, Active(t), t \notin loop.late
               PROVE loop'.left <= IF due'[t] > 1 THEN due'[t] ELSE 1
    BY <1>1, <1>2, <1>6 DEF WakesInTime, Asleep, Running, Active
  <2>1. loop.left <= IF due[t] > 1 THEN due[t] ELSE 1 BY <1>1 DEF WakesInTime
  <2>2. due'[t] = Later(due[t], -Slack) BY <1>3
  <2>3. loop'.left = IF loop.left = Forever THEN loop.left ELSE Later(loop.left, 0)
    BY <1>1, <1>6 DEF Running
  <2>4. due[t] \in -Slack..DelayMax /\ loop.left \in 0..Forever BY <1>1 DEF Dues, Running
  <2>5. CASE loop.left = Forever
    <3>1. DelayMax = 0 /\ loop.left = 1 BY <2>1, <2>4, <2>5 DEF Forever
    <3>2. due[t] - 1 <= 0 BY <2>4, <3>1
    <3> QED BY <2>2, <2>3, <2>4, <2>5, <3>1, <3>2 DEF Later
  <2>6. CASE loop.left # Forever
    BY <2>1, <2>2, <2>3, <2>4, <2>6 DEF Later, Forever
  <2> QED BY <2>5, <2>6
<1> QED BY <1>5, <1>8, <1>9, <1>10 DEF IInv

LEMMA SetClockStep ==
  ASSUME IInv, SetClock
  PROVE  IInv'
<1> USE MainLoopAssumption
<1>1. /\ due \in Dues /\ tmrl \in Seq(Timers) /\ InOrder /\ loop \in Running
      /\ TypeOK /\ Mutex /\ QueueFed /\ WakesInTime /\ Asleep
  BY DEF IInv, TypeOK, Dues, SetClock
<1>2. UNCHANGED <<tmrl, lock, polling, thr, pipe>> /\ troubles' \in 0..MaxTroubles
  BY <1>1 DEF SetClock, Trouble, TypeOK
<1>3. CASE /\ due' = [t \in Timers |-> IF Active(t) THEN Later(due[t], -Slack) ELSE 0]
           /\ loop' = [loop EXCEPT !.late = {t \in Timers : Active(t)}]
  <2>6. due' \in Dues BY <1>1, <1>3 DEF Dues, Later
  <2>7. loop' \in Running BY <1>1, <1>3 DEF Running
  <2>1. due' \in Dues /\ loop' \in Running BY <2>6, <2>7
  <2>2. InOrder'
    <3>1. \A t, u \in Timers : Active(t) /\ Active(u) /\ due[t] <= due[u] => due'[t] <= due'[u]
      BY <1>1, <1>3 DEF Later, Dues
    <3> QED BY <1>1, <1>2, <3>1, ShiftSound
  <2>3. TypeOK' BY <1>1, <1>2, <2>1 DEF TypeOK, Dues
  <2>4. Mutex' /\ QueueFed' BY <1>1, <1>2, <1>3 DEF Mutex, QueueFed, Running
  <2>5. WakesInTime' BY <1>1, <1>2, <1>3 DEF WakesInTime, Active, Running
  <2> QED BY <2>2, <2>3, <2>4, <2>5 DEF IInv
<1>4. CASE /\ \A t \in Timers : due[t] < DelayMax
           /\ due' = [t \in Timers |-> IF Active(t) THEN due[t] + 1 ELSE 0]
           /\ UNCHANGED loop
  <2>1. due' \in Dues BY <1>1, <1>4 DEF Dues
  <2>2. InOrder'
    <3>1. \A t, u \in Timers : Active(t) /\ Active(u) /\ due[t] <= due[u] => due'[t] <= due'[u]
      BY <1>1, <1>4 DEF Dues
    <3> QED BY <1>1, <1>2, <3>1, ShiftSound
  <2>3. TypeOK' BY <1>1, <1>2, <1>4, <2>1 DEF TypeOK, Dues
  <2>4. Mutex' /\ QueueFed' BY <1>1, <1>2, <1>4 DEF Mutex, QueueFed
  <2>5. WakesInTime'
    <3> SUFFICES ASSUME ~loop.wrapped, NEW t \in Timers, Active(t), t \notin loop.late
                 PROVE loop.left <= IF due'[t] > 1 THEN due'[t] ELSE 1
      BY <1>1, <1>2, <1>4 DEF WakesInTime, Asleep, Active
    <3>1. loop.left <= IF due[t] > 1 THEN due[t] ELSE 1 BY <1>1 DEF WakesInTime
    <3>2. due'[t] = due[t] + 1 /\ due[t] \in Int /\ loop.left \in Int
      BY <1>1, <1>4 DEF Dues, Running, Forever
    <3> QED BY <3>1, <3>2
  <2> QED BY <2>2, <2>3, <2>4, <2>5 DEF IInv
<1> QED BY <1>3, <1>4 DEF SetClock

(* The invariant holds of every behaviour of the loop and its threads.      *)
THEOREM Invariance == Spec => []IInv
<1>1. Init => IInv BY InitIInv
<1>2. IInv /\ [Next]_vars => IInv'
  <2> SUFFICES ASSUME IInv, [Next]_vars PROVE IInv' OBVIOUS
  <2>1. CASE TheLoop
    <3>1. CASE loop.pc = "handler" /\ Call BY <3>1, CallStep
    <3>2. CASE ~(loop.pc = "handler" /\ Call) BY <2>1, <3>2, LoopStep
    <3> QED BY <3>1, <3>2
  <2>2. CASE \E w \in Others : Thread(w) BY <2>2, ThreadStep
  <2>3. CASE Tick BY <2>3, TickStep
  <2>4. CASE SetClock BY <2>4, SetClockStep
  <2>5. CASE UNCHANGED vars
    <3>1. /\ due' = due /\ tmrl' = tmrl /\ lock' = lock /\ polling' = polling
          /\ loop' = loop /\ thr' = thr /\ pipe' = pipe /\ troubles' = troubles
      BY <2>5 DEF vars
    <3> QED BY <3>1 DEF IInv, TypeOK, Mutex, QueueFed, InOrder, WakesInTime, Asleep, Active
  <2> QED BY <2>1, <2>2, <2>3, <2>4, <2>5 DEF Next
<1> QED BY <1>1, <1>2, PTL DEF Spec

(* Every variable keeps its type: no timer is due later than the longest    *)
(* delay, and the pipe holds no more than fits.                             *)
THEOREM TypeCorrect == Spec => []TypeOK
<1>1. IInv => TypeOK BY DEF IInv
<1> QED BY <1>1, Invariance, PTL

(* Threads that enter the library are there alone, and the list of timers   *)
(* is in order (re_thread_enter, tmr_start, tmr_cancel, tmr_poll).          *)
THEOREM ListIsSound == Spec => []ListSound
<1>1. IInv => ListSound
  <2> SUFFICES ASSUME IInv PROVE ListSound OBVIOUS
  <2>1. Inside \ Bare \subseteq {lock}
    BY MainLoopAssumption DEF IInv, Mutex, Inside, Others, Locked
  <2>2. Inside \ Bare = {} \/ Inside \ Bare = {lock} BY <2>1
  <2>3. Exclusion
    <3>1. CASE Inside \ Bare = {} BY <3>1, FS_EmptySet DEF Exclusion
    <3>2. CASE Inside \ Bare = {lock}
      <4>1. Cardinality({lock}) = 1 BY FS_Singleton
      <4> QED BY <3>2, <4>1 DEF Exclusion
    <3> QED BY <2>2, <3>1, <3>2
  <2> QED BY <2>3 DEF ListSound, IInv
<1> QED BY <1>1, Invariance, PTL

(* The poll never sleeps past the next timer, but for timers set meanwhile  *)
(* and timeouts that do not fit an int (re_main, tmr_next_timeout).         *)
THEOREM LoopWakesInTime == Spec => []WakesInTime
<1>1. IInv => WakesInTime BY DEF IInv
<1> QED BY <1>1, Invariance, PTL
=============================================================================
