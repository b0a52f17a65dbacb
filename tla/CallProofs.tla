----------------------------- MODULE CallProofs -----------------------------
(***************************************************************************)
(* Theorems about Call, for any finite number of calls, any notifiers and   *)
(* any max_calls.                                                           *)
(*                                                                          *)
(* The inductive invariant speaks of w, the value of the variables that     *)
(* hold the objects, because a chain of handlers computes several of them   *)
(* before it ends; OK(w, c, u) leaves out call c, in whose handlers the     *)
(* program is.                                                              *)
(***************************************************************************)
EXTENDS Call, FiniteSetTheorems, TLAPS

Value(w) ==
  /\ w = [call |-> w.call, calls |-> w.calls, notifiers |-> w.notifiers]
  /\ w.call \in [Calls -> CallRecord]
  /\ w.notifiers \in [Sipnots -> Sipnot]

Held(w, n) == {c \in Calls : w.call[c].not = n}

(* A notifier nobody has accepted yet has no argument, and no references.   *)
Balanced(w) ==
  \A n \in Sipnots :
    /\ w.notifiers[n].refs = Cardinality(Held(w, n))
    /\ w.notifiers[n].open => w.notifiers[n].refs > 0
    /\ w.notifiers[n].arg = None => w.notifiers[n].refs = 0

(* A call between two steps.                                                *)
UnderWay(r, u) ==
  /\ r.state = "ESTABLISHED" <=> r.sess = "up"
  /\ r.state = "INCOMING" => r.sess \in {"offered", "answered", "rejected"}
  /\ r.sess = "calling" => r.state \in {"OUTGOING", "RINGING", "EARLY"}
  /\ r.tmr_inv => r.state = "INCOMING"
  /\ r.state = "INCOMING" /\ u.answermode # "early" => r.tmr_inv
  /\ ~r.hungup =>
       /\ r.sess \notin {"ended", "released"}
       /\ r.sess = "rejected" => r.state = "INCOMING"
       /\ r.sess = "idle" => r.state = "OUTGOING" /\ r.mnat \in {"gather", "lost"}

Sound(r, u) ==
  /\ r \in CallRecord
  /\ r.life # "live" => r.not = None /\ ~r.tmr_inv
  /\ r.life = "none" => ~r.hungup /\ r.closed = 0
  /\ u.alive /\ ~r.hungup => r.closed = IF r.life = "freed" THEN 1 ELSE 0
  /\ r.life = "live" => UnderWay(r, u)

Others(w, c, u) == \A d \in Calls : d # c => Sound(w.call[d], u)

OK(w, c, u) == Value(w) /\ Balanced(w) /\ Others(w, c, u)

IInv ==
  /\ Value(W) /\ Balanced(W)
  /\ \A c \in Calls : Sound(call[c], ua)
  /\ ua \in [answermode : {"manual", "early", "auto"}, mnat : BOOLEAN, alive : BOOLEAN]
  /\ corrupt \in BOOLEAN

-----------------------------------------------------------------------------
(* Changes of a call that leave its notifier alone.                         *)

Set(w, c, r) == [w EXCEPT !.call[c] = r]

LEMMA SetLemma ==
  ASSUME NEW c \in Calls, NEW u, NEW w, OK(w, c, u),
         NEW r \in CallRecord, r.not = w.call[c].not
  PROVE  /\ OK(Set(w, c, r), c, u) /\ Set(w, c, r).call[c] = r
         /\ Set(w, c, r).notifiers = w.notifiers
  <1> DEFINE x == Set(w, c, r)
  <1>1. /\ w = [call |-> w.call, calls |-> w.calls, notifiers |-> w.notifiers]
        /\ w.call \in [Calls -> CallRecord]
        /\ w.notifiers \in [Sipnots -> Sipnot]
    BY DEF OK, Value
  <1>2. x = [call |-> [w.call EXCEPT ![c] = r], calls |-> w.calls,
             notifiers |-> w.notifiers]
    BY <1>1 DEF Set
  <1> HIDE DEF x
  <1>3. /\ x.call = [w.call EXCEPT ![c] = r] /\ x.calls = w.calls
        /\ x.notifiers = w.notifiers
    BY <1>2
  <1>4. x.call \in [Calls -> CallRecord] /\ x.call[c] = r
    BY <1>1, <1>3
  <1>5. \A d \in Calls : d # c => x.call[d] = w.call[d]
    BY <1>1, <1>3
  <1>6. Value(x)
    BY <1>1, <1>2, <1>3, <1>4 DEF Value
  <1>7. \A d \in Calls : x.call[d].not = w.call[d].not
    BY <1>4, <1>5
  <1>8. \A n \in Sipnots : Held(x, n) = Held(w, n)
    BY <1>7 DEF Held
  <1>9. Balanced(x)
    BY <1>3, <1>8 DEF OK, Balanced
  <1> QED BY <1>3, <1>4, <1>5, <1>6, <1>9 DEF OK, Others, x

(* The list of calls plays no part in the invariant.                        *)
LEMMA SameLemma ==
  ASSUME NEW c \in Calls, NEW u, NEW w, OK(w, c, u), NEW x,
         x = [call |-> x.call, calls |-> x.calls, notifiers |-> x.notifiers],
         x.call = w.call, x.notifiers = w.notifiers
  PROVE  OK(x, c, u)
  <1>1. Value(x) /\ Others(x, c, u)
    BY DEF OK, Value, Others
  <1>2. \A n \in Sipnots : Held(x, n) = Held(w, n)
    BY DEF Held
  <1>3. Balanced(x)
    BY <1>2 DEF OK, Balanced
  <1> QED BY <1>1, <1>3 DEF OK

-----------------------------------------------------------------------------
(* Notifiers: a call gives its reference back, or takes one.                *)

Both(w, c, r, n, k, q) ==
  [call |-> [w.call EXCEPT ![c] = r], calls |-> q,
   notifiers |-> [w.notifiers EXCEPT ![n] = k]]

(* The other calls, and the arguments of the notifiers.                     *)
Unchanged(x, w, c) ==
  /\ \A d \in Calls : d # c => x.call[d] = w.call[d]
  /\ \A n \in Sipnots : x.notifiers[n].arg = w.notifiers[n].arg

LEMMA GiveBackLemma ==
  ASSUME NEW c \in Calls, NEW u, NEW w, OK(w, c, u),
         NEW n \in Sipnots, w.call[c].not = n,
         NEW r \in CallRecord, r.not = None,
         NEW k, NEW o \in BOOLEAN, o => w.notifiers[n].refs > 1,
         k = [refs |-> w.notifiers[n].refs - 1, arg |-> w.notifiers[n].arg, open |-> o],
         NEW q
  PROVE  /\ OK(Both(w, c, r, n, k, q), c, u) /\ Both(w, c, r, n, k, q).call[c] = r
         /\ Unchanged(Both(w, c, r, n, k, q), w, c)
  <1> DEFINE x == Both(w, c, r, n, k, q)
  <1>1. /\ w.call \in [Calls -> CallRecord]
        /\ w.notifiers \in [Sipnots -> Sipnot]
    BY DEF OK, Value
  <1>2. n # None
    BY CallAssumption
  <1>3. x = [call |-> x.call, calls |-> x.calls, notifiers |-> x.notifiers]
    BY DEF Both
  <1>4. /\ x.call = [w.call EXCEPT ![c] = r]
        /\ x.notifiers = [w.notifiers EXCEPT ![n] = k]
        /\ x.calls = q
    BY DEF Both
  <1> HIDE DEF x
  <1>5. /\ \A d \in Calls : d # c => x.call[d] = w.call[d]
        /\ x.call[c] = r
        /\ x.call \in [Calls -> CallRecord]
    BY <1>1, <1>4
  <1>6. \A m \in Sipnots : m # n => Held(x, m) = Held(w, m)
    <2> SUFFICES ASSUME NEW m \in Sipnots, m # n PROVE Held(x, m) = Held(w, m)
      OBVIOUS
    <2>1. m # None
      BY CallAssumption
    <2> QED BY <2>1, <1>5 DEF Held
  <1>7. Held(x, n) = Held(w, n) \ {c} /\ c \in Held(w, n)
    BY <1>2, <1>5 DEF Held
  <1>8. IsFiniteSet(Held(w, n))
    <2>1. Held(w, n) \subseteq Calls
      BY DEF Held
    <2> QED BY <2>1, CallAssumption, FS_Subset
  <1>9. /\ Cardinality(Held(x, n)) = Cardinality(Held(w, n)) - 1
        /\ Cardinality(Held(x, n)) \in Nat
    <2>1. IsFiniteSet(Held(x, n)) /\ Cardinality(Held(x, n)) = Cardinality(Held(w, n)) - 1
      BY <1>7, <1>8, FS_RemoveElement
    <2> QED BY <2>1, FS_CardinalityType
  <1>10. w.notifiers[n] \in Sipnot /\ w.notifiers[n].refs = Cardinality(Held(w, n))
    BY <1>1 DEF OK, Balanced
  <1>11. k \in Sipnot /\ k.refs = Cardinality(Held(x, n)) /\ k.open = o
         /\ k.arg = w.notifiers[n].arg
    BY <1>9, <1>10 DEF Sipnot
  <1>12. /\ x.notifiers \in [Sipnots -> Sipnot] /\ x.notifiers[n] = k
         /\ \A m \in Sipnots : m # n => x.notifiers[m] = w.notifiers[m]
    BY <1>1, <1>4, <1>11
  <1>13. Value(x)
    BY <1>3, <1>5, <1>12 DEF Value
  <1>14. k.open => k.refs > 0
    BY <1>10, <1>11 DEF Sipnot
  <1>15. k.arg = None => k.refs = 0
    <2>1. c \in Held(w, n)
      BY <1>7
    <2>2. Cardinality(Held(w, n)) # 0
      BY <1>9
    <2> QED BY <1>10, <1>11, <2>2 DEF OK, Balanced
  <1>16. Balanced(x)
    <2> SUFFICES ASSUME NEW m \in Sipnots
                 PROVE  /\ x.notifiers[m].refs = Cardinality(Held(x, m))
                        /\ x.notifiers[m].open => x.notifiers[m].refs > 0
                        /\ x.notifiers[m].arg = None => x.notifiers[m].refs = 0
      BY DEF Balanced
    <2>1. CASE m = n
      BY <2>1, <1>11, <1>12, <1>14, <1>15
    <2>2. CASE m # n
      BY <2>2, <1>6, <1>12 DEF OK, Balanced
    <2> QED BY <2>1, <2>2
  <1>17. Unchanged(x, w, c)
    BY <1>5, <1>11, <1>12 DEF Unchanged
  <1> QED BY <1>5, <1>13, <1>16, <1>17 DEF OK, Others, x

OthersKept(x, w, c) == \A d \in Calls : d # c => x.call[d] = w.call[d]

LEMMA TakeLemma ==
  ASSUME NEW c \in Calls, NEW u, NEW w, OK(w, c, u), w.call[c].not = None,
         NEW n \in Sipnots,
         NEW r \in CallRecord, r.not = n,
         NEW k \in Sipnot, k.refs = w.notifiers[n].refs + 1, k.arg # None,
         NEW q
  PROVE  /\ OK(Both(w, c, r, n, k, q), c, u) /\ Both(w, c, r, n, k, q).call[c] = r
         /\ OthersKept(Both(w, c, r, n, k, q), w, c)
         /\ Both(w, c, r, n, k, q).notifiers[n] = k
  <1> DEFINE x == Both(w, c, r, n, k, q)
  <1>1. /\ w.call \in [Calls -> CallRecord]
        /\ w.notifiers \in [Sipnots -> Sipnot]
    BY DEF OK, Value
  <1>2. n # None
    BY CallAssumption
  <1>3. x = [call |-> x.call, calls |-> x.calls, notifiers |-> x.notifiers]
    BY DEF Both
  <1>4. /\ x.call = [w.call EXCEPT ![c] = r]
        /\ x.notifiers = [w.notifiers EXCEPT ![n] = k]
        /\ x.calls = q
    BY DEF Both
  <1> HIDE DEF x
  <1>5. /\ \A d \in Calls : d # c => x.call[d] = w.call[d]
        /\ x.call[c] = r
        /\ x.call \in [Calls -> CallRecord]
    BY <1>1, <1>4
  <1>6. \A m \in Sipnots : m # n => Held(x, m) = Held(w, m)
    <2> SUFFICES ASSUME NEW m \in Sipnots, m # n PROVE Held(x, m) = Held(w, m)
      OBVIOUS
    <2>1. m # None
      BY CallAssumption
    <2> QED BY <2>1, <1>5 DEF Held
  <1>7. Held(x, n) = Held(w, n) \cup {c} /\ c \notin Held(w, n)
    BY <1>2, <1>5 DEF Held
  <1>8. IsFiniteSet(Held(w, n))
    <2>1. Held(w, n) \subseteq Calls
      BY DEF Held
    <2> QED BY <2>1, CallAssumption, FS_Subset
  <1>9. /\ Cardinality(Held(x, n)) = Cardinality(Held(w, n)) + 1
        /\ Cardinality(Held(w, n)) \in Nat
    <2>1. Cardinality(Held(x, n)) = Cardinality(Held(w, n)) + 1
      BY <1>7, <1>8, FS_AddElement
    <2> QED BY <2>1, <1>8, FS_CardinalityType
  <1>10. w.notifiers[n].refs = Cardinality(Held(w, n))
    BY <1>1 DEF OK, Balanced
  <1>12. /\ x.notifiers \in [Sipnots -> Sipnot] /\ x.notifiers[n] = k
         /\ \A m \in Sipnots : m # n => x.notifiers[m] = w.notifiers[m]
    BY <1>1, <1>4
  <1>13. Value(x)
    BY <1>3, <1>5, <1>12 DEF Value
  <1>16. Balanced(x)
    <2> SUFFICES ASSUME NEW m \in Sipnots
                 PROVE  /\ x.notifiers[m].refs = Cardinality(Held(x, m))
                        /\ x.notifiers[m].open => x.notifiers[m].refs > 0
                        /\ x.notifiers[m].arg = None => x.notifiers[m].refs = 0
      BY DEF Balanced
    <2>1. CASE m = n
      BY <2>1, <1>9, <1>10, <1>12
    <2>2. CASE m # n
      BY <2>2, <1>6, <1>12 DEF OK, Balanced
    <2> QED BY <2>1, <2>2
  <1> QED BY <1>5, <1>12, <1>13, <1>16 DEF OK, Others, OthersKept, x

Shut(w, n) == [w EXCEPT !.notifiers[n].open = FALSE]

LEMMA ShutLemma ==
  ASSUME NEW c \in Calls, NEW u, NEW w, OK(w, c, u), NEW n \in Sipnots
  PROVE  OK(Shut(w, n), c, u) /\ Shut(w, n).call = w.call
  <1> DEFINE x == Shut(w, n)
  <1>1. /\ w = [call |-> w.call, calls |-> w.calls, notifiers |-> w.notifiers]
        /\ w.call \in [Calls -> CallRecord]
        /\ w.notifiers \in [Sipnots -> Sipnot]
    BY DEF OK, Value
  <1>2. PICK k : k = [w.notifiers[n] EXCEPT !.open = FALSE]
    OBVIOUS
  <1>3. /\ k \in Sipnot /\ k.refs = w.notifiers[n].refs /\ k.arg = w.notifiers[n].arg
        /\ k.open = FALSE
    BY <1>1, <1>2 DEF Sipnot
  <1>4. x = [call |-> w.call, calls |-> w.calls,
             notifiers |-> [w.notifiers EXCEPT ![n] = k]]
    <2>1. Shut(w, n) = [w EXCEPT !.notifiers[n] = k]
      BY <1>2, Zenon DEF Shut
    <2> QED BY <1>1, <2>1
  <1> HIDE DEF x
  <1>5. /\ x.call = w.call /\ x.calls = w.calls
        /\ x.notifiers = [w.notifiers EXCEPT ![n] = k]
    BY <1>4
  <1>6. /\ x.notifiers \in [Sipnots -> Sipnot]
        /\ \A m \in Sipnots : /\ x.notifiers[m].refs = w.notifiers[m].refs
                              /\ x.notifiers[m].arg = w.notifiers[m].arg
                              /\ x.notifiers[m].open => w.notifiers[m].open
        /\ x.notifiers[n].open = FALSE
    BY <1>1, <1>3, <1>5
  <1>7. Value(x)
    BY <1>1, <1>4, <1>5, <1>6 DEF Value
  <1>8. \A m \in Sipnots : Held(x, m) = Held(w, m)
    BY <1>5 DEF Held
  <1>9. Balanced(x)
    BY <1>6, <1>8 DEF OK, Balanced
  <1> QED BY <1>5, <1>6, <1>7, <1>9 DEF OK, Others, x

LEMMA DropLemma ==
  ASSUME NEW c \in Calls, NEW u, NEW w, OK(w, c, u), NEW x, x = DropNot(w, c)
  PROVE  /\ OK(x, c, u) /\ x.call[c] = [w.call[c] EXCEPT !.not = None]
         /\ Unchanged(x, w, c)
  <1>1. /\ w = [call |-> w.call, calls |-> w.calls, notifiers |-> w.notifiers]
        /\ w.call \in [Calls -> CallRecord]
        /\ w.notifiers \in [Sipnots -> Sipnot]
    BY DEF OK, Value
  <1>2. PICK r : r = [w.call[c] EXCEPT !.not = None]
    OBVIOUS
  <1>3. r \in CallRecord /\ r.not = None
    BY <1>1, <1>2 DEF CallRecord
  <1>4. CASE w.call[c].not = None
    <2>1. x = [w EXCEPT !.call[c].not = None]
      BY <1>4 DEF DropNot, mem_deref_not
    <2>2. x = Set(w, c, r)
      BY <1>2, <2>1, Zenon DEF Set
    <2>3. r.not = w.call[c].not
      BY <1>3, <1>4
    <2>4. OK(Set(w, c, r), c, u) /\ Set(w, c, r).call[c] = r
      BY <1>3, <2>3, SetLemma
    <2>5. Unchanged(x, w, c)
      BY <1>1, <2>2 DEF Unchanged, Set
    <2> QED BY <1>2, <2>2, <2>4, <2>5
  <1>5. CASE w.call[c].not # None
    <2>1. PICK n \in Sipnots : n = w.call[c].not
      BY <1>1, <1>5 DEF CallRecord
    <2>2. PICK k : k = [w.notifiers[n] EXCEPT !.refs = @ - 1,
                                             !.open = @ /\ w.notifiers[n].refs > 1]
      OBVIOUS
    <2>3. PICK o \in BOOLEAN : o = (w.notifiers[n].open /\ w.notifiers[n].refs > 1)
      OBVIOUS
    <2>4. k = [refs |-> w.notifiers[n].refs - 1, arg |-> w.notifiers[n].arg, open |-> o]
      BY <1>1, <2>2, <2>3 DEF Sipnot
    <2>5. mem_deref_not(w, n) = [w EXCEPT !.notifiers[n] = k]
      BY <1>5, <2>1, <2>2, Zenon DEF mem_deref_not
    <2>6. x = [[w EXCEPT !.notifiers[n] = k] EXCEPT !.call[c] = r]
      BY <1>1, <1>2, <2>1, <2>5 DEF DropNot
    <2>7. x = Both(w, c, r, n, k, w.calls)
      BY <1>1, <2>6 DEF Both
    <2>8. w.call[c].not = n /\ (o => w.notifiers[n].refs > 1)
      BY <2>1, <2>3
    <2>9. /\ OK(Both(w, c, r, n, k, w.calls), c, u)
          /\ Both(w, c, r, n, k, w.calls).call[c] = r
          /\ Unchanged(Both(w, c, r, n, k, w.calls), w, c)
      BY <1>3, <2>4, <2>8, GiveBackLemma
    <2> QED BY <1>2, <2>7, <2>9
  <1> QED BY <1>4, <1>5

LEMMA NotifyLemma ==
  ASSUME NEW c \in Calls, NEW u, NEW w, OK(w, c, u), NEW x, x = call_notify_sipfrag(w, c)
  PROVE  OK(x, c, u) /\ x.call[c] = [w.call[c] EXCEPT !.not = None]
  <1>1. w.call \in [Calls -> CallRecord]
    BY DEF OK, Value
  <1>2. CASE w.call[c].not = None
    <2>1. x = w
      BY <1>2 DEF call_notify_sipfrag
    <2>2. w.call[c] = [w.call[c] EXCEPT !.not = None]
      BY <1>1, <1>2 DEF CallRecord
    <2> QED BY <2>1, <2>2
  <1>3. CASE w.call[c].not # None
    <2>1. PICK n \in Sipnots : n = w.call[c].not
      BY <1>1, <1>3 DEF CallRecord
    <2>2. PICK v : v = Shut(w, n)
      OBVIOUS
    <2>3. x = DropNot(v, c)
      BY <1>3, <2>1, <2>2 DEF call_notify_sipfrag, Shut
    <2>4. OK(v, c, u) /\ v.call = w.call
      BY <2>2, ShutLemma
    <2> QED BY <2>3, <2>4, DropLemma
  <1> QED BY <1>2, <1>3

-----------------------------------------------------------------------------
(* The end of a call.                                                       *)

LEMMA FreedLemma ==
  ASSUME NEW r \in CallRecord, NEW x, x = Freed(r)
  PROVE  /\ x \in CallRecord /\ x.life = "freed" /\ x.not = None /\ ~x.tmr_inv
         /\ x.hungup = r.hungup /\ x.closed = r.closed
  BY DEF Freed, CallRecord, Phases

LEMMA ClosedLemma ==
  ASSUME NEW c \in Calls, NEW u, NEW w, OK(w, c, u),
         u.alive /\ ~w.call[c].hungup => w.call[c].closed = 0,
         NEW x, x = Closed(w, c)
  PROVE  OK(x, c, u) /\ Sound(x.call[c], u)
  <1>1. /\ w = [call |-> w.call, calls |-> w.calls, notifiers |-> w.notifiers]
        /\ w.call \in [Calls -> CallRecord]
        /\ w.notifiers \in [Sipnots -> Sipnot]
    BY DEF OK, Value
  <1>2. PICK k \in Nat : k = w.call[c].closed + 1
    BY <1>1 DEF CallRecord
  <1>3. PICK r : r = [w.call[c] EXCEPT !.closed = k]
    OBVIOUS
  <1>4. /\ r \in CallRecord /\ r.not = w.call[c].not /\ r.hungup = w.call[c].hungup
        /\ r.closed = k
    BY <1>1, <1>3 DEF CallRecord
  <1>5. PICK v : v = Set(w, c, r)
    OBVIOUS
  <1>6. OK(v, c, u) /\ v.call[c] = r /\ v.notifiers = w.notifiers
    BY <1>4, <1>5, SetLemma
  <1>7. v = [w EXCEPT !.call[c].closed = @ + 1]
    BY <1>2, <1>3, <1>5, Zenon DEF Set
  <1>8. x = call_destructor(v, c)
    BY <1>7 DEF Closed
  <1>9. PICK f : f = Freed(r)
    OBVIOUS
  <1>10. /\ f \in CallRecord /\ f.life = "freed" /\ f.not = None /\ ~f.tmr_inv
         /\ f.hungup = r.hungup /\ f.closed = r.closed
    BY <1>4, <1>9, FreedLemma
  <1>11. Sound(f, u)
    BY <1>2, <1>4, <1>10 DEF Sound
  <1>12. PICK q : q = SelectSeq(v.calls, LAMBDA d : d # c)
    OBVIOUS
  <1>13. /\ v = [call |-> v.call, calls |-> v.calls, notifiers |-> v.notifiers]
         /\ v.call \in [Calls -> CallRecord]
         /\ v.notifiers \in [Sipnots -> Sipnot]
    BY <1>6 DEF OK, Value
  <1>14. PICK z : z = [v EXCEPT !.calls = q, !.call[c] = f]
    OBVIOUS
  <1>15. x = mem_deref_not(z, r.not)
    BY <1>6, <1>8, <1>9, <1>12, <1>14 DEF call_destructor
  <1>16. z = [call |-> [v.call EXCEPT ![c] = f], calls |-> q, notifiers |-> v.notifiers]
    BY <1>13, <1>14
  <1>17. CASE r.not = None
    <2>1. x = z
      BY <1>15, <1>17 DEF mem_deref_not
    <2>2. PICK y : y = Set(v, c, f)
      OBVIOUS
    <2>3. OK(y, c, u) /\ y.call[c] = f /\ y.notifiers = v.notifiers
      BY <1>6, <1>10, <1>17, <2>2, SetLemma
    <2>4. y.call = x.call /\ y.notifiers = x.notifiers
      BY <1>13, <1>16, <2>1, <2>2 DEF Set
    <2>5. OK(x, c, u)
      BY <1>16, <2>1, <2>3, <2>4, SameLemma
    <2> QED BY <1>11, <2>3, <2>4, <2>5
  <1>18. CASE r.not # None
    <2>1. PICK n \in Sipnots : n = r.not
      BY <1>4, <1>18 DEF CallRecord
    <2>2. PICK m : m = [z.notifiers[n] EXCEPT !.refs = @ - 1,
                                             !.open = @ /\ z.notifiers[n].refs > 1]
      OBVIOUS
    <2>3. PICK o \in BOOLEAN : o = (v.notifiers[n].open /\ v.notifiers[n].refs > 1)
      OBVIOUS
    <2>4. m = [refs |-> v.notifiers[n].refs - 1, arg |-> v.notifiers[n].arg, open |-> o]
      BY <1>13, <1>16, <2>2, <2>3 DEF Sipnot
    <2>5. mem_deref_not(z, n) = [z EXCEPT !.notifiers[n] = m]
      BY <1>18, <2>1, <2>2, Zenon DEF mem_deref_not
    <2>6. x = [z EXCEPT !.notifiers[n] = m]
      BY <1>15, <2>1, <2>5
    <2>7. x = Both(v, c, f, n, m, q)
      BY <1>16, <2>6 DEF Both
    <2>8. v.call[c].not = n /\ (o => v.notifiers[n].refs > 1)
      BY <1>4, <1>6, <2>1, <2>3
    <2>9. OK(Both(v, c, f, n, m, q), c, u) /\ Both(v, c, f, n, m, q).call[c] = f
      BY <1>6, <1>10, <2>4, <2>8, GiveBackLemma
    <2> QED BY <1>11, <2>7, <2>9
  <1> QED BY <1>17, <1>18

-----------------------------------------------------------------------------
(* Streams, answers and the INCOMING event.                                 *)

Good(w, c, u) == OK(w, c, u) /\ Sound(w.call[c], u)

Stopped(r) == [r EXCEPT !.media = FALSE, !.tmr_inv = FALSE]

LEMMA StopLemma ==
  ASSUME NEW c \in Calls, NEW u, NEW w, OK(w, c, u)
  PROVE  /\ OK(call_stream_stop(w, c), c, u)
         /\ call_stream_stop(w, c).call[c] = Stopped(w.call[c])
  <1>1. /\ w = [call |-> w.call, calls |-> w.calls, notifiers |-> w.notifiers]
        /\ w.call \in [Calls -> CallRecord]
    BY DEF OK, Value
  <1>2. PICK r : r = [w.call[c] EXCEPT !.media = FALSE, !.tmr_inv = FALSE]
    OBVIOUS
  <1>3. r \in CallRecord /\ r.not = w.call[c].not
    <2>1. r \in CallRecord
      BY <1>1, <1>2, Zenon DEF CallRecord
    <2> QED BY <1>1, <1>2, <2>1 DEF CallRecord
  <1>4. call_stream_stop(w, c) = Set(w, c, r)
    BY <1>1, <1>2 DEF call_stream_stop, Set
  <1>5. OK(Set(w, c, r), c, u) /\ Set(w, c, r).call[c] = r
    BY <1>3, SetLemma
  <1> QED BY <1>2, <1>4, <1>5 DEF Stopped

(* Early media leaves the timer alone.                                      *)
StartEarly(w, c) == call_stream_start(w, c, FALSE)

LEMMA StartEarlyLemma ==
  ASSUME NEW c \in Calls, NEW u, NEW w, OK(w, c, u), NEW x, x = StartEarly(w, c)
  PROVE  OK(x, c, u) /\ x.call[c] = [w.call[c] EXCEPT !.media = TRUE]
  <1>1. /\ w = [call |-> w.call, calls |-> w.calls, notifiers |-> w.notifiers]
        /\ w.call \in [Calls -> CallRecord]
    BY DEF OK, Value
  <1>2. PICK t : t = w.call[c].tmr_inv
    OBVIOUS
  <1>3. t \in BOOLEAN /\ t = (t /\ ~FALSE)
    BY <1>1, <1>2 DEF CallRecord
  <1>4. PICK r : r = [w.call[c] EXCEPT !.media = TRUE, !.tmr_inv = t]
    OBVIOUS
  <1>5. r \in CallRecord /\ r.not = w.call[c].not
    <2>1. r \in CallRecord
      BY <1>1, <1>3, <1>4, Zenon DEF CallRecord
    <2> QED BY <1>1, <1>4, <2>1 DEF CallRecord
  <1>6. r = [w.call[c] EXCEPT !.media = TRUE]
    BY <1>1, <1>2, <1>4 DEF CallRecord
  <1>7. x = [w EXCEPT !.call[c].media = TRUE, !.call[c].tmr_inv = t]
    BY <1>1, <1>2, <1>3 DEF StartEarly, call_stream_start
  <1>8. x = Set(w, c, r)
    BY <1>1, <1>4, <1>7 DEF Set
  <1>9. OK(Set(w, c, r), c, u) /\ Set(w, c, r).call[c] = r
    BY <1>5, SetLemma
  <1> QED BY <1>6, <1>8, <1>9

Start(w, c) == call_stream_start(w, c, TRUE)

Started(r) == [r EXCEPT !.media = TRUE, !.tmr_inv = FALSE]

LEMMA StartLemma ==
  ASSUME NEW c \in Calls, NEW u, NEW w, OK(w, c, u)
  PROVE  OK(Start(w, c), c, u) /\ Start(w, c).call[c] = Started(w.call[c])
  <1>1. /\ w = [call |-> w.call, calls |-> w.calls, notifiers |-> w.notifiers]
        /\ w.call \in [Calls -> CallRecord]
    BY DEF OK, Value
  <1>2. PICK r : r = [w.call[c] EXCEPT !.media = TRUE, !.tmr_inv = FALSE]
    OBVIOUS
  <1>3. r \in CallRecord /\ r.not = w.call[c].not
    <2>1. r \in CallRecord
      BY <1>1, <1>2, Zenon DEF CallRecord
    <2> QED BY <1>1, <1>2, <2>1 DEF CallRecord
  <1>4. Start(w, c) = Set(w, c, r)
    BY <1>1, <1>2 DEF Start, call_stream_start, Set
  <1>5. OK(Set(w, c, r), c, u) /\ Set(w, c, r).call[c] = r
    BY <1>3, SetLemma
  <1> QED BY <1>2, <1>4, <1>5 DEF Started

LEMMA AnsweredLemma ==
  ASSUME NEW c \in Calls, NEW u, NEW w, Good(w, c, u), w.call[c].life = "live",
         w.call[c].state = "INCOMING",
         NEW ok \in BOOLEAN, NEW x, x = Answered(w, c, ok)
  PROVE  Good(x, c, u)
  <1>1. w.call[c] \in CallRecord /\ OK(w, c, u) /\ Sound(w.call[c], u)
    BY DEF Good, OK, Value
  <1>2. CASE w.call[c].sess # "offered"
    BY <1>2 DEF Answered
  <1>3. CASE w.call[c].sess = "offered"
    <2>1. PICK s \in {"answered", "rejected"} : s = IF ok THEN "answered" ELSE "rejected"
      OBVIOUS
    <2>2. PICK r : r = [w.call[c] EXCEPT !.sess = s]
      OBVIOUS
    <2>3. /\ r \in CallRecord /\ r.not = w.call[c].not /\ r.sess = s
          /\ r.life = "live" /\ r.state = "INCOMING" /\ r.tmr_inv = w.call[c].tmr_inv
          /\ r.hungup = w.call[c].hungup /\ r.closed = w.call[c].closed
      BY <1>1, <2>2 DEF CallRecord, Phases
    <2>4. Sound(r, u)
      BY <1>1, <2>3 DEF Sound, UnderWay
    <2>5. x = Set(w, c, r)
      BY <1>3, <2>1, <2>2, Zenon DEF Answered, Set
    <2>6. OK(Set(w, c, r), c, u) /\ Set(w, c, r).call[c] = r
      BY <1>1, <2>3, SetLemma
    <2> QED BY <2>4, <2>5, <2>6 DEF Good
  <1> QED BY <1>2, <1>3

LEMMA ProgressLemma ==
  ASSUME NEW c \in Calls, NEW u, NEW w, Good(w, c, u), w.call[c].life = "live",
         w.call[c].state = "INCOMING", u.answermode = "early",
         NEW ok \in BOOLEAN, NEW x, x = call_progress(w, c, ok)
  PROVE  Good(x, c, u)
  <1>1. w.call[c] \in CallRecord /\ OK(w, c, u) /\ Sound(w.call[c], u)
    BY DEF Good, OK, Value
  <1>2. PICK r : r = [w.call[c] EXCEPT !.tmr_inv = FALSE]
    OBVIOUS
  <1>3. /\ r \in CallRecord /\ r.not = w.call[c].not /\ r.sess = w.call[c].sess
        /\ r.life = "live" /\ r.state = "INCOMING" /\ r.tmr_inv = FALSE
        /\ r.hungup = w.call[c].hungup /\ r.closed = w.call[c].closed
    BY <1>1, <1>2 DEF CallRecord
  <1>4. PICK v : v = Set(w, c, r)
    OBVIOUS
  <1>5. OK(v, c, u) /\ v.call[c] = r
    BY <1>1, <1>3, <1>4, SetLemma
  <1>6. v = [w EXCEPT !.call[c].tmr_inv = FALSE]
    BY <1>2, <1>4, Zenon DEF Set
  <1>7. Sound(r, u)
    BY <1>1, <1>3 DEF Sound, UnderWay
  <1>8. CASE w.call[c].sess # "offered"
    <2>1. x = v
      BY <1>6, <1>8 DEF call_progress
    <2> QED BY <1>5, <1>7, <2>1 DEF Good
  <1>9. CASE w.call[c].sess = "offered" /\ ok
    <2>1. x = StartEarly(v, c)
      BY <1>6, <1>9 DEF call_progress, StartEarly
    <2>2. OK(x, c, u) /\ x.call[c] = [r EXCEPT !.media = TRUE]
      BY <1>5, <2>1, StartEarlyLemma
    <2>3. PICK s : s = x.call[c]
      OBVIOUS
    <2>4. /\ s \in CallRecord /\ s.sess = r.sess
          /\ s.life = "live" /\ s.state = "INCOMING" /\ s.tmr_inv = FALSE
          /\ s.hungup = r.hungup /\ s.closed = r.closed
      <3>1. s \in CallRecord
        BY <2>2, <2>3 DEF OK, Value
      <3> QED BY <1>3, <2>2, <2>3, <3>1 DEF CallRecord
    <2>5. Sound(s, u)
      BY <1>3, <1>7, <2>4 DEF Sound, UnderWay
    <2> QED BY <2>2, <2>3, <2>5 DEF Good
  <1>10. CASE w.call[c].sess = "offered" /\ ~ok
    <2>1. x = [v EXCEPT !.call[c].sess = "rejected"]
      BY <1>6, <1>10 DEF call_progress
    <2>2. PICK s : s = [r EXCEPT !.sess = "rejected"]
      OBVIOUS
    <2>3. x = Set(v, c, s)
      BY <1>5, <2>1, <2>2, Zenon DEF Set
    <2>4. /\ s \in CallRecord /\ s.sess = "rejected" /\ s.not = r.not
          /\ s.life = "live" /\ s.state = "INCOMING" /\ s.tmr_inv = FALSE
          /\ s.hungup = r.hungup /\ s.closed = r.closed
      BY <1>3, <2>2 DEF CallRecord, Phases
    <2>5. Sound(s, u)
      BY <1>3, <1>7, <2>4 DEF Sound, UnderWay
    <2>6. OK(Set(v, c, s), c, u) /\ Set(v, c, s).call[c] = s
      BY <1>5, <2>4, SetLemma
    <2> QED BY <2>3, <2>5, <2>6 DEF Good
  <1> QED BY <1>8, <1>9, <1>10

LEMMA IncomingLemma ==
  ASSUME NEW c \in Calls, NEW w, Good(w, c, ua), w.call[c].life = "live",
         w.call[c].state = "INCOMING",
         ua.answermode \in {"manual", "early", "auto"},
         NEW blocked \in BOOLEAN, NEW ok \in BOOLEAN,
         NEW x, x = Incoming(w, c, blocked, ok)
  PROVE  Good(x, c, ua)
  <1>1. OK(w, c, ua) /\ Sound(w.call[c], ua)
    BY DEF Good
  <1>2. CASE blocked
    <2>1. x = Closed(w, c)
      BY <1>2 DEF Incoming
    <2>2. ua.alive /\ ~w.call[c].hungup => w.call[c].closed = 0
      BY <1>1 DEF Sound
    <2> QED BY <1>1, <2>1, <2>2, ClosedLemma DEF Good
  <1>3. CASE ~blocked /\ ua.answermode = "early"
    <2>1. x = call_progress(w, c, ok)
      BY <1>3 DEF Incoming
    <2> QED BY <1>3, <2>1, ProgressLemma
  <1>4. CASE ~blocked /\ ua.answermode = "auto"
    <2>1. x = Answered(w, c, ok)
      BY <1>4 DEF Incoming
    <2> QED BY <2>1, AnsweredLemma
  <1>5. CASE ~blocked /\ ua.answermode = "manual"
    <2>1. x = w
      BY <1>5 DEF Incoming
    <2> QED BY <2>1
  <1> QED BY <1>2, <1>3, <1>4, <1>5

-----------------------------------------------------------------------------
(* Allocation.                                                              *)

Allocated(r, u) ==
  /\ r.life = "live" /\ r.state = "IDLE" /\ r.sess = "idle" /\ r.tmr_inv = FALSE
  /\ r.mnat = IF u.mnat THEN "gather" ELSE "none"
  /\ r.hungup = FALSE /\ r.closed = 0

(* What an inherited notifier must be.                                      *)
Inheritable(w, n) ==
  \/ n = None
  \/ n \in Sipnots /\ w.notifiers[n].arg # None

LEMMA AllocLemma ==
  ASSUME NEW c \in Calls, NEW w, OK(w, c, ua), w.call[c].not = None,
         NEW n, Inheritable(w, n)
  PROVE  /\ OK(call_alloc(w, c, n), c, ua)
         /\ Allocated(call_alloc(w, c, n).call[c], ua)
  <1>0. PICK x : x = call_alloc(w, c, n)
    OBVIOUS
  <1>1. /\ w = [call |-> w.call, calls |-> w.calls, notifiers |-> w.notifiers]
        /\ w.call \in [Calls -> CallRecord]
        /\ w.notifiers \in [Sipnots -> Sipnot]
    BY DEF OK, Value
  <1>2. PICK m \in {"gather", "none"} : m = IF ua.mnat THEN "gather" ELSE "none"
    OBVIOUS
  <1>3. PICK r : r = [NoCall EXCEPT !.life = "live", !.not = n, !.mnat = m]
    OBVIOUS
  <1>4. /\ r.life = "live" /\ r.state = "IDLE" /\ r.sess = "idle" /\ r.tmr_inv = FALSE
        /\ r.mnat = m /\ r.hungup = FALSE /\ r.closed = 0 /\ r.not = n
    BY <1>3 DEF NoCall
  <1>5. r \in CallRecord
    <2>0. n \in Sipnots \cup {None}
      BY DEF Inheritable
    <2>1. NoCall \in [life : {"none", "live", "freed"}, state : States, sess : Phases,
                      tmr_inv : BOOLEAN, mnat : {"none", "gather", "done", "lost"},
                      media : BOOLEAN, rtp : BOOLEAN, not : Sipnots \cup {None},
                      hungup : BOOLEAN, closed : Nat]
      BY DEF NoCall, States, Phases
    <2> QED BY <1>3, <2>0, <2>1, Zenon DEF CallRecord
  <1>6. PICK q : q = Append(w.calls, c)
    OBVIOUS
  <1>7. PICK v : v = [call |-> [w.call EXCEPT ![c] = r], calls |-> q,
                      notifiers |-> w.notifiers]
    OBVIOUS
  <1>8. [w EXCEPT !.calls = Append(@, c),
                  !.call[c] = [NoCall EXCEPT !.life = "live", !.not = n,
                                 !.mnat = IF ua.mnat THEN "gather" ELSE "none"]] = v
    <2>1. PICK z : z = [w EXCEPT !.calls = q, !.call[c] = r]
      OBVIOUS
    <2>2. z = [call |-> [w.call EXCEPT ![c] = r], calls |-> q, notifiers |-> w.notifiers]
      BY <1>1, <2>1
    <2>3. z = v
      BY <1>7, <2>2
    <2> QED BY <1>2, <1>3, <1>6, <2>1, <2>3, Zenon
  <1>9. x = IF n = None THEN v ELSE [v EXCEPT !.notifiers[n].refs = @ + 1]
    BY <1>0, <1>8, Zenon DEF call_alloc
  <1>10. CASE n = None
    <2>1. PICK y : y = Set(w, c, r)
      OBVIOUS
    <2>2. OK(y, c, ua) /\ y.call[c] = r /\ y.notifiers = w.notifiers
      BY <1>4, <1>5, <1>10, <2>1, SetLemma
    <2>3. x = [call |-> x.call, calls |-> x.calls, notifiers |-> x.notifiers]
          /\ y.call = x.call /\ y.notifiers = x.notifiers
      BY <1>1, <1>7, <1>9, <1>10, <2>1 DEF Set
    <2>4. OK(x, c, ua)
      BY <2>2, <2>3, SameLemma
    <2> QED BY <1>0, <1>2, <1>4, <2>2, <2>3, <2>4 DEF Allocated
  <1>11. CASE n # None
    <2>1. n \in Sipnots /\ w.notifiers[n].arg # None
      BY <1>11 DEF Inheritable
    <2>2. PICK k : k = [w.notifiers[n] EXCEPT !.refs = @ + 1]
      OBVIOUS
    <2>3. k \in Sipnot /\ k.refs = w.notifiers[n].refs + 1 /\ k.arg # None
      BY <1>1, <1>11, <2>1, <2>2 DEF Sipnot
    <2>4. x = [v EXCEPT !.notifiers[n].refs = @ + 1]
      BY <1>9, <1>11
    <2>5. v.notifiers = w.notifiers
      BY <1>7
    <2>6. x = [v EXCEPT !.notifiers[n] = k]
      BY <2>2, <2>4, <2>5, Zenon
    <2>7. x = Both(w, c, r, n, k, q)
      BY <1>7, <2>6 DEF Both
    <2>8. OK(Both(w, c, r, n, k, q), c, ua) /\ Both(w, c, r, n, k, q).call[c] = r
      BY <1>4, <1>5, <2>1, <2>3, TakeLemma
    <2> QED BY <1>0, <1>2, <1>4, <2>7, <2>8 DEF Allocated
  <1> QED BY <1>10, <1>11

LEMMA ConnectLemma ==
  ASSUME NEW c \in Calls, NEW w, OK(w, c, ua),
         Allocated(w.call[c], ua),
         NEW x, x = call_connect(w, c)
  PROVE  Good(x, c, ua)
  <1>1. /\ w = [call |-> w.call, calls |-> w.calls, notifiers |-> w.notifiers]
        /\ w.call \in [Calls -> CallRecord]
    BY DEF OK, Value
  <1>2. PICK s \in {"idle", "calling"} : s = IF ua.mnat THEN "idle" ELSE "calling"
    OBVIOUS
  <1>3. PICK r : r = [w.call[c] EXCEPT !.state = "OUTGOING", !.sess = s]
    OBVIOUS
  <1>4. /\ r \in CallRecord /\ r.not = w.call[c].not /\ r.life = "live" /\ r.closed = 0
        /\ r.state = "OUTGOING" /\ r.sess = s /\ r.tmr_inv = FALSE
        /\ r.mnat = w.call[c].mnat
    BY <1>1, <1>3 DEF CallRecord, States, Phases, Allocated
  <1>5. Sound(r, ua)
    BY <1>2, <1>4 DEF Allocated, Sound, UnderWay
  <1>6. x = Set(w, c, r)
    BY <1>1, <1>2, <1>3 DEF call_connect, Set
  <1>7. OK(Set(w, c, r), c, ua) /\ Set(w, c, r).call[c] = r
    BY <1>4, SetLemma
  <1> QED BY <1>5, <1>6, <1>7 DEF Good

-----------------------------------------------------------------------------
(* From a step to its operators and back.                                   *)

LEMMA BeginLemma ==
  ASSUME NEW c \in Calls, IInv
  PROVE  /\ Good(W, c, ua)
         /\ W = [call |-> W.call, calls |-> W.calls, notifiers |-> W.notifiers]
         /\ W.call = call /\ W.notifiers = notifiers
         /\ call \in [Calls -> CallRecord] /\ call[c] \in CallRecord
         /\ notifiers \in [Sipnots -> Sipnot]
  <1>1. W.call = call /\ W.notifiers = notifiers /\ W.calls = calls
    BY DEF W
  <1> QED BY <1>1 DEF IInv, Good, OK, Others, Value

LEMMA EndLemma ==
  ASSUME NEW c \in Calls, IInv, NEW x, Good(x, c, ua), Becomes(x)
  PROVE  IInv'
  <1>1. /\ W' = [call |-> x.call, calls |-> x.calls, notifiers |-> x.notifiers]
        /\ call' = x.call /\ notifiers' = x.notifiers
        /\ W'.call = x.call /\ W'.notifiers = x.notifiers /\ W'.calls = x.calls
    BY DEF Becomes, W
  <1>2. x = [call |-> x.call, calls |-> x.calls, notifiers |-> x.notifiers]
        /\ Value(x) /\ Balanced(x)
    BY DEF Good, OK, Value
  <1>3. W' = x
    BY <1>1, <1>2
  <1>4. Value(W)' /\ Balanced(W)'
    BY <1>2, <1>3 DEF Value, Balanced, Held
  <1>5. \A d \in Calls : Sound(call'[d], ua)
    BY <1>1 DEF Good, OK, Others
  <1>6. \A d \in Calls : Sound(call[d], ua)'
    BY <1>5 DEF Becomes, Sound, UnderWay
  <1>7. ua' = ua /\ corrupt' = corrupt
    BY DEF Becomes
  <1> QED BY <1>4, <1>6, <1>7 DEF IInv

-----------------------------------------------------------------------------
(* Placing and receiving calls.                                             *)

LEMMA UnusedLemma ==
  ASSUME NEW c \in Calls, IInv, Unused(c)
  PROVE  W.call[c].not = None /\ ua.mnat \in BOOLEAN
  <1>1. W.call[c].life = "none" /\ Sound(W.call[c], ua)
    BY BeginLemma DEF Unused, Good
  <1> QED BY <1>1 DEF Sound, IInv

LEMMA ConnectStep ==
  ASSUME NEW c \in Calls, IInv, ua_connect(c)
  PROVE  IInv'
  <1>1. W.call[c].not = None /\ OK(W, c, ua)
    BY BeginLemma, UnusedLemma DEF ua_connect, Good
  <1>2. PICK v : v = call_alloc(W, c, None)
    OBVIOUS
  <1>3. OK(v, c, ua) /\ Allocated(v.call[c], ua)
    <2>1. Inheritable(W, None)
      BY DEF Inheritable
    <2> QED BY <1>1, <1>2, <2>1, AllocLemma
  <1>4. PICK x : x = call_connect(v, c)
    OBVIOUS
  <1>5. Good(x, c, ua)
    BY <1>3, <1>4, ConnectLemma
  <1>6. Becomes(x)
    BY <1>2, <1>4 DEF ua_connect
  <1> QED BY <1>5, <1>6, EndLemma

LEMMA AcceptedLemma ==
  ASSUME NEW c \in Calls, NEW w, OK(w, c, ua), Allocated(w.call[c], ua),
         NEW x, x = Accepted(w, c)
  PROVE  Good(x, c, ua) /\ x.call[c].life = "live" /\ x.call[c].state = "INCOMING"
  <1>1. /\ w = [call |-> w.call, calls |-> w.calls, notifiers |-> w.notifiers]
        /\ w.call \in [Calls -> CallRecord]
    BY DEF OK, Value
  <1>2. PICK r : r = [w.call[c] EXCEPT !.sess = "offered", !.state = "INCOMING",
                                       !.tmr_inv = TRUE]
    OBVIOUS
  <1>3. r \in CallRecord
    <2>1. "offered" \in Phases /\ "INCOMING" \in States
      BY DEF Phases, States
    <2> QED BY <1>1, <1>2, <2>1, Zenon DEF CallRecord
  <1>4. /\ r.not = w.call[c].not /\ r.life = "live" /\ r.closed = 0
        /\ r.state = "INCOMING" /\ r.sess = "offered" /\ r.tmr_inv = TRUE
    BY <1>1, <1>2 DEF CallRecord, Allocated
  <1>5. Sound(r, ua)
    BY <1>3, <1>4 DEF Sound, UnderWay
  <1>6. x = Set(w, c, r)
    BY <1>1, <1>2 DEF Accepted, Set
  <1>7. OK(Set(w, c, r), c, ua) /\ Set(w, c, r).call[c] = r
    BY <1>3, <1>4, SetLemma
  <1> QED BY <1>4, <1>5, <1>6, <1>7 DEF Good

LEMMA IncomingStep ==
  ASSUME NEW c \in Calls, IInv, sipsess_conn_handler(c)
  PROVE  IInv'
  <1>1. PICK usable \in BOOLEAN, blocked \in BOOLEAN, ok \in BOOLEAN :
          LET w == call_alloc(W, c, None)
          IN Becomes(IF ~usable THEN Closed(w, c)
                     ELSE IF ua.mnat THEN Accepted(w, c)
                     ELSE Incoming(Accepted(w, c), c, blocked, ok))
    BY DEF sipsess_conn_handler
  <1>2. W.call[c].not = None /\ OK(W, c, ua)
    BY BeginLemma, UnusedLemma DEF sipsess_conn_handler, Good
  <1>3. PICK w : w = call_alloc(W, c, None)
    OBVIOUS
  <1>4. OK(w, c, ua) /\ Allocated(w.call[c], ua)
    <2>1. Inheritable(W, None)
      BY DEF Inheritable
    <2> QED BY <1>2, <1>3, <2>1, AllocLemma
  <1>5. PICK v : v = Accepted(w, c)
    OBVIOUS
  <1>6. Good(v, c, ua) /\ v.call[c].life = "live" /\ v.call[c].state = "INCOMING"
    BY <1>4, <1>5, AcceptedLemma
  <1>7. CASE ~usable
    <2>1. PICK x : x = Closed(w, c)
      OBVIOUS
    <2>2. Good(x, c, ua)
      <3>1. w.call[c].closed = 0
        BY <1>4 DEF Allocated
      <3> QED BY <1>4, <2>1, <3>1, ClosedLemma DEF Good
    <2>3. Becomes(x)
      BY <1>1, <1>3, <1>7, <2>1
    <2> QED BY <2>2, <2>3, EndLemma
  <1>8. CASE usable /\ ua.mnat
    <2>1. Becomes(v)
      BY <1>1, <1>3, <1>5, <1>8
    <2> QED BY <1>6, <2>1, EndLemma
  <1>9. CASE usable /\ ~ua.mnat
    <2>1. PICK x : x = Incoming(v, c, blocked, ok)
      OBVIOUS
    <2>2. ua.answermode \in {"manual", "early", "auto"}
      BY DEF IInv
    <2>3. Good(x, c, ua)
      BY <1>6, <2>1, <2>2, IncomingLemma
    <2>4. Becomes(x)
      BY <1>1, <1>3, <1>5, <1>9, <2>1
    <2> QED BY <2>3, <2>4, EndLemma
  <1> QED BY <1>7, <1>8, <1>9

LEMMA MnatStep ==
  ASSUME NEW c \in Calls, IInv, mnat_handler(c)
  PROVE  IInv'
  <1>1. /\ Good(W, c, ua) /\ W.call = call /\ call[c] \in CallRecord
        /\ Sound(call[c], ua) /\ OK(W, c, ua)
        /\ call[c].life = "live" /\ call[c].mnat = "gather"
    BY BeginLemma DEF mnat_handler, Live, Good
  <1>2. PICK blocked \in BOOLEAN, ok \in BOOLEAN :
          LET w == [W EXCEPT !.call[c].mnat = "done"]
          IN CASE call[c].state = "OUTGOING" ->
                    IF ok THEN Becomes([w EXCEPT !.call[c].sess = "calling"])
                    ELSE Becomes([w EXCEPT !.call[c].mnat = "lost"])
               [] call[c].state = "INCOMING" -> Becomes(Incoming(w, c, blocked, ok))
               [] OTHER -> Becomes(w)
    BY DEF mnat_handler
  <1>3. PICK r : r = [call[c] EXCEPT !.mnat = "done"]
    OBVIOUS
  <1>4. /\ r \in CallRecord /\ r.mnat = "done" /\ r.not = call[c].not
        /\ r.life = "live" /\ r.state = call[c].state /\ r.sess = call[c].sess
        /\ r.tmr_inv = call[c].tmr_inv /\ r.hungup = call[c].hungup
        /\ r.closed = call[c].closed
    BY <1>1, <1>3 DEF CallRecord
  <1>5. PICK w : w = Set(W, c, r)
    OBVIOUS
  <1>6. OK(w, c, ua) /\ w.call[c] = r
    BY <1>1, <1>4, <1>5, SetLemma
  <1>7. w = [W EXCEPT !.call[c].mnat = "done"]
    BY <1>1, <1>3, <1>5, Zenon DEF Set
  <1>8. CASE call[c].state = "OUTGOING"
    <2>1. PICK z \in {"lost", "done"}, s \in Phases :
            /\ s = IF ok THEN "calling" ELSE call[c].sess
            /\ z = IF ok THEN "done" ELSE "lost"
      BY <1>1 DEF CallRecord, Phases
    <2>2. PICK q : q = [r EXCEPT !.sess = s, !.mnat = z]
      OBVIOUS
    <2>3. /\ q \in CallRecord /\ q.mnat = z /\ q.sess = s /\ q.not = r.not
          /\ q.life = "live" /\ q.state = "OUTGOING"
          /\ q.tmr_inv = r.tmr_inv /\ q.hungup = r.hungup /\ q.closed = r.closed
      BY <1>4, <1>8, <2>2 DEF CallRecord
    <2>4. Sound(q, ua)
      <3>1. CASE ok
        BY <1>1, <1>4, <1>8, <2>1, <2>3, <3>1 DEF Sound, UnderWay
      <3>2. CASE ~ok
        BY <1>1, <1>4, <1>8, <2>1, <2>3, <3>2 DEF Sound, UnderWay
      <3> QED BY <3>1, <3>2
    <2>5. OK(Set(w, c, q), c, ua) /\ Set(w, c, q).call[c] = q
      BY <1>6, <2>3, SetLemma
    <2>6. CASE ok
      <3>1. q = [r EXCEPT !.sess = "calling"]
        BY <1>4, <2>1, <2>2, <2>6 DEF CallRecord
      <3>2. Becomes(Set(w, c, q))
        BY <1>2, <1>6, <1>7, <1>8, <2>6, <3>1, Zenon DEF Set
      <3> QED BY <2>4, <2>5, <3>2, EndLemma DEF Good
    <2>7. CASE ~ok
      <3>1. q = [r EXCEPT !.mnat = "lost"]
        BY <1>4, <2>1, <2>2, <2>7 DEF CallRecord
      <3>2. Becomes(Set(w, c, q))
        BY <1>2, <1>6, <1>7, <1>8, <2>7, <3>1, Zenon DEF Set
      <3> QED BY <2>4, <2>5, <3>2, EndLemma DEF Good
    <2> QED BY <2>6, <2>7
  <1>9. CASE call[c].state = "INCOMING"
    <2>1. Sound(r, ua)
      BY <1>1, <1>4, <1>9 DEF Sound, UnderWay
    <2>2. PICK x : x = Incoming(w, c, blocked, ok)
      OBVIOUS
    <2>3. ua.answermode \in {"manual", "early", "auto"}
      BY DEF IInv
    <2>4. Good(x, c, ua)
      BY <1>4, <1>6, <1>9, <2>1, <2>2, <2>3, IncomingLemma DEF Good
    <2>5. Becomes(x)
      BY <1>2, <1>7, <1>9, <2>2
    <2> QED BY <2>4, <2>5, EndLemma
  <1>10. CASE call[c].state \notin {"OUTGOING", "INCOMING"}
    <2>1. Sound(r, ua)
      BY <1>1, <1>4, <1>10 DEF Sound, UnderWay
    <2>2. Becomes(w)
      BY <1>2, <1>7, <1>10
    <2> QED BY <1>6, <2>1, <2>2, EndLemma DEF Good
  <1> QED BY <1>8, <1>9, <1>10

-----------------------------------------------------------------------------
(* Steps that end a call.                                                   *)

(* In a call that exists nothing has been reported yet, unless the          *)
(* application hung it up.                                                  *)
Reportable(r, u) == u.alive /\ ~r.hungup => r.closed = 0

LEMMA LiveLemma ==
  ASSUME NEW c \in Calls, IInv, Live(c)
  PROVE  /\ OK(W, c, ua) /\ W.call = call /\ call[c] \in CallRecord
         /\ Sound(call[c], ua) /\ call[c].life = "live" /\ UnderWay(call[c], ua)
         /\ Reportable(call[c], ua)
  BY BeginLemma DEF Live, Good, Sound, Reportable

LEMMA CloseStep ==
  ASSUME NEW c \in Calls, IInv, NEW w, OK(w, c, ua), Reportable(w.call[c], ua),
         Becomes(Closed(w, c))
  PROVE  IInv'
  <1>1. PICK x : x = Closed(w, c)
    OBVIOUS
  <1>2. Good(x, c, ua)
    BY <1>1, ClosedLemma DEF Good, Reportable
  <1> QED BY <1>1, <1>2, EndLemma

LEMMA StoppedStep ==
  ASSUME NEW c \in Calls, IInv, NEW w, OK(w, c, ua), Reportable(w.call[c], ua),
         Becomes(Closed(call_stream_stop(w, c), c))
  PROVE  IInv'
  <1>1. PICK v : v = call_stream_stop(w, c)
    OBVIOUS
  <1>2. OK(v, c, ua) /\ v.call[c] = Stopped(w.call[c])
    BY <1>1, StopLemma
  <1>3. w.call[c] \in CallRecord
    BY DEF OK, Value
  <1>4. v.call[c].hungup = w.call[c].hungup /\ v.call[c].closed = w.call[c].closed
    BY <1>2, <1>3 DEF CallRecord, Stopped
  <1>5. Reportable(v.call[c], ua)
    BY <1>4 DEF Reportable
  <1> QED BY <1>1, <1>2, <1>5, CloseStep

LEMMA TimeoutStep ==
  ASSUME NEW c \in Calls, IInv, invite_timeout(c) \/ mnat_failed(c)
  PROVE  IInv'
  <1>1. OK(W, c, ua) /\ Reportable(W.call[c], ua) /\ Becomes(Closed(W, c))
    BY LiveLemma DEF invite_timeout, mnat_failed
  <1> QED BY <1>1, CloseStep

LEMMA AudioStep ==
  ASSUME NEW c \in Calls, IInv, audio_error_handler(c)
  PROVE  IInv'
  <1>1. /\ OK(W, c, ua) /\ Reportable(W.call[c], ua)
        /\ Becomes(Closed(call_stream_stop(W, c), c))
    BY LiveLemma DEF audio_error_handler
  <1> QED BY <1>1, StoppedStep

LEMMA StreamStep ==
  ASSUME NEW c \in Calls, IInv, stream_error_handler(c)
  PROVE  IInv'
  <1>1. /\ OK(W, c, ua) /\ W.call = call /\ call[c] \in CallRecord
        /\ Reportable(call[c], ua)
    BY LiveLemma DEF stream_error_handler
  <1>2. PICK r : r = [call[c] EXCEPT !.state = "TERMINATED"]
    OBVIOUS
  <1>3. /\ r \in CallRecord /\ r.not = call[c].not /\ r.hungup = call[c].hungup
        /\ r.closed = call[c].closed
    BY <1>1, <1>2 DEF CallRecord, States
  <1>4. PICK w : w = Set(W, c, r)
    OBVIOUS
  <1>5. OK(w, c, ua) /\ w.call[c] = r
    BY <1>1, <1>3, <1>4, SetLemma
  <1>6. Reportable(w.call[c], ua)
    BY <1>1, <1>3, <1>5 DEF Reportable
  <1>7. w = [W EXCEPT !.call[c].state = "TERMINATED"]
    BY <1>1, <1>2, <1>4, Zenon DEF Set
  <1>8. Becomes(Closed(call_stream_stop(w, c), c))
    BY <1>7 DEF stream_error_handler
  <1> QED BY <1>5, <1>6, <1>8, StoppedStep

LEMMA SessionEndStep ==
  ASSUME NEW c \in Calls, IInv, sipsess_close_handler(c)
  PROVE  IInv'
  <1>1. /\ OK(W, c, ua) /\ W.call = call /\ call[c] \in CallRecord
        /\ Reportable(call[c], ua)
    BY LiveLemma DEF sipsess_close_handler
  <1>2. PICK r : r = [call[c] EXCEPT !.sess = "ended"]
    OBVIOUS
  <1>3. /\ r \in CallRecord /\ r.not = call[c].not /\ r.hungup = call[c].hungup
        /\ r.closed = call[c].closed
    BY <1>1, <1>2 DEF CallRecord, Phases
  <1>4. PICK w : w = Set(W, c, r)
    OBVIOUS
  <1>5. OK(w, c, ua) /\ w.call[c] = r
    BY <1>1, <1>3, <1>4, SetLemma
  <1>6. w = [W EXCEPT !.call[c].sess = "ended"]
    BY <1>1, <1>2, <1>4, Zenon DEF Set
  <1>7. PICK v : v = call_notify_sipfrag(w, c)
    OBVIOUS
  <1>8. OK(v, c, ua) /\ v.call[c] = [r EXCEPT !.not = None]
    BY <1>5, <1>7, NotifyLemma
  <1>9. Reportable(v.call[c], ua)
    BY <1>1, <1>3, <1>8 DEF Reportable, CallRecord
  <1>10. Becomes(Closed(call_stream_stop(v, c), c))
    BY <1>6, <1>7 DEF sipsess_close_handler
  <1> QED BY <1>8, <1>9, <1>10, StoppedStep

-----------------------------------------------------------------------------
(* Steps within a call.                                                     *)

LEMMA SetStep ==
  ASSUME NEW c \in Calls, IInv, NEW r \in CallRecord, r.not = call[c].not,
         Sound(r, ua), Becomes(Set(W, c, r))
  PROVE  IInv'
  <1>1. W.call = call /\ OK(W, c, ua)
    BY BeginLemma DEF Good
  <1>2. OK(Set(W, c, r), c, ua) /\ Set(W, c, r).call[c] = r
    BY <1>1, SetLemma
  <1> QED BY <1>2, EndLemma DEF Good

LEMMA OfferStep ==
  ASSUME NEW c \in Calls, IInv, sipsess_offer_handler(c)
  PROVE  IInv'
  <1>1. /\ W.call = call /\ call[c] \in CallRecord
        /\ Sound(call[c], ua) /\ call[c].life = "live" /\ call[c].sess = "rejected"
    BY LiveLemma DEF sipsess_offer_handler
  <1>2. PICK r : r = [call[c] EXCEPT !.sess = "answered"]
    OBVIOUS
  <1>3. /\ r \in CallRecord /\ r.not = call[c].not /\ r.hungup = call[c].hungup
        /\ r.closed = call[c].closed /\ r.life = "live" /\ r.sess = "answered"
        /\ r.state = call[c].state /\ r.tmr_inv = call[c].tmr_inv
    BY <1>1, <1>2 DEF CallRecord, Phases
  <1>4. Sound(r, ua)
    BY <1>1, <1>3 DEF Sound, UnderWay
  <1>5. Set(W, c, r) = [W EXCEPT !.call[c].sess = "answered"]
    BY <1>1, <1>2, Zenon DEF Set
  <1>6. Becomes(Set(W, c, r))
    BY <1>5 DEF sipsess_offer_handler
  <1> QED BY <1>3, <1>4, <1>6, SetStep

LEMMA AnswerStep ==
  ASSUME NEW c \in Calls, IInv, ua_answer(c)
  PROVE  IInv'
  <1>1. PICK ok \in BOOLEAN : Becomes(Answered(W, c, ok))
    BY DEF ua_answer
  <1>2. Good(W, c, ua) /\ W.call[c].life = "live" /\ W.call[c].state = "INCOMING"
    BY BeginLemma, LiveLemma DEF ua_answer
  <1>3. PICK x : x = Answered(W, c, ok)
    OBVIOUS
  <1>4. Good(x, c, ua)
    BY <1>2, <1>3, AnsweredLemma
  <1> QED BY <1>1, <1>3, <1>4, EndLemma

LEMMA HangupStep ==
  ASSUME NEW c \in Calls, IInv, ua_hangup(c)
  PROVE  IInv'
  <1>1. /\ W.call = call /\ call[c] \in CallRecord /\ OK(W, c, ua)
        /\ Sound(call[c], ua) /\ UnderWay(call[c], ua) /\ call[c].life = "live"
    BY LiveLemma DEF ua_hangup
  <1>2. PICK left : left = IF call[c].state = "INCOMING"
                           THEN IF call[c].sess = "offered" THEN "rejected" ELSE call[c].sess
                           ELSE IF call[c].sess = "idle" THEN "idle" ELSE "released"
    OBVIOUS
  <1>3. left \in Phases /\ left \notin {"up", "calling"}
    BY <1>1, <1>2 DEF CallRecord, Phases, UnderWay
  <1>4. PICK r : r = [call[c] EXCEPT !.sess = left, !.state = "TERMINATED"]
    OBVIOUS
  <1>5. /\ r \in CallRecord /\ r.not = call[c].not /\ r.closed = call[c].closed
        /\ r.life = "live" /\ r.sess = left /\ r.state = "TERMINATED"
    BY <1>1, <1>3, <1>4 DEF CallRecord, States
  <1>6. PICK w : w = Set(W, c, r)
    OBVIOUS
  <1>7. OK(w, c, ua) /\ w.call[c] = r
    BY <1>1, <1>5, <1>6, SetLemma
  <1>8. PICK v : v = call_stream_stop(w, c)
    OBVIOUS
  <1>9. OK(v, c, ua) /\ v.call[c] = Stopped(r)
    BY <1>7, <1>8, StopLemma
  <1>10. v.call[c] \in CallRecord
    BY <1>9 DEF OK, Value
  <1>11. PICK k \in Nat : k = v.call[c].closed + 1
    BY <1>10 DEF CallRecord
  <1>12. PICK q : q = [v.call[c] EXCEPT !.hungup = TRUE, !.closed = k]
    OBVIOUS
  <1>13. q \in CallRecord
    BY <1>10, <1>12, Zenon DEF CallRecord
  <1>14. /\ q.not = v.call[c].not /\ q.life = "live" /\ q.sess = left
         /\ q.state = "TERMINATED" /\ q.tmr_inv = FALSE /\ q.hungup
    BY <1>5, <1>9, <1>10, <1>12 DEF CallRecord, Stopped
  <1>15. Sound(q, ua)
    BY <1>3, <1>13, <1>14 DEF Sound, UnderWay
  <1>16. PICK x : x = Set(v, c, q)
    OBVIOUS
  <1>17. Good(x, c, ua)
    <2>1. OK(Set(v, c, q), c, ua) /\ Set(v, c, q).call[c] = q
      BY <1>9, <1>13, <1>14, SetLemma
    <2> QED BY <1>15, <1>16, <2>1 DEF Good
  <1>18. Becomes(x)
    <2>1. w = [W EXCEPT !.call[c].sess = left, !.call[c].state = "TERMINATED"]
      BY <1>1, <1>4, <1>6, BeginLemma DEF Set
    <2>2. v = call_hangup(W, c)
      BY <1>1, <1>2, <1>8, <2>1 DEF call_hangup
    <2>3. x = [v EXCEPT !.call[c].hungup = TRUE, !.call[c].closed = @ + 1]
      BY <1>9, <1>11, <1>12, <1>16 DEF Set, OK, Value
    <2> QED BY <2>2, <2>3 DEF ua_hangup
  <1> QED BY <1>17, <1>18, EndLemma

LEMMA ProgressStep ==
  ASSUME NEW c \in Calls, IInv, sipsess_progr_handler(c)
  PROVE  IInv'
  <1>1. /\ W.call = call /\ call[c] \in CallRecord /\ OK(W, c, ua)
        /\ Sound(call[c], ua) /\ UnderWay(call[c], ua) /\ call[c].life = "live"
        /\ call[c].sess = "calling"
    BY LiveLemma DEF sipsess_progr_handler
  <1>2. PICK state \in {"RINGING", "EARLY", call[c].state}, media \in BOOLEAN :
          LET w == call_stream_stop([W EXCEPT !.call[c].state = state], c)
          IN Becomes(IF media THEN call_stream_start(w, c, FALSE) ELSE w)
    BY DEF sipsess_progr_handler
  <1>3. PICK r : r = [call[c] EXCEPT !.state = state]
    OBVIOUS
  <1>4. state \in {"OUTGOING", "RINGING", "EARLY"}
    BY <1>1, <1>2 DEF UnderWay
  <1>5. /\ r \in CallRecord /\ r.not = call[c].not /\ r.closed = call[c].closed
        /\ r.life = "live" /\ r.sess = "calling" /\ r.state = state
        /\ r.hungup = call[c].hungup
    BY <1>1, <1>3, <1>4 DEF CallRecord, States
  <1>6. PICK v : v = Set(W, c, r)
    OBVIOUS
  <1>7. OK(v, c, ua) /\ v.call[c] = r
    BY <1>1, <1>5, <1>6, SetLemma
  <1>8. v = [W EXCEPT !.call[c].state = state]
    BY <1>1, <1>3, <1>6, Zenon DEF Set
  <1>9. PICK w : w = call_stream_stop(v, c)
    OBVIOUS
  <1>10. OK(w, c, ua) /\ w.call[c] = Stopped(r)
    BY <1>7, <1>9, StopLemma
  <1>11. w.call[c] \in CallRecord
    BY <1>10 DEF OK, Value
  <1>12. /\ w.call[c].life = "live" /\ w.call[c].sess = "calling"
         /\ w.call[c].state = state /\ w.call[c].tmr_inv = FALSE
         /\ w.call[c].hungup = call[c].hungup /\ w.call[c].closed = call[c].closed
    BY <1>5, <1>10 DEF Stopped, CallRecord
  <1>13. Sound(w.call[c], ua)
    BY <1>1, <1>4, <1>11, <1>12 DEF Sound, UnderWay
  <1>14. CASE ~media
    <2>1. Becomes(w)
      BY <1>2, <1>8, <1>9, <1>14
    <2> QED BY <1>10, <1>13, <2>1, EndLemma DEF Good
  <1>15. CASE media
    <2>1. PICK x : x = StartEarly(w, c)
      OBVIOUS
    <2>2. OK(x, c, ua) /\ x.call[c] = [w.call[c] EXCEPT !.media = TRUE]
      BY <1>10, <2>1, StartEarlyLemma
    <2>3. x.call[c] \in CallRecord
      BY <2>2 DEF OK, Value
    <2>4. /\ x.call[c].life = "live" /\ x.call[c].sess = "calling"
          /\ x.call[c].state = state /\ x.call[c].tmr_inv = FALSE
          /\ x.call[c].hungup = call[c].hungup /\ x.call[c].closed = call[c].closed
      BY <1>11, <1>12, <2>2 DEF CallRecord
    <2>5. Sound(x.call[c], ua)
      BY <1>1, <1>4, <2>3, <2>4 DEF Sound, UnderWay
    <2>6. Becomes(x)
      BY <1>2, <1>8, <1>9, <1>15, <2>1 DEF StartEarly
    <2> QED BY <2>2, <2>5, <2>6, EndLemma DEF Good
  <1> QED BY <1>14, <1>15

LEMMA EstablishedStep ==
  ASSUME NEW c \in Calls, IInv, sipsess_estab_handler(c)
  PROVE  IInv'
  <1>1. /\ W.call = call /\ call[c] \in CallRecord /\ OK(W, c, ua)
        /\ Sound(call[c], ua) /\ UnderWay(call[c], ua) /\ call[c].life = "live"
    BY LiveLemma DEF sipsess_estab_handler
  <1>2. PICK r : r = [call[c] EXCEPT !.sess = "up"]
    OBVIOUS
  <1>3. /\ r \in CallRecord /\ r.not = call[c].not /\ r.closed = call[c].closed
        /\ r.life = "live" /\ r.sess = "up" /\ r.state = call[c].state
        /\ r.hungup = call[c].hungup /\ r.tmr_inv = call[c].tmr_inv
    BY <1>1, <1>2 DEF CallRecord, Phases
  <1>4. PICK w : w = Set(W, c, r)
    OBVIOUS
  <1>5. OK(w, c, ua) /\ w.call[c] = r
    BY <1>1, <1>3, <1>4, SetLemma
  <1>6. w = [W EXCEPT !.call[c].sess = "up"]
    BY <1>1, <1>2, <1>4, Zenon DEF Set
  <1>7. CASE call[c].state = "ESTABLISHED"
    <2>1. Sound(r, ua)
      BY <1>1, <1>3, <1>7 DEF Sound, UnderWay
    <2>2. Becomes(w)
      BY <1>6, <1>7 DEF sipsess_estab_handler
    <2> QED BY <1>5, <2>1, <2>2, EndLemma DEF Good
  <1>8. CASE call[c].state # "ESTABLISHED"
    <2>1. PICK q : q = [r EXCEPT !.state = "ESTABLISHED", !.rtp = TRUE]
      OBVIOUS
    <2>2. q \in CallRecord
      <3>1. "ESTABLISHED" \in States
        BY DEF States
      <3> QED BY <1>3, <2>1, <3>1, Zenon DEF CallRecord
    <2>3. /\ q.not = r.not /\ q.closed = r.closed /\ q.life = "live" /\ q.sess = "up"
          /\ q.state = "ESTABLISHED" /\ q.hungup = r.hungup
      BY <1>3, <2>1 DEF CallRecord
    <2>4. PICK v : v = Set(w, c, q)
      OBVIOUS
    <2>5. OK(v, c, ua) /\ v.call[c] = q
      BY <1>5, <2>2, <2>3, <2>4, SetLemma
    <2>6. PICK y : y = Start(v, c)
      OBVIOUS
    <2>7. OK(y, c, ua) /\ y.call[c] = Started(q)
      BY <2>5, <2>6, StartLemma
    <2>8. y.call[c] \in CallRecord
      BY <2>7 DEF OK, Value
    <2>9. /\ y.call[c].life = "live" /\ y.call[c].sess = "up"
          /\ y.call[c].state = "ESTABLISHED" /\ y.call[c].tmr_inv = FALSE
          /\ y.call[c].hungup = call[c].hungup /\ y.call[c].closed = call[c].closed
      BY <1>3, <2>2, <2>3, <2>7 DEF Started, CallRecord
    <2>10. PICK x : x = call_notify_sipfrag(y, c)
      OBVIOUS
    <2>11. OK(x, c, ua) /\ x.call[c] = [y.call[c] EXCEPT !.not = None]
      BY <2>7, <2>10, NotifyLemma
    <2>12. x.call[c] \in CallRecord
      BY <2>11 DEF OK, Value
    <2>13. /\ x.call[c].life = "live" /\ x.call[c].sess = "up"
           /\ x.call[c].state = "ESTABLISHED" /\ x.call[c].tmr_inv = FALSE
           /\ x.call[c].hungup = call[c].hungup /\ x.call[c].closed = call[c].closed
      BY <2>8, <2>9, <2>11 DEF CallRecord
    <2>14. Sound(x.call[c], ua)
      BY <1>1, <2>12, <2>13 DEF Sound, UnderWay
    <2>15. v = [w EXCEPT !.call[c].state = "ESTABLISHED", !.call[c].rtp = TRUE]
      BY <1>5, <2>1, <2>4 DEF Set, OK, Value
    <2>16. Becomes(x)
      BY <1>6, <1>8, <2>6, <2>10, <2>15 DEF sipsess_estab_handler, Start
    <2> QED BY <2>11, <2>14, <2>16, EndLemma DEF Good
  <1> QED BY <1>7, <1>8

-----------------------------------------------------------------------------
(* Transfers and notifiers.                                                 *)

(* A call stays sound when its notifier is replaced.                        *)
LEMMA NotLemma ==
  ASSUME NEW r, NEW u, Sound(r, u), r.life = "live", NEW n \in Sipnots \cup {None},
         NEW q, q = [r EXCEPT !.not = n]
  PROVE  Sound(q, u) /\ q.not = n /\ q.life = "live"
  <1>1. r \in CallRecord /\ UnderWay(r, u)
    BY DEF Sound
  <1>2. q \in CallRecord
    BY <1>1, Zenon DEF CallRecord
  <1>3. /\ q.life = r.life /\ q.state = r.state /\ q.sess = r.sess
        /\ q.tmr_inv = r.tmr_inv /\ q.mnat = r.mnat /\ q.hungup = r.hungup
        /\ q.closed = r.closed /\ q.not = n
    BY <1>1 DEF CallRecord
  <1>4. UnderWay(q, u)
    BY <1>1, <1>3 DEF UnderWay
  <1> QED BY <1>2, <1>3, <1>4 DEF Sound

(* v is what the REFER has made of the objects: c refers to n, which calls  *)
(* c back, and the other calls are as they were.                            *)
Transferring(v, c, n) ==
  /\ Good(v, c, ua)
  /\ v.call[c].not = n /\ v.call[c].life = "live" /\ v.notifiers[n].arg = c
  /\ \A d \in Calls : d # c => v.call[d] = call[d]

LEMMA TransferStep ==
  ASSUME NEW c \in Calls, IInv, Live(c), NEW n \in Sipnots,
         NEW v, Transferring(v, c, n), Transfer(v, c)
  PROVE  IInv'
  <1>0. /\ Good(v, c, ua)
        /\ v.call[c].not = n /\ v.call[c].life = "live" /\ v.notifiers[n].arg = c
        /\ \A d \in Calls : d # c => v.call[d] = call[d]
    BY DEF Transferring
  <1>1. CASE \E d \in Calls :
               /\ Unused(d)
               /\ Becomes(call_connect(call_alloc(v, d, v.call[c].not), d))
    <2>1. PICK d \in Calls :
            /\ Unused(d)
            /\ Becomes(call_connect(call_alloc(v, d, v.call[c].not), d))
      BY <1>1
    <2>2. d # c /\ v.call[d] = call[d] /\ call[d].life = "none"
      BY <1>0, <2>1 DEF Live, Unused
    <2>3. Sound(v.call[d], ua) /\ v.call[d].not = None
      BY <1>0, <2>2 DEF Good, OK, Others, Sound
    <2>4. OK(v, d, ua)
      BY <1>0, <2>2 DEF Good, OK, Others
    <2>5. Inheritable(v, n)
      BY <1>0, CallAssumption DEF Inheritable
    <2>6. PICK w : w = call_alloc(v, d, n)
      OBVIOUS
    <2>7. OK(w, d, ua) /\ Allocated(w.call[d], ua)
      BY <2>3, <2>4, <2>5, <2>6, AllocLemma
    <2>8. PICK x : x = call_connect(w, d)
      OBVIOUS
    <2>9. Good(x, d, ua)
      BY <2>7, <2>8, ConnectLemma
    <2>10. Becomes(x)
      BY <1>0, <2>1, <2>6, <2>8
    <2> QED BY <2>9, <2>10, EndLemma
  <1>2. CASE Becomes(call_notify_sipfrag(v, c))
    <2>1. PICK x : x = call_notify_sipfrag(v, c)
      OBVIOUS
    <2>2. OK(x, c, ua) /\ x.call[c] = [v.call[c] EXCEPT !.not = None]
      BY <1>0, <2>1, NotifyLemma DEF Good
    <2>3. Sound(x.call[c], ua)
      BY <1>0, <2>2, NotLemma DEF Good
    <2> QED BY <1>2, <2>1, <2>2, <2>3, EndLemma DEF Good
  <1> QED BY <1>1, <1>2 DEF Transfer

LEMMA ReferStep ==
  ASSUME NEW c \in Calls, IInv, sipsess_refer_handler(c)
  PROVE  IInv'
  <1>0. Live(c)
    BY Zenon DEF sipsess_refer_handler, HasDialog
  <1>1. /\ W.call = call /\ OK(W, c, ua) /\ Sound(call[c], ua)
        /\ call[c].life = "live"
    BY <1>0, LiveLemma
  <1>2. W.notifiers = notifiers
    BY BeginLemma
  <1>3. PICK w : w = DropNot(W, c)
    OBVIOUS
  <1>4. /\ OK(w, c, ua) /\ w.call[c] = [call[c] EXCEPT !.not = None]
        /\ Unchanged(w, W, c)
    BY <1>1, <1>3, DropLemma
  <1>5. Sound(w.call[c], ua) /\ w.call[c].not = None /\ w.call[c].life = "live"
    BY <1>1, <1>4, NotLemma
  <1>6. \/ Becomes(w)
        \/ \E n \in Sipnots :
             /\ notifiers[n].arg = None
             /\ Transfer([w EXCEPT !.notifiers[n] = [refs |-> 1, arg |-> c, open |-> TRUE],
                                   !.call[c].not = n], c)
    BY <1>3, Zenon DEF sipsess_refer_handler
  <1>7. CASE Becomes(w)
    BY <1>4, <1>5, <1>7, EndLemma DEF Good
  <1>8. ASSUME NEW n \in Sipnots, notifiers[n].arg = None,
               Transfer([w EXCEPT !.notifiers[n] = [refs |-> 1, arg |-> c, open |-> TRUE],
                                  !.call[c].not = n], c)
        PROVE  IInv'
    <2>1. w.notifiers[n].refs = 0
      BY <1>2, <1>4, <1>8 DEF Unchanged, OK, Balanced
    <2>2. PICK k : k = [refs |-> 1, arg |-> c, open |-> TRUE]
      OBVIOUS
    <2>3. k \in Sipnot /\ k.refs = w.notifiers[n].refs + 1 /\ k.arg = c /\ k.arg # None
      BY <2>1, <2>2, CallAssumption DEF Sipnot
    <2>4. PICK r : r = [w.call[c] EXCEPT !.not = n]
      OBVIOUS
    <2>5. Sound(r, ua) /\ r.not = n /\ r.life = "live"
      BY <1>5, <2>4, NotLemma
    <2>6. r \in CallRecord
      BY <2>5 DEF Sound
    <2>7. PICK v : v = Both(w, c, r, n, k, w.calls)
      OBVIOUS
    <2>8. /\ OK(v, c, ua) /\ v.call[c] = r
          /\ OthersKept(v, w, c)
          /\ v.notifiers[n] = k
      <3>0. OK(w, c, ua) /\ w.call[c].not = None /\ r.not = n
        BY <1>4, <1>5, <2>5
      <3>1. /\ OK(Both(w, c, r, n, k, w.calls), c, ua)
            /\ Both(w, c, r, n, k, w.calls).call[c] = r
            /\ OthersKept(Both(w, c, r, n, k, w.calls), w, c)
            /\ Both(w, c, r, n, k, w.calls).notifiers[n] = k
        BY <2>3, <2>6, <3>0, TakeLemma
      <3> QED BY <2>7, <3>1
    <2>9. v = [w EXCEPT !.notifiers[n] = k, !.call[c].not = n]
      <3>1. w = [call |-> w.call, calls |-> w.calls, notifiers |-> w.notifiers]
        BY <1>4 DEF OK, Value
      <3>2. PICK z : z = [w EXCEPT !.notifiers[n] = k, !.call[c] = r]
        OBVIOUS
      <3>3. z = [call |-> [w.call EXCEPT ![c] = r], calls |-> w.calls,
                 notifiers |-> [w.notifiers EXCEPT ![n] = k]]
        BY <3>1, <3>2
      <3>4. z = v
        BY <2>7, <3>3 DEF Both
      <3>5. [w EXCEPT !.notifiers[n] = k].call = w.call
        BY <3>1
      <3> QED BY <2>4, <3>2, <3>4, <3>5, Zenon
    <2>10. Transfer(v, c)
      BY <1>8, <2>2, <2>9
    <2>11. \A d \in Calls : d # c => v.call[d] = call[d]
      BY <1>1, <1>4, <2>8 DEF Unchanged, OthersKept
    <2>12. Transferring(v, c, n)
      BY <2>3, <2>5, <2>8, <2>11 DEF Good, Transferring
    <2> QED BY <1>0, <2>10, <2>12, TransferStep
  <1> QED BY <1>6, <1>7, <1>8

LEMMA NotifierStep ==
  ASSUME NEW n \in Sipnots, IInv, sipnot_close_handler(n)
  PROVE  IInv'
  <1>1. PICK c : c = notifiers[n].arg
    OBVIOUS
  <1>2. W.notifiers = notifiers /\ Balanced(W) /\ notifiers \in [Sipnots -> Sipnot]
    <2>1. W.notifiers = notifiers
      BY DEF W
    <2> QED BY <2>1 DEF IInv, Value
  <1>3. notifiers[n].open /\ notifiers[n].refs > 0
    BY <1>2 DEF sipnot_close_handler, Balanced
  <1>4. c \in Calls
    BY <1>1, <1>2, <1>3 DEF Balanced, Sipnot
  <1>5. CASE Live(c)
    <2>1. /\ OK(W, c, ua) /\ W.call = call /\ Sound(call[c], ua) /\ call[c].life = "live"
      BY <1>4, <1>5, LiveLemma
    <2>2. PICK w : w = Shut(W, n)
      OBVIOUS
    <2>3. OK(w, c, ua) /\ w.call = call
      BY <1>4, <2>1, <2>2, ShutLemma
    <2>4. PICK x : x = DropNot(w, c)
      OBVIOUS
    <2>5. OK(x, c, ua) /\ x.call[c] = [call[c] EXCEPT !.not = None]
      BY <1>4, <2>3, <2>4, DropLemma
    <2>6. Sound(x.call[c], ua)
      BY <2>1, <2>5, NotLemma
    <2>7. Becomes(x)
      BY <1>1, <1>5, <2>2, <2>4 DEF sipnot_close_handler, Shut
    <2> QED BY <1>4, <2>5, <2>6, <2>7, EndLemma DEF Good
  <1>6. CASE ~Live(c)
    <2>1. corrupt' = TRUE /\ UNCHANGED <<call, calls, notifiers, ua>>
      BY <1>1, <1>6 DEF sipnot_close_handler
    <2>2. W' = W
      BY <2>1 DEF W
    <2>3. Value(W)' /\ Balanced(W)'
      BY <2>2 DEF IInv, Value, Balanced, Held
    <2>4. \A d \in Calls : Sound(call[d], ua)'
      BY <2>1 DEF IInv, Sound, UnderWay
    <2> QED BY <2>1, <2>3, <2>4 DEF IInv
  <1> QED BY <1>5, <1>6

-----------------------------------------------------------------------------
(* The end of the user agent.                                               *)

LEMMA DestructorStep ==
  ASSUME IInv, ua_destructor
  PROVE  IInv'
  <1>1. /\ call' = [c \in Calls |-> IF Live(c) THEN Freed(call[c]) ELSE call[c]]
        /\ calls' = <<>>
        /\ notifiers' = [n \in Sipnots |->
             LET left == notifiers[n].refs - Cardinality(Holders(n))
             IN [notifiers[n] EXCEPT !.refs = left, !.open = @ /\ left > 0]]
        /\ ua' = [ua EXCEPT !.alive = FALSE] /\ corrupt' = corrupt
    BY DEF ua_destructor
  <1>2. /\ call \in [Calls -> CallRecord] /\ notifiers \in [Sipnots -> Sipnot]
        /\ \A c \in Calls : Sound(call[c], ua)
        /\ W.call = call /\ W.notifiers = notifiers
        /\ Balanced(W)
    <2>1. W.call = call /\ W.notifiers = notifiers
      BY DEF W
    <2> QED BY <2>1 DEF IInv, Value
  <1>3. /\ ua'.alive = FALSE /\ ua'.answermode = ua.answermode
        /\ ua' \in [answermode : {"manual", "early", "auto"}, mnat : BOOLEAN,
                    alive : BOOLEAN]
    <2>1. ua \in [answermode : {"manual", "early", "auto"}, mnat : BOOLEAN, alive : BOOLEAN]
      BY DEF IInv
    <2>2. ua' \in [answermode : {"manual", "early", "auto"}, mnat : BOOLEAN, alive : BOOLEAN]
      BY <1>1, <2>1, Zenon
    <2> QED BY <1>1, <2>1, <2>2
  <1>4. \A c \in Calls : Sound(call'[c], ua') /\ call'[c].not = None
    <2> SUFFICES ASSUME NEW c \in Calls
                 PROVE  Sound(call'[c], ua') /\ call'[c].not = None
      OBVIOUS
    <2>1. CASE Live(c)
      <3>1. call'[c] = Freed(call[c])
        BY <1>1, <2>1
      <3>2. /\ call'[c] \in CallRecord /\ call'[c].life = "freed"
            /\ call'[c].not = None /\ ~call'[c].tmr_inv
        BY <1>2, <3>1, FreedLemma
      <3> QED BY <1>3, <3>2 DEF Sound
    <2>2. CASE ~Live(c)
      <3>1. call'[c] = call[c] /\ call[c].life # "live"
        BY <1>1, <2>2 DEF Live
      <3>2. Sound(call[c], ua)
        BY <1>2
      <3> QED BY <1>3, <3>1, <3>2 DEF Sound
    <2> QED BY <2>1, <2>2
  <1>5. \A n \in Sipnots : notifiers[n].refs - Cardinality(Holders(n)) = 0
    <2> SUFFICES ASSUME NEW n \in Sipnots
                 PROVE  notifiers[n].refs - Cardinality(Holders(n)) = 0
      OBVIOUS
    <2>1. Holders(n) = Held(W, n)
      BY <1>2, CallAssumption DEF Holders, Held, Live, Sound
    <2>2. notifiers[n].refs = Cardinality(Holders(n)) /\ notifiers[n].refs \in Nat
      BY <1>2, <2>1 DEF Balanced, Sipnot
    <2> QED BY <2>2
  <1>6. \A n \in Sipnots : /\ notifiers'[n] \in Sipnot /\ notifiers'[n].refs = 0
                           /\ notifiers'[n].open = FALSE
    <2> SUFFICES ASSUME NEW n \in Sipnots
                 PROVE  /\ notifiers'[n] \in Sipnot /\ notifiers'[n].refs = 0
                        /\ notifiers'[n].open = FALSE
      OBVIOUS
    <2>1. PICK left : left = notifiers[n].refs - Cardinality(Holders(n))
      OBVIOUS
    <2>2. left = 0
      BY <1>5, <2>1
    <2>3. PICK o \in BOOLEAN : o = (notifiers[n].open /\ left > 0)
      OBVIOUS
    <2>4. notifiers'[n] = [notifiers[n] EXCEPT !.refs = left, !.open = o]
      BY <1>1, <1>2, <2>1, <2>3 DEF Sipnot
    <2>5. o = FALSE
      <3>1. ~(left > 0)
        BY <2>2
      <3> QED BY <2>3, <3>1, Zenon
    <2>6. notifiers[n] \in Sipnot
      BY <1>2
    <2>7. notifiers'[n] = [notifiers[n] EXCEPT !.refs = 0, !.open = FALSE]
      BY <2>2, <2>4, <2>5, Zenon
    <2>8. \A r \in Sipnot : LET s == [r EXCEPT !.refs = 0, !.open = FALSE]
                            IN s \in Sipnot /\ s.refs = 0 /\ s.open = FALSE
      BY DEF Sipnot
    <2> QED BY <2>6, <2>7, <2>8
  <1>7. notifiers' \in [Sipnots -> Sipnot]
    <2>1. PICK f : f = notifiers'
      OBVIOUS
    <2>2. f = [n \in Sipnots |-> f[n]]
      BY <1>1, <2>1
    <2> QED BY <1>6, <2>1, <2>2
  <1>8. call' \in [Calls -> CallRecord]
    <2>1. PICK f : f = call'
      OBVIOUS
    <2>2. f = [c \in Calls |-> f[c]]
      BY <1>1, <2>1
    <2>3. \A c \in Calls : f[c] \in CallRecord
      BY <1>4, <2>1 DEF Sound
    <2> QED BY <2>1, <2>2, <2>3
  <1>9. /\ W' = [call |-> call', calls |-> calls', notifiers |-> notifiers']
        /\ W'.call = call' /\ W'.calls = calls' /\ W'.notifiers = notifiers'
    BY DEF W
  <1>10. Value(W)'
    BY <1>7, <1>8, <1>9 DEF Value
  <1>11. Balanced(W)'
    <2> SUFFICES ASSUME NEW n \in Sipnots
                 PROVE  /\ W'.notifiers[n].refs = Cardinality(Held(W', n))
                        /\ ~W'.notifiers[n].open /\ W'.notifiers[n].refs = 0
      BY DEF Balanced, Held
    <2>1. Held(W', n) = {}
      BY <1>4, <1>9, CallAssumption DEF Held
    <2>2. Cardinality({}) = 0
      BY FS_EmptySet
    <2> QED BY <1>6, <1>9, <2>1, <2>2
  <1>12. \A c \in Calls : Sound(call[c], ua)'
    BY <1>4 DEF Sound, UnderWay
  <1> QED BY <1>1, <1>3, <1>10, <1>11, <1>12 DEF IInv

-----------------------------------------------------------------------------
(* The theorems.                                                            *)

LEMMA InitLemma == Init => IInv
  <1> SUFFICES ASSUME Init PROVE IInv
    OBVIOUS
  <1>1. /\ W = [call |-> call, calls |-> calls, notifiers |-> notifiers]
        /\ W.call = call /\ W.calls = calls /\ W.notifiers = notifiers
    BY DEF W
  <1>2. NoCall \in CallRecord
    BY DEF NoCall, CallRecord, States, Phases
  <1>3. Sound(NoCall, ua)
    BY <1>2 DEF Sound, NoCall
  <1>4. call \in [Calls -> CallRecord] /\ \A c \in Calls : Sound(call[c], ua)
    BY <1>2, <1>3 DEF Init
  <1>5. [refs |-> 0, arg |-> None, open |-> FALSE] \in Sipnot
    BY DEF Sipnot
  <1>6. notifiers \in [Sipnots -> Sipnot]
    BY <1>5 DEF Init
  <1>7. Value(W)
    BY <1>1, <1>4, <1>6 DEF Value
  <1>8. Balanced(W)
    <2> SUFFICES ASSUME NEW n \in Sipnots
                 PROVE  /\ W.notifiers[n].refs = Cardinality(Held(W, n))
                        /\ ~W.notifiers[n].open /\ W.notifiers[n].refs = 0
      BY DEF Balanced
    <2>1. \A c \in Calls : call[c].not = None
      BY DEF Init, NoCall
    <2>2. Held(W, n) = {}
      BY <1>1, <2>1, CallAssumption DEF Held
    <2>3. Cardinality({}) = 0
      BY FS_EmptySet
    <2>4. notifiers[n].refs = 0 /\ notifiers[n].open = FALSE
      BY DEF Init
    <2> QED BY <1>1, <2>2, <2>3, <2>4
  <1>9. /\ ua \in [answermode : {"manual", "early", "auto"}, mnat : BOOLEAN,
                   alive : BOOLEAN]
        /\ corrupt \in BOOLEAN
    BY DEF Init
  <1> QED BY <1>4, <1>7, <1>8, <1>9 DEF IInv

LEMMA NextLemma == IInv /\ [Next]_vars => IInv'
  <1> SUFFICES ASSUME IInv, [Next]_vars PROVE IInv'
    OBVIOUS
  <1>1. CASE UNCHANGED vars
    <2>1. /\ call' = call /\ calls' = calls /\ notifiers' = notifiers
          /\ ua' = ua /\ corrupt' = corrupt
      BY <1>1 DEF vars
    <2>2. W' = W
      BY <2>1 DEF W
    <2>3. Value(W)' /\ Balanced(W)'
      BY <2>2 DEF IInv, Value, Balanced, Held
    <2>4. \A c \in Calls : Sound(call[c], ua)'
      BY <2>1 DEF IInv, Sound, UnderWay
    <2> QED BY <2>1, <2>3, <2>4 DEF IInv
  <1>2. CASE Next
    <2>1. ASSUME NEW c \in Calls, Application(c) PROVE IInv'
      BY <2>1, ConnectStep, AnswerStep, HangupStep DEF Application
    <2>2. ASSUME NEW c \in Calls, Session(c) PROVE IInv'
      BY <2>2, IncomingStep, ProgressStep, EstablishedStep, SessionEndStep,
         OfferStep, ReferStep DEF Session
    <2>3. ASSUME NEW c \in Calls, Media(c) PROVE IInv'
      BY <2>3, MnatStep, TimeoutStep, AudioStep, StreamStep DEF Media
    <2>4. ASSUME NEW n \in Sipnots, sipnot_close_handler(n) PROVE IInv'
      BY <2>4, NotifierStep
    <2>5. CASE ua_destructor
      BY <2>5, DestructorStep
    <2> QED BY <1>2, <2>1, <2>2, <2>3, <2>4, <2>5 DEF Next
  <1> QED BY <1>1, <1>2

(* The inductive invariant holds in every reachable state.                  *)
THEOREM Invariance == Spec => []IInv
  BY InitLemma, NextLemma, PTL DEF Spec

LEMMA Consequences == IInv => /\ TypeOK /\ NotifierBalance /\ StateMatchesSession
                              /\ TimerWhileRinging /\ EndReportedOnce /\ AwaitsSomething
  <1> SUFFICES ASSUME IInv PROVE /\ TypeOK /\ NotifierBalance /\ StateMatchesSession
                                 /\ TimerWhileRinging /\ EndReportedOnce /\ AwaitsSomething
    OBVIOUS
  <1>1. /\ W.call = call /\ W.notifiers = notifiers
        /\ Value(W) /\ Balanced(W)
        /\ \A c \in Calls : Sound(call[c], ua)
    <2>1. W.call = call /\ W.notifiers = notifiers
      BY DEF W
    <2> QED BY <2>1 DEF IInv
  <1>2. TypeOK
    BY <1>1 DEF TypeOK, IInv, Value
  <1>3. NotifierBalance
    <2> SUFFICES ASSUME NEW n \in Sipnots
                 PROVE  /\ notifiers[n].refs = Cardinality(Holders(n))
                        /\ notifiers[n].open => notifiers[n].refs > 0
      BY DEF NotifierBalance
    <2>1. Holders(n) = Held(W, n)
      BY <1>1, CallAssumption DEF Holders, Held, Live, Sound
    <2> QED BY <1>1, <2>1 DEF Balanced
  <1>4. StateMatchesSession
    BY <1>1 DEF StateMatchesSession, Live, Sound, UnderWay
  <1>5. TimerWhileRinging
    BY <1>1 DEF TimerWhileRinging, Live, Sound, UnderWay
  <1>6. EndReportedOnce
    BY <1>1 DEF EndReportedOnce, Sound
  <1>7. AwaitsSomething
    <2> SUFFICES ASSUME NEW c \in Calls, Live(c), ~call[c].hungup
                 PROVE  \/ call[c].sess \in {"calling", "offered", "answered", "up"}
                        \/ call[c].tmr_inv
                        \/ call[c].mnat \in {"gather", "lost"}
                        \/ call[c].sess = "rejected" /\ ua.answermode = "early"
      BY DEF AwaitsSomething
    <2>1. call[c] \in CallRecord /\ UnderWay(call[c], ua)
      BY <1>1 DEF Live, Sound
    <2> QED BY <2>1 DEF UnderWay, CallRecord, Phases
  <1> QED BY <1>2, <1>3, <1>4, <1>5, <1>6, <1>7

(* Every variable keeps its type; the references of a notifier stay a       *)
(* natural number, which is to say that none is given back twice.           *)
THEOREM TypeCorrect == Spec => []TypeOK
  BY Invariance, Consequences, PTL

(* Calls and the transfer notifiers they share: as many references as calls *)
(* that point to it, whatever becomes of either call.                       *)
THEOREM NotifiersBalanced == Spec => []NotifierBalance
  BY Invariance, Consequences, PTL

(* The state shown to the user is that of the session.                      *)
THEOREM StatesMatch == Spec => []StateMatchesSession
  BY Invariance, Consequences, PTL

(* invite_timeout never ends a call that was answered, and a call that      *)
(* rings always has its timer.                                              *)
THEOREM TimersMatch == Spec => []TimerWhileRinging
  BY Invariance, Consequences, PTL

(* CALL_EVENT_CLOSED comes once, with the end of the call.                  *)
THEOREM EndsReportedOnce == Spec => []EndReportedOnce
  BY Invariance, Consequences, PTL

(* Every call in progress waits for something that can end it, and for no   *)
(* timer it should not.                                                     *)
THEOREM NobodyStuck == Spec => []NeverStuck
  <1>1. AwaitsSomething /\ TimerWhileRinging => NeverStuck
    BY DEF NeverStuck
  <1> QED BY <1>1, Invariance, Consequences, PTL

=============================================================================
