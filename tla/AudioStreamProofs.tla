-------------------------- MODULE AudioStreamProofs --------------------------
(***************************************************************************)
(* Theorems about AudioStream and its jitter buffer, for any width of the   *)
(* sequence numbers, any delays, codecs and packets.                        *)
(***************************************************************************)
EXTENDS AudioStream, WellFoundedInduction, FiniteSetTheorems, TLAPS

-----------------------------------------------------------------------------
(* Numbers and sequences.                                                   *)

LEMMA LeastExists ==
  ASSUME NEW S, S \subseteq Nat, S # {}
  PROVE  \E m \in S : \A k \in S : m <= k
<1> DEFINE R == {ss \in Nat \X Nat : ss[1] < ss[2]}
<1>1. IsWellFoundedOn(R, Nat)
  BY NatLessThanWellFounded DEF OpToRel
<1> HIDE DEF R
<1>2. PICK m \in S : \A k \in S : <<k, m>> \notin R
  BY <1>1, WFMin
<1>3. ASSUME NEW k \in S PROVE m <= k
  <2>1. <<k, m>> \in Nat \X Nat /\ ~(k < m) BY <1>2 DEF R
  <2> QED BY <2>1
<1> QED BY <1>3

LEMMA GreatestExists ==
  ASSUME NEW n \in Nat, NEW S, S \subseteq 1..n, S # {}
  PROVE  \E m \in S : \A k \in S : k <= m
<1> DEFINE D == {n - k : k \in S}
<1>1. D \subseteq Nat /\ D # {}
  <2>1. \A k \in S : n - k \in Nat OBVIOUS
  <2> QED BY <2>1
<1> HIDE DEF D
<1>2. PICK d \in D : \A k \in D : d <= k BY <1>1, LeastExists
<1>3. PICK m \in S : d = n - m BY DEF D
<1>4. ASSUME NEW k \in S PROVE k <= m
  <2>1. d <= n - k BY <1>2 DEF D
  <2>2. k \in Int /\ m \in Int OBVIOUS
  <2> QED BY <1>3, <2>1, <2>2
<1> QED BY <1>4

(* The remainder of a number less than one turn away.                       *)
LEMMA Remainder ==
  ASSUME NEW b \in Nat \ {0}, NEW a \in Int, -b < a, a < b
  PROVE  a % b = IF a < 0 THEN a + b ELSE a
<1> DEFINE q == a \div b
           r == a % b
<1>1. q \in Int /\ r \in 0..(b - 1) /\ a = b * q + r OBVIOUS
<1> HIDE DEF q, r
<1>2. CASE q >= 1
  <2>1. b * q >= b BY <1>1, <1>2
  <2> QED BY <1>1, <2>1
<1>3. CASE q <= -2
  <2>1. b * q <= b * (-2) BY <1>1, <1>3
  <2> QED BY <1>1, <2>1
<1>4. CASE q = 0
  <2>1. a = r BY <1>1, <1>4
  <2> QED BY <1>1, <2>1 DEF r
<1>5. CASE q = -1
  <2>1. a = r - b BY <1>1, <1>5
  <2> QED BY <1>1, <2>1 DEF r
<1>6. q >= 1 \/ q <= -2 \/ q = 0 \/ q = -1 BY <1>1
<1> QED BY <1>2, <1>3, <1>4, <1>5, <1>6

(* Of two different numbers one is before the other, on the circle.         *)
LEMMA LessTotal ==
  ASSUME NEW x \in Seqs, NEW y \in Seqs, x # y, ~seq_less(x, y)
  PROVE  seq_less(y, x)
<1>1. x \in Int /\ y \in Int /\ Wrap \in Nat \ {0} /\ x < Wrap /\ y < Wrap /\ 0 <= x /\ 0 <= y
  BY WrapAssumption DEF Seqs
<1> DEFINE d == x - y
           e == y - x
           h == Wrap \div 2
<1>2. d \in Int /\ -Wrap < d /\ d < Wrap /\ e \in Int /\ -Wrap < e /\ e < Wrap /\ d # 0 /\ e = -d
  BY <1>1
<1>3. d % Wrap = IF d < 0 THEN d + Wrap ELSE d
  <2> HIDE DEF d
  <2> QED BY <1>1, <1>2, Remainder
<1>4. e % Wrap = IF e < 0 THEN e + Wrap ELSE e
  <2> HIDE DEF e
  <2> QED BY <1>1, <1>2, Remainder
<1>5. h \in Nat /\ Wrap = 2 * h BY <1>1, WrapAssumption
<1>6. ~(d % Wrap >= h) BY DEF seq_less
<1>7. e % Wrap >= h
  <2> HIDE DEF d, e, h
  <2> QED BY <1>1, <1>2, <1>3, <1>4, <1>5, <1>6
<1> QED BY <1>7 DEF seq_less

LEMMA Inserted ==
  ASSUME NEW S, NEW s \in Seq(S), NEW i \in 1..(Len(s) + 1), NEW e \in S
  PROVE  /\ InsertAt(s, i, e) \in Seq(S)
         /\ Len(InsertAt(s, i, e)) = Len(s) + 1
         /\ \A j \in 1..(Len(s) + 1) :
              InsertAt(s, i, e)[j] = IF j < i THEN s[j]
                                     ELSE IF j = i THEN e ELSE s[j - 1]
<1> DEFINE a == SubSeq(s, 1, i - 1)
           b == SubSeq(s, i, Len(s))
<1>0. Len(s) \in Nat /\ i \in Nat OBVIOUS
<1>1. a \in Seq(S) /\ Len(a) = i - 1 /\ \A j \in 1..(i - 1) : a[j] = s[j]
  OBVIOUS
<1>2. /\ b \in Seq(S) /\ Len(b) = Len(s) - i + 1
      /\ \A j \in 1..(Len(s) - i + 1) : b[j] = s[i + j - 1]
  OBVIOUS
<1>3. InsertAt(s, i, e) = a \o <<e>> \o b BY DEF InsertAt
<1> HIDE DEF a, b
<1> DEFINE c == a \o <<e>>
<1>4. c \in Seq(S) /\ Len(c) = i
  BY <1>1
<1>5. \A j \in 1..i : c[j] = IF j < i THEN s[j] ELSE e
  BY <1>1
<1> HIDE DEF c
<1>6. c \o b \in Seq(S) /\ Len(c \o b) = Len(s) + 1
  BY <1>0, <1>2, <1>4
<1>7. ASSUME NEW j \in 1..(Len(s) + 1)
      PROVE (c \o b)[j] = IF j < i THEN s[j] ELSE IF j = i THEN e ELSE s[j - 1]
  <2>1. CASE j <= i BY <2>1, <1>2, <1>4, <1>5
  <2>2. CASE j > i
    <3>1. (c \o b)[j] = b[j - i] BY <2>2, <1>2, <1>4
    <3>2. j - i \in 1..(Len(s) - i + 1) BY <2>2
    <3>3. b[j - i] = s[j - 1] BY <3>2, <1>0, <1>2
    <3>4. ~(j < i) /\ j # i BY <1>0, <2>2
    <3> QED BY <3>1, <3>3, <3>4
  <2>3. j <= i \/ j > i BY <1>0
  <2> QED BY <2>1, <2>2, <2>3, Zenon
<1> QED BY <1>3, <1>6, <1>7 DEF c

-----------------------------------------------------------------------------
(* The jitter buffer.                                                       *)

SortedList(l) == \A i \in 1..(Len(l) - 1) : seq_less(l[i].seq, l[i + 1].seq)

(* A buffer one of whose frames is in nobody's list.                        *)
OneOut(b) ==
  /\ b \in JitterBuffers /\ b.max > 0 /\ SortedList(b.framel)
  /\ b.n = Len(b.framel) + 1 /\ b.pool + b.n = b.max

LEMMA TailSorted ==
  ASSUME NEW l \in Seq(Frame), l # <<>>, SortedList(l)
  PROVE  Tail(l) \in Seq(Frame) /\ Len(Tail(l)) = Len(l) - 1 /\ SortedList(Tail(l))
<1>1. /\ Tail(l) \in Seq(Frame) /\ Len(Tail(l)) = Len(l) - 1 /\ Len(l) \in Nat \ {0}
      /\ \A i \in 1..(Len(l) - 1) : Tail(l)[i] = l[i + 1]
  OBVIOUS
<1>2. ASSUME NEW i \in 1..(Len(Tail(l)) - 1)
      PROVE seq_less(Tail(l)[i].seq, Tail(l)[i + 1].seq)
  <2>1. i \in 1..(Len(l) - 1) /\ i + 1 \in 1..(Len(l) - 1) BY <1>1
  <2>2. Tail(l)[i] = l[i + 1] /\ Tail(l)[i + 1] = l[(i + 1) + 1] BY <1>1, <2>1
  <2>3. seq_less(l[i + 1].seq, l[(i + 1) + 1].seq) BY <2>1 DEF SortedList
  <2> QED BY <2>2, <2>3
<1> QED BY <1>1, <1>2 DEF SortedList

LEMMA AllocTakes ==
  ASSUME NEW b, JitterBufferSound(b)
  PROVE  OneOut(frame_alloc(b))
<1>1. /\ b \in JitterBuffers /\ b.max > 0 /\ SortedList(b.framel)
      /\ b.n = Len(b.framel) /\ b.pool + b.n = b.max
      /\ b.framel \in Seq(Frame) /\ b.pool \in Nat /\ b.max \in Nat
      /\ Len(b.framel) \in Nat
  BY DEF JitterBufferSound, Sorted, SortedList, FramesCounted, JitterBuffers
<1>2. CASE b.pool > 0
  <2>1. frame_alloc(b) = [b EXCEPT !.pool = @ - 1, !.n = @ + 1] BY <1>2 DEF frame_alloc
  <2>2. b.pool - 1 \in Nat /\ b.n + 1 \in Int BY <1>1, <1>2
  <2>3. frame_alloc(b) \in JitterBuffers BY <1>1, <2>1, <2>2 DEF JitterBuffers
  <2>4. /\ frame_alloc(b).framel = b.framel /\ frame_alloc(b).max = b.max
        /\ frame_alloc(b).n = b.n + 1 /\ frame_alloc(b).pool = b.pool - 1
    BY <1>1, <2>1 DEF JitterBuffers
  <2> QED BY <1>1, <2>2, <2>3, <2>4 DEF OneOut
<1>3. CASE ~(b.pool > 0)
  <2>1. frame_alloc(b) = [b EXCEPT !.framel = Tail(@)] BY <1>3 DEF frame_alloc
  <2>2. b.framel # <<>> BY <1>1, <1>3
  <2>3. /\ Tail(b.framel) \in Seq(Frame) /\ SortedList(Tail(b.framel))
        /\ Len(Tail(b.framel)) = Len(b.framel) - 1
    BY <1>1, <2>2, TailSorted
  <2>4. frame_alloc(b) \in JitterBuffers BY <1>1, <2>1, <2>3 DEF JitterBuffers
  <2>5. /\ frame_alloc(b).framel = Tail(b.framel) /\ frame_alloc(b).max = b.max
        /\ frame_alloc(b).n = b.n /\ frame_alloc(b).pool = b.pool
    BY <1>1, <2>1 DEF JitterBuffers
  <2> QED BY <1>1, <2>3, <2>4, <2>5 DEF OneOut
<1> QED BY <1>2, <1>3

(* Where a frame that is in the list nowhere yet goes.                      *)
LEMMA PlaceSound ==
  ASSUME NEW l \in Seq(Frame), NEW n \in Seqs
  PROVE  /\ Place(l, n) \in 0..Len(l)
         /\ Place(l, n) > 0 =>
              seq_less(l[Place(l, n)].seq, n) \/ l[Place(l, n)].seq = n
         /\ Place(l, n) < Len(l) => seq_less(n, l[Place(l, n) + 1].seq)
<1> DEFINE before == NotAfter(l, n)
<1>0. /\ Len(l) \in Nat /\ DOMAIN l = 1..Len(l)
      /\ \A i \in 1..Len(l) : l[i].seq \in Seqs
  <2>1. Len(l) \in Nat /\ DOMAIN l = 1..Len(l) OBVIOUS
  <2>2. \A i \in 1..Len(l) : l[i] \in Frame OBVIOUS
  <2>3. \A f \in Frame : f.seq \in Seqs BY DEF Frame
  <2> QED BY <2>1, <2>2, <2>3
<1>1. CASE before = {}
  <2>1. Place(l, n) = 0 BY <1>1 DEF Place
  <2>2. Len(l) > 0 => seq_less(n, l[1].seq)
    <3> SUFFICES ASSUME Len(l) > 0 PROVE seq_less(n, l[1].seq) OBVIOUS
    <3>1. 1 \in DOMAIN l /\ 1 \notin before BY <1>0, <1>1
    <3>2. ~seq_less(l[1].seq, n) /\ l[1].seq # n BY <3>1 DEF NotAfter
    <3> QED BY <1>0, <3>1, <3>2, LessTotal
  <2> QED BY <1>0, <2>1, <2>2
<1>2. CASE before # {}
  <2>1. before \subseteq 1..Len(l) BY <1>0 DEF NotAfter
  <2>2. \E m \in before : \A k \in before : k <= m
    <3> HIDE DEF before
    <3> QED BY <1>0, <1>2, <2>1, GreatestExists
  <2> DEFINE p == CHOOSE i \in before : \A j \in before : j <= i
  <2>3. p \in before /\ \A k \in before : k <= p
    <3> HIDE DEF before
    <3> QED BY <2>2
  <2>4. Place(l, n) = p BY <1>2 DEF Place
  <2> HIDE DEF p
  <2>5. /\ p \in 1..Len(l)
        /\ seq_less(l[p].seq, n) \/ l[p].seq = n
    BY <1>0, <2>1, <2>3 DEF NotAfter
  <2>6. ASSUME p < Len(l) PROVE seq_less(n, l[p + 1].seq)
    <3>1. p + 1 \in DOMAIN l /\ p + 1 \notin before
      BY <1>0, <2>1, <2>3, <2>5, <2>6
    <3>2. ~seq_less(l[p + 1].seq, n) /\ l[p + 1].seq # n BY <3>1 DEF NotAfter
    <3> QED BY <1>0, <3>1, <3>2, LessTotal
  <2> QED BY <1>0, <2>4, <2>5, <2>6
<1> QED BY <1>1, <1>2

LEMMA InsertedInOrder ==
  ASSUME NEW l \in Seq(Frame), SortedList(l), NEW f \in Frame,
         ~(Place(l, f.seq) > 0 /\ l[Place(l, f.seq)].seq = f.seq)
  PROVE  LET new == InsertAt(l, Place(l, f.seq) + 1, f)
         IN new \in Seq(Frame) /\ Len(new) = Len(l) + 1 /\ SortedList(new)
<1> DEFINE p == Place(l, f.seq)
<1>0. Len(l) \in Nat /\ f.seq \in Seqs BY DEF Frame
<1>1. /\ p \in 0..Len(l) /\ (p > 0 => seq_less(l[p].seq, f.seq))
      /\ p < Len(l) => seq_less(f.seq, l[p + 1].seq)
  BY <1>0, PlaceSound
<1> HIDE DEF p
<1>2. PICK i \in 1..(Len(l) + 1) : i = p + 1 BY <1>0, <1>1
<1> DEFINE new == InsertAt(l, i, f)
<1>3. /\ new \in Seq(Frame) /\ Len(new) = Len(l) + 1
      /\ \A j \in 1..(Len(l) + 1) : new[j] = IF j < i THEN l[j]
                                             ELSE IF j = i THEN f ELSE l[j - 1]
  BY Inserted, SMTT(30)
<1> HIDE DEF new
<1>4. ASSUME NEW j \in 1..(Len(new) - 1) PROVE seq_less(new[j].seq, new[j + 1].seq)
  <2>0. j \in 1..(Len(l) + 1) /\ j + 1 \in 1..(Len(l) + 1) /\ j \in 1..Len(l)
    BY <1>0, <1>3
  <2>1. CASE j + 1 < i
    <3>1. new[j] = l[j] /\ new[j + 1] = l[j + 1] BY <1>3, <2>0, <2>1
    <3>2. j \in 1..(Len(l) - 1) BY <1>0, <2>0, <2>1
    <3> QED BY <3>1, <3>2 DEF SortedList
  <2>2. CASE j + 1 = i
    <3>1. new[j] = l[j] /\ new[j + 1] = f /\ j = p BY <1>1, <1>2, <1>3, <2>0, <2>2
    <3> QED BY <1>1, <2>0, <3>1
  <2>3. CASE j = i
    <3>1. new[j] = f /\ new[j + 1] = l[j] /\ j = p + 1 BY <1>2, <1>3, <2>0, <2>3
    <3>2. p < Len(l) BY <1>0, <1>1, <2>0, <3>1
    <3> QED BY <1>1, <3>1, <3>2
  <2>4. CASE j > i
    <3>1. PICK k \in 1..(Len(l) - 1) : k = j - 1 BY <1>0, <2>0, <2>4
    <3>2. new[j] = l[k] /\ new[j + 1] = l[k + 1] BY <1>3, <2>0, <2>4, <3>1
    <3> QED BY <3>2 DEF SortedList
  <2>5. j + 1 < i \/ j + 1 = i \/ j = i \/ j > i BY <2>0
  <2> QED BY <2>1, <2>2, <2>3, <2>4, <2>5
<1>5. SortedList(new) BY <1>4 DEF SortedList
<1> QED BY <1>2, <1>3, <1>5 DEF p, new

(* jbuf_put keeps the buffer sound: full or not, the frame late or not.     *)
LEMMA PutSound ==
  ASSUME NEW b, JitterBufferSound(b), NEW f \in Frame
  PROVE  JitterBufferSound(jbuf_put(b, f))
<1> DEFINE got == frame_alloc(b)
<1>1. OneOut(got) BY AllocTakes
<1> HIDE DEF got
<1>2. /\ got \in JitterBuffers /\ got.max > 0 /\ SortedList(got.framel)
      /\ got.n = Len(got.framel) + 1 /\ got.pool + got.n = got.max
      /\ got.framel \in Seq(Frame) /\ Len(got.framel) \in Nat
      /\ got.n \in Int /\ got.pool \in Nat /\ got.max \in Nat
  BY <1>1 DEF OneOut, JitterBuffers
<1>3. CASE TooLate(b, f.seq) BY <1>3 DEF jbuf_put
<1>4. CASE ~TooLate(b, f.seq) /\ Duplicate(b, f.seq)
  <2>1. jbuf_put(b, f) = [got EXCEPT !.pool = @ + 1, !.n = @ - 1]
    BY <1>4 DEF jbuf_put, got
  <2>2. got.pool + 1 \in Nat /\ got.n - 1 \in Int BY <1>2
  <2>3. jbuf_put(b, f) \in JitterBuffers BY <1>2, <2>1, <2>2 DEF JitterBuffers
  <2>4. /\ jbuf_put(b, f).framel = got.framel /\ jbuf_put(b, f).max = got.max
        /\ jbuf_put(b, f).n = got.n - 1 /\ jbuf_put(b, f).pool = got.pool + 1
    BY <1>2, <2>1 DEF JitterBuffers
  <2> DEFINE d == jbuf_put(b, f)
  <2> HIDE DEF d
  <2>5. d \in JitterBuffers /\ d.max > 0 BY <1>2, <2>3, <2>4 DEF d
  <2>6. d.n = Len(d.framel) /\ d.pool + d.n = d.max BY <1>2, <2>4 DEF d
  <2>7. SortedList(d.framel) BY <1>2, <2>4 DEF d
  <2>8. JitterBufferSound(d)
    BY <2>5, <2>6, <2>7 DEF JitterBufferSound, Sorted, SortedList, FramesCounted
  <2> QED BY <2>8 DEF d
<1>5. CASE ~TooLate(b, f.seq) /\ ~Duplicate(b, f.seq)
  <2> DEFINE new == InsertAt(got.framel, Place(got.framel, f.seq) + 1, f)
  <2>1. jbuf_put(b, f) = [got EXCEPT !.framel = new, !.running = TRUE, !.seq_put = f.seq]
    BY <1>5 DEF jbuf_put, got
  <2>2. ~(Place(got.framel, f.seq) > 0 /\ got.framel[Place(got.framel, f.seq)].seq = f.seq)
    BY <1>5 DEF Duplicate, got
  <2>3. new \in Seq(Frame) /\ Len(new) = Len(got.framel) + 1 /\ SortedList(new)
    BY <1>2, <2>2, InsertedInOrder
  <2> HIDE DEF new
  <2>4. f.seq \in Seqs BY DEF Frame
  <2> QED BY <1>2, <2>1, <2>3, <2>4
          DEF JitterBufferSound, Sorted, SortedList, FramesCounted, JitterBuffers
<1> QED BY <1>3, <1>4, <1>5

LEMMA GetSound ==
  ASSUME NEW b, JitterBufferSound(b)
  PROVE  /\ JitterBufferSound(jbuf_get(b))
         /\ HasFrame(b) => Head(b.framel) \in Frame
<1>1. /\ b \in JitterBuffers /\ b.max > 0 /\ SortedList(b.framel)
      /\ b.n = Len(b.framel) /\ b.pool + b.n = b.max
      /\ b.framel \in Seq(Frame) /\ Len(b.framel) \in Nat /\ b.pool \in Nat
  BY DEF JitterBufferSound, Sorted, SortedList, FramesCounted, JitterBuffers
<1>2. CASE HasFrame(b)
  <2>1. jbuf_get(b) = [b EXCEPT !.framel = Tail(@), !.pool = @ + 1, !.n = @ - 1]
    BY <1>2 DEF jbuf_get
  <2>2. b.framel # <<>> BY <1>2 DEF HasFrame
  <2>3. /\ Tail(b.framel) \in Seq(Frame) /\ SortedList(Tail(b.framel))
        /\ Len(Tail(b.framel)) = Len(b.framel) - 1
    BY <1>1, <2>2, TailSorted
  <2>4. Head(b.framel) \in Frame BY <1>1, <2>2
  <2>5. b.pool + 1 \in Nat /\ b.n - 1 \in Int BY <1>1
  <2>6. jbuf_get(b) \in JitterBuffers BY <1>1, <2>1, <2>3, <2>5 DEF JitterBuffers
  <2>7. /\ jbuf_get(b).framel = Tail(b.framel) /\ jbuf_get(b).max = b.max
        /\ jbuf_get(b).n = b.n - 1 /\ jbuf_get(b).pool = b.pool + 1
    BY <1>1, <2>1 DEF JitterBuffers
  <2> QED BY <1>1, <2>3, <2>4, <2>6, <2>7 DEF JitterBufferSound, Sorted, SortedList, FramesCounted
<1>3. CASE ~HasFrame(b) BY <1>3 DEF jbuf_get
<1> QED BY <1>2, <1>3

LEMMA FlushSound ==
  ASSUME NEW b, JitterBufferSound(b)
  PROVE  JitterBufferSound(jbuf_flush(b))
<1>1. /\ b \in JitterBuffers /\ b.max > 0
      /\ b.n = Len(b.framel) /\ b.pool + b.n = b.max
      /\ Len(b.framel) \in Nat /\ b.pool \in Nat
  BY DEF JitterBufferSound, FramesCounted, JitterBuffers
<1>2. b.pool + Len(b.framel) \in Nat /\ <<>> \in Seq(Frame) BY <1>1
<1>5. PICK q \in Nat : q = b.pool + Len(b.framel) BY <1>2
<1>6. jbuf_flush(b) = [b EXCEPT !.framel = <<>>, !.pool = q, !.n = 0, !.running = FALSE]
  BY <1>1, <1>5 DEF jbuf_flush, JitterBuffers
<1>7. b.min \in Nat /\ b.max \in Nat /\ b.seq_put \in Seqs BY <1>1 DEF JitterBuffers
<1>8. jbuf_flush(b) = [framel |-> <<>>, pool |-> q, n |-> 0, min |-> b.min, max |-> b.max,
                       seq_put |-> b.seq_put, running |-> FALSE]
  BY <1>1, <1>6 DEF JitterBuffers
<1>3. jbuf_flush(b) \in JitterBuffers BY <1>2, <1>7, <1>8 DEF JitterBuffers
<1>4. /\ jbuf_flush(b).framel = <<>> /\ jbuf_flush(b).max = b.max
      /\ jbuf_flush(b).n = 0 /\ jbuf_flush(b).pool = b.pool + Len(b.framel)
  BY <1>1 DEF jbuf_flush, JitterBuffers
<1> QED BY <1>1, <1>3, <1>4 DEF JitterBufferSound, Sorted, FramesCounted

LEMMA AllocSound ==
  ASSUME NEW min \in Nat, NEW max \in Nat \ {0}
  PROVE  JitterBufferSound(jbuf_alloc(min, max))
<1>1. 0 \in Seqs BY WrapAssumption DEF Seqs
<1> QED BY <1>1 DEF jbuf_alloc, JitterBufferSound, Sorted, FramesCounted, JitterBuffers

-----------------------------------------------------------------------------
(* The devices.                                                             *)

Same(a, b) == a = b \/ Equal(a, b)

PlayerSound(r) ==
  /\ r = [ac |-> r.ac, dec |-> r.dec, pt |-> r.pt, auplay |-> r.auplay,
          aubuf |-> r.aubuf, resamp |-> r.resamp]
  /\ "alloc" \in DOMAIN r.aubuf
  /\ r.auplay # 0 => r.aubuf.alloc

SourceSound(t) ==
  /\ t = [ac |-> t.ac, enc |-> t.enc, ausrc |-> t.ausrc, aubuf |-> t.aubuf]
  /\ t.ausrc # 0 => t.aubuf

(* The devices while their threads are at p and s.                          *)
Good(a, p, s) ==
  /\ a = [rx |-> a.rx, tx |-> a.tx, err |-> a.err]
  /\ PlayerSound(a.rx) /\ SourceSound(a.tx)
  /\ p = "reading" => a.rx.auplay # 0
  /\ s # None => a.tx.ausrc # 0 /\ Same(s, a.tx.ac)

LEMMA ReadKeeps ==
  ASSUME NEW ab, "alloc" \in DOMAIN ab, NEW sz
  PROVE  "alloc" \in DOMAIN aubuf_read(ab, sz) /\ aubuf_read(ab, sz).alloc = ab.alloc
BY DEF aubuf_read

LEMMA AppendKeeps ==
  ASSUME NEW ab, "alloc" \in DOMAIN ab, NEW f
  PROVE  "alloc" \in DOMAIN aubuf_append(ab, f) /\ aubuf_append(ab, f).alloc = ab.alloc
BY DEF aubuf_append

(* The records of a receiver, a transmitter and both.                       *)
Aurx(ac, dec, pt, auplay, aubuf, resamp) ==
  [ac |-> ac, dec |-> dec, pt |-> pt, auplay |-> auplay, aubuf |-> aubuf, resamp |-> resamp]
Autx(ac, enc, ausrc, aubuf) == [ac |-> ac, enc |-> enc, ausrc |-> ausrc, aubuf |-> aubuf]
Devices(r, t, err) == [rx |-> r, tx |-> t, err |-> err]


LEMMA PlayerIs ==
  ASSUME NEW r, r = Aurx(r.ac, r.dec, r.pt, r.auplay, r.aubuf, r.resamp), NEW bad
  PROVE  LET dsp == DevSize(r.ac)
             rs == IF r.resamp = 0 /\ dsp # Size(r.ac) THEN Size(r.ac) ELSE r.resamp
             ab == IF r.auplay = 0 /\ ~r.aubuf.alloc THEN Buffer(dsp) ELSE r.aubuf
         IN start_player(r, bad) =
              IF r.ac = None THEN r
              ELSE IF r.auplay # 0 \/ bad = "player"
              THEN Aurx(r.ac, r.dec, r.pt, r.auplay, ab, rs)
              ELSE Aurx(r.ac, r.dec, r.pt, dsp, aubuf_read(ab, dsp), rs)
<1> DEFINE dsp == DevSize(r.ac)
           rs == IF r.resamp = 0 /\ dsp # Size(r.ac) THEN Size(r.ac) ELSE r.resamp
           ab == IF r.auplay = 0 /\ ~r.aubuf.alloc THEN Buffer(dsp) ELSE r.aubuf
           read == aubuf_read(ab, dsp)
           m == [r EXCEPT !.resamp = rs]
           opened == [m EXCEPT !.aubuf = ab]
           n == [opened EXCEPT !.auplay = dsp]
           playing == [n EXCEPT !.aubuf = read]
<1>1. start_player(r, bad) =
        IF r.ac = None THEN r
        ELSE IF r.auplay # 0 \/ bad = "player" THEN opened ELSE playing
  BY DEF start_player, Aurx
<1> HIDE DEF dsp, rs, ab, read
<1>2. m = Aurx(r.ac, r.dec, r.pt, r.auplay, r.aubuf, rs) BY DEF Aurx
<1> HIDE DEF m
<1>3. opened = Aurx(r.ac, r.dec, r.pt, r.auplay, ab, rs) BY <1>2 DEF Aurx
<1> HIDE DEF opened
<1>4. n = Aurx(r.ac, r.dec, r.pt, dsp, ab, rs) BY <1>3 DEF Aurx
<1> HIDE DEF n
<1>5. playing = Aurx(r.ac, r.dec, r.pt, dsp, read, rs) BY <1>4 DEF Aurx
<1> HIDE DEF playing
<1> QED BY <1>1, <1>3, <1>5 DEF dsp, rs, ab, read

LEMMA SourceIs ==
  ASSUME NEW t, t = Autx(t.ac, t.enc, t.ausrc, t.aubuf), NEW bad
  PROVE  LET src == IF bad = "source" THEN 0 ELSE DevSize(t.ac)
         IN start_source(t, bad) =
              IF t.ac = None \/ t.ausrc # 0 THEN t ELSE Autx(t.ac, t.enc, src, TRUE)
<1> DEFINE yes == TRUE
<1> HIDE DEF yes
<1> DEFINE src == IF bad = "source" THEN 0 ELSE DevSize(t.ac)
           m == [t EXCEPT !.aubuf = yes]
           started == [m EXCEPT !.ausrc = src]
<1>1. m = Autx(t.ac, t.enc, t.ausrc, yes) BY DEF Autx
<1>2. start_source(t, bad) = IF t.ac = None \/ t.ausrc # 0 THEN t ELSE started
  BY DEF start_source, yes
<1> HIDE DEF m, src
<1>3. started = Autx(t.ac, t.enc, src, yes) BY <1>1 DEF Autx
<1> HIDE DEF started
<1> QED BY <1>2, <1>3 DEF yes, src

LEMMA EncoderIs ==
  ASSUME NEW a, a = Devices(a.rx, a.tx, a.err),
         a.tx = Autx(a.tx.ac, a.tx.enc, a.tx.ausrc, a.tx.aubuf), NEW c, NEW bad
  PROVE  LET t == a.tx
             e == IF c = t.ac THEN t.enc ELSE FALSE
             src == IF c = t.ac THEN t.ausrc ELSE IF ClosesSource(t, c) THEN 0 ELSE t.ausrc
             on == Devices(a.rx, Autx(c, TRUE, src, t.aubuf), a.err)
         IN audio_encoder_set(a, c, bad) =
              IF bad = "encoder" THEN Devices(a.rx, Autx(c, e, src, t.aubuf), TRUE)
              ELSE IF src # 0 THEN on ELSE audio_start(on, bad)
<1> DEFINE yes == TRUE
           no == FALSE
<1> HIDE DEF yes, no
<1> DEFINE t == a.tx
           e == IF c = t.ac THEN t.enc ELSE no
           close == IF ClosesSource(t, c) THEN 0 ELSE t.ausrc
           src == IF c = t.ac THEN t.ausrc ELSE close
           m == [t EXCEPT !.ausrc = close]
           n == [m EXCEPT !.enc = no]
           u == IF c = t.ac THEN t ELSE [n EXCEPT !.ac = c]
           v == [u EXCEPT !.enc = yes]
           set == [a EXCEPT !.tx = u]
           failed == [set EXCEPT !.err = yes]
           on == [a EXCEPT !.tx = v]
<1>1. a = Devices(a.rx, t, a.err) /\ a.tx = t /\ t = Autx(t.ac, t.enc, t.ausrc, t.aubuf)
  OBVIOUS
<1> HIDE DEF t, close
<1>2. m = Autx(t.ac, t.enc, close, t.aubuf) BY <1>1 DEF Autx
<1> HIDE DEF m
<1>3. n = Autx(t.ac, no, close, t.aubuf) BY <1>2 DEF Autx
<1>4. [n EXCEPT !.ac = c] = Autx(c, no, close, t.aubuf)
  <2> HIDE DEF n
  <2> QED BY <1>3 DEF Autx
<1>5. [t EXCEPT !.ausrc = close, !.enc = no, !.ac = c] = [n EXCEPT !.ac = c] BY DEF m
<1> HIDE DEF n
<1>6. u = Autx(c, e, src, t.aubuf) BY <1>1, <1>4
<1>7. u.ausrc = src
  <2> HIDE DEF u, src, e
  <2> QED BY <1>6 DEF Autx
<1>8. audio_encoder_set(a, c, bad) =
        IF bad = "encoder" THEN failed
        ELSE IF u.ausrc # 0 THEN on ELSE audio_start(on, bad)
  BY <1>1, <1>5 DEF audio_encoder_set, close, yes, no
<1> HIDE DEF u, src, e
<1>9. v = Autx(c, yes, src, t.aubuf) BY <1>6 DEF Autx
<1> HIDE DEF v
<1>10. set = Devices(a.rx, u, a.err) /\ on = Devices(a.rx, v, a.err) BY <1>1 DEF Devices
<1> HIDE DEF set, on
<1>11. failed = Devices(a.rx, u, yes) BY <1>10 DEF Devices
<1> HIDE DEF failed
<1> QED BY <1>6, <1>7, <1>8, <1>9, <1>10, <1>11 DEF yes, no, e, src, close, t

LEMMA DecoderIs ==
  ASSUME NEW a, a = Devices(a.rx, a.tx, a.err),
         a.rx = Aurx(a.rx.ac, a.rx.dec, a.rx.pt, a.rx.auplay, a.rx.aubuf, a.rx.resamp),
         NEW c, NEW bad
  PROVE  LET r == a.rx
             e == IF c = r.ac THEN r.dec ELSE FALSE
             y == IF c = r.ac THEN r.pt ELSE c
         IN audio_decoder_set(a, c, bad) =
              IF bad = "decoder"
              THEN Devices(Aurx(c, e, y, r.auplay, r.aubuf, r.resamp), a.tx, TRUE)
              ELSE IF Equal(c, r.ac)
              THEN Devices(Aurx(c, TRUE, y, r.auplay, r.aubuf, r.resamp), a.tx, a.err)
              ELSE audio_start(Devices(Aurx(c, TRUE, y, 0, r.aubuf, r.resamp), a.tx, a.err), bad)
<1> DEFINE yes == TRUE
           no == FALSE
<1> HIDE DEF yes, no
<1> DEFINE r == a.rx
           e == IF c = r.ac THEN r.dec ELSE no
           y == IF c = r.ac THEN r.pt ELSE c
           m == [r EXCEPT !.pt = c]
           n == [m EXCEPT !.ac = c]
           u == IF c = r.ac THEN r ELSE [n EXCEPT !.dec = no]
           d == [u EXCEPT !.dec = yes]
           closed == [d EXCEPT !.auplay = 0]
           set == [a EXCEPT !.rx = u]
           failed == [set EXCEPT !.err = yes]
           on == [a EXCEPT !.rx = d]
           off == [a EXCEPT !.rx = closed]
<1>1. /\ a = Devices(r, a.tx, a.err) /\ a.rx = r
      /\ r = Aurx(r.ac, r.dec, r.pt, r.auplay, r.aubuf, r.resamp)
  OBVIOUS
<1> HIDE DEF r
<1>2. m = Aurx(r.ac, r.dec, c, r.auplay, r.aubuf, r.resamp) BY <1>1 DEF Aurx
<1>3. [r EXCEPT !.pt = c, !.ac = c, !.dec = no] = [n EXCEPT !.dec = no] OBVIOUS
<1> HIDE DEF m
<1>4. n = Aurx(c, r.dec, c, r.auplay, r.aubuf, r.resamp) BY <1>2 DEF Aurx
<1> HIDE DEF n
<1>5. [n EXCEPT !.dec = no] = Aurx(c, no, c, r.auplay, r.aubuf, r.resamp)
  BY <1>4 DEF Aurx
<1>6. u = Aurx(c, e, y, r.auplay, r.aubuf, r.resamp) BY <1>1, <1>5
<1>7. [u EXCEPT !.dec = yes, !.auplay = 0] = closed
  <2> HIDE DEF u
  <2> QED OBVIOUS
<1>8. audio_decoder_set(a, c, bad) =
        IF bad = "decoder" THEN failed
        ELSE IF Equal(c, r.ac) THEN on ELSE audio_start(off, bad)
  BY <1>1, <1>3, <1>7 DEF audio_decoder_set, yes, no
<1> HIDE DEF u, e, y
<1>9. d = Aurx(c, yes, y, r.auplay, r.aubuf, r.resamp) BY <1>6 DEF Aurx
<1> HIDE DEF d
<1>10. closed = Aurx(c, yes, y, 0, r.aubuf, r.resamp) BY <1>9 DEF Aurx
<1> HIDE DEF closed
<1>11. /\ set = Devices(u, a.tx, a.err) /\ on = Devices(d, a.tx, a.err)
       /\ off = Devices(closed, a.tx, a.err)
  BY <1>1 DEF Devices
<1> HIDE DEF set, on, off
<1>12. failed = Devices(u, a.tx, yes) BY <1>11 DEF Devices
<1> HIDE DEF failed
<1> QED BY <1>6, <1>8, <1>9, <1>10, <1>11, <1>12 DEF yes, no, e, y, r

LEMMA PlayerStarts ==
  ASSUME NEW r, PlayerSound(r), NEW bad
  PROVE  /\ PlayerSound(start_player(r, bad)) /\ start_player(r, bad).ac = r.ac
         /\ r.auplay # 0 => start_player(r, bad).auplay # 0
<1> DEFINE dsp == DevSize(r.ac)
           rs == IF r.resamp = 0 /\ dsp # Size(r.ac) THEN Size(r.ac) ELSE r.resamp
           ab == IF r.auplay = 0 /\ ~r.aubuf.alloc THEN Buffer(dsp) ELSE r.aubuf
           read == aubuf_read(ab, dsp)
           opened == Aurx(r.ac, r.dec, r.pt, r.auplay, ab, rs)
           playing == Aurx(r.ac, r.dec, r.pt, dsp, read, rs)
<1>1. start_player(r, bad) =
        IF r.ac = None THEN r
        ELSE IF r.auplay # 0 \/ bad = "player" THEN opened ELSE playing
  <2>1. r = Aurx(r.ac, r.dec, r.pt, r.auplay, r.aubuf, r.resamp) BY DEF PlayerSound, Aurx
  <2> QED BY <2>1, PlayerIs
<1>2. "alloc" \in DOMAIN ab /\ (r.auplay = 0 => ab.alloc) /\ (r.aubuf.alloc => ab.alloc)
  BY DEF PlayerSound, Buffer
<1>3. "alloc" \in DOMAIN read /\ read.alloc = ab.alloc
  <2> HIDE DEF ab, dsp
  <2> QED BY <1>2, ReadKeeps
<1> HIDE DEF dsp, rs, ab, read
<1>4. PlayerSound(opened) /\ opened.ac = r.ac /\ opened.auplay = r.auplay
  BY <1>2 DEF PlayerSound, Aurx
<1>5. playing.ac = r.ac /\ (r.auplay = 0 => PlayerSound(playing))
  BY <1>2, <1>3 DEF PlayerSound, Aurx
<1> HIDE DEF opened, playing
<1> QED BY <1>1, <1>4, <1>5

LEMMA SourceStarts ==
  ASSUME NEW t, SourceSound(t), NEW bad
  PROVE  /\ SourceSound(start_source(t, bad)) /\ start_source(t, bad).ac = t.ac
         /\ t.ausrc # 0 => start_source(t, bad).ausrc # 0
BY DEF SourceSound, start_source

LEMMA BothStart ==
  ASSUME NEW a, NEW p, NEW s, Good(a, p, s), NEW bad
  PROVE  Good(audio_start(a, bad), p, s)
<1> DEFINE r == start_player(a.rx, bad)
           t == start_source(a.tx, bad)
<1>1. PlayerSound(r) /\ (a.rx.auplay # 0 => r.auplay # 0) BY PlayerStarts DEF Good
<1>2. SourceSound(t) /\ t.ac = a.tx.ac /\ (a.tx.ausrc # 0 => t.ausrc # 0)
  BY SourceStarts DEF Good
<1>3. \E e : audio_start(a, bad) = [rx |-> r, tx |-> t, err |-> e] BY DEF audio_start
<1> HIDE DEF r, t
<1> QED BY <1>1, <1>2, <1>3 DEF Good

(* A codec of the same rate leaves the source running, and any other waits  *)
(* until the source is out of its callback.                                 *)
LEMMA EncoderSet ==
  ASSUME NEW a, NEW p, NEW s, Good(a, p, s), NEW c, NEW bad,
         ClosesSource(a.tx, c) => s = None
  PROVE  Good(audio_encoder_set(a, c, bad), p, s)
<1> DEFINE t == a.tx
           e == IF c = t.ac THEN t.enc ELSE FALSE
           src == IF c = t.ac THEN t.ausrc ELSE IF ClosesSource(t, c) THEN 0 ELSE t.ausrc
           yes == TRUE
           u == Autx(c, e, src, t.aubuf)
           v == Autx(c, yes, src, t.aubuf)
           failed == Devices(a.rx, u, yes)
           on == Devices(a.rx, v, a.err)
<1>0. /\ a = Devices(a.rx, t, a.err) /\ PlayerSound(a.rx)
      /\ p = "reading" => a.rx.auplay # 0
      /\ s # None => t.ausrc # 0 /\ Same(s, t.ac)
      /\ t = Autx(t.ac, t.enc, t.ausrc, t.aubuf)
      /\ t.ausrc # 0 => t.aubuf
  BY DEF Good, SourceSound, Autx, Devices
<1>1. audio_encoder_set(a, c, bad) =
        IF bad = "encoder" THEN failed ELSE IF src # 0 THEN on ELSE audio_start(on, bad)
  <2>1. t = Autx(t.ac, t.enc, t.ausrc, t.aubuf) /\ a = Devices(a.rx, t, a.err) BY <1>0
  <2> QED BY <2>1, EncoderIs
<1>2. /\ src # 0 => t.ausrc # 0
      /\ s # None => src = t.ausrc /\ Same(c, t.ac)
  BY DEF ClosesSource, Same
<1> HIDE DEF t, e, src, yes
<1>3. s # None => src # 0 /\ Same(s, c) BY <1>0, <1>2 DEF Same, Equal
<1>4. /\ u.ac = c /\ u.ausrc = src /\ SourceSound(u)
      /\ v.ac = c /\ v.ausrc = src /\ SourceSound(v)
  BY <1>0, <1>2 DEF SourceSound, Autx
<1> HIDE DEF u, v
<1>5. Good(failed, p, s) /\ Good(on, p, s) BY <1>0, <1>3, <1>4 DEF Good, Devices
<1> HIDE DEF failed, on
<1>6. Good(audio_start(on, bad), p, s) BY <1>5, BothStart
<1> QED BY <1>1, <1>5, <1>6

LEMMA DecoderSet ==
  ASSUME NEW a, NEW p, NEW s, Good(a, p, s), NEW c, NEW bad,
         ClosesPlayer(a.rx, c, bad) => p = "idle"
  PROVE  Good(audio_decoder_set(a, c, bad), p, s)
<1> DEFINE r == a.rx
           e == IF c = r.ac THEN r.dec ELSE FALSE
           y == IF c = r.ac THEN r.pt ELSE c
           yes == TRUE
           u == Aurx(c, e, y, r.auplay, r.aubuf, r.resamp)
           v == Aurx(c, yes, y, r.auplay, r.aubuf, r.resamp)
           w == Aurx(c, yes, y, 0, r.aubuf, r.resamp)
           failed == Devices(u, a.tx, yes)
           on == Devices(v, a.tx, a.err)
           off == Devices(w, a.tx, a.err)
<1>0. /\ a = Devices(r, a.tx, a.err) /\ a.rx = r /\ SourceSound(a.tx)
      /\ p = "reading" => r.auplay # 0
      /\ s # None => a.tx.ausrc # 0 /\ Same(s, a.tx.ac)
      /\ r = Aurx(r.ac, r.dec, r.pt, r.auplay, r.aubuf, r.resamp)
      /\ "alloc" \in DOMAIN r.aubuf /\ (r.auplay # 0 => r.aubuf.alloc)
  BY DEF Good, PlayerSound, Aurx, Devices
<1>1. audio_decoder_set(a, c, bad) =
        IF bad = "decoder" THEN failed
        ELSE IF Equal(c, r.ac) THEN on ELSE audio_start(off, bad)
  <2>1. /\ r = Aurx(r.ac, r.dec, r.pt, r.auplay, r.aubuf, r.resamp)
        /\ a = Devices(a.rx, a.tx, a.err)
    BY <1>0
  <2> QED BY <2>1, DecoderIs
<1> HIDE DEF r, e, y, yes
<1>2. /\ PlayerSound(u) /\ u.auplay = r.auplay
      /\ PlayerSound(v) /\ v.auplay = r.auplay
      /\ PlayerSound(w)
  BY <1>0 DEF PlayerSound, Aurx
<1> HIDE DEF u, v, w
<1>3. Good(failed, p, s) /\ Good(on, p, s) BY <1>0, <1>2 DEF Good, Devices
<1>4. ASSUME bad # "decoder", ~Equal(c, r.ac) PROVE Good(audio_start(off, bad), p, s)
  <2>1. p = "idle" BY <1>0, <1>4 DEF ClosesPlayer
  <2>2. Good(off, p, s) BY <1>0, <1>2, <2>1 DEF Good, Devices
  <2> HIDE DEF off
  <2> QED BY <2>2, BothStart
<1> HIDE DEF failed, on, off
<1> QED BY <1>1, <1>3, <1>4

LEMMA DecodedKeeps ==
  ASSUME NEW a, NEW p, NEW s, Good(a, p, s), NEW k
  PROVE  /\ Good(Decoded(a, k), p, s)
         /\ Decoded(a, k).rx.ac = a.rx.ac /\ Decoded(a, k).rx.pt = a.rx.pt
<1> DEFINE r == aurx_stream_decode(a.rx, k)
<1>1. r = a.rx \/ \E n : r = [a.rx EXCEPT !.aubuf = aubuf_append(a.rx.aubuf, n)]
  BY DEF aurx_stream_decode, Good, PlayerSound
<1>2. PlayerSound(r) /\ r.auplay = a.rx.auplay /\ r.ac = a.rx.ac /\ r.pt = a.rx.pt
  BY <1>1, AppendKeeps DEF Good, PlayerSound
<1>3. Decoded(a, k) = [a EXCEPT !.rx = r] BY DEF Decoded, Good
<1> HIDE DEF r
<1> QED BY <1>2, <1>3 DEF Good

LEMMA PacketDecoded ==
  ASSUME NEW a, NEW p, NEW s, Good(a, p, s), NEW k, NEW bad,
         NewPayloadType(a.rx, k) /\ ClosesPlayer(a.rx, PayloadType(k), bad) => p = "idle"
  PROVE  Good(stream_recv_handler(a, k, bad), p, s)
<1> DEFINE new == [a EXCEPT !.rx.pt = PayloadType(k)]
           set == audio_decoder_set(new, PayloadType(k), bad)
<1>1. stream_recv_handler(a, k, bad) =
        IF k \in Others THEN a
        ELSE IF NewPayloadType(a.rx, k) THEN IF set.err THEN set ELSE Decoded(set, k)
        ELSE Decoded(a, k)
  BY DEF stream_recv_handler
<1>2. Good(new, p, s) /\ new.rx.ac = a.rx.ac BY DEF Good, PlayerSound
<1>3. ClosesPlayer(new.rx, PayloadType(k), bad) <=> ClosesPlayer(a.rx, PayloadType(k), bad)
  BY <1>2 DEF ClosesPlayer
<1> HIDE DEF new
<1>4. NewPayloadType(a.rx, k) => Good(set, p, s) BY <1>2, <1>3, DecoderSet
<1> HIDE DEF set
<1>5. Good(Decoded(a, k), p, s) BY DecodedKeeps
<1>6. Good(set, p, s) => Good(Decoded(set, k), p, s) BY DecodedKeeps
<1> QED BY <1>1, <1>4, <1>5, <1>6

(* The frame a packet is made into.                                         *)
LEMMA PacketFrame ==
  ASSUME NEW k \in Packets
  PROVE  [seq |-> Number(k), mem |-> k] \in Frame
<1> DEFINE older == {s \in Sources : s <= k}
<1>1. IsFiniteSet(older)
  <2>1. older \subseteq Packets BY AudioStreamAssumption
  <2> HIDE DEF older
  <2> QED BY <2>1, AudioStreamAssumption, FS_Subset
<1>2. Ssrc(k) \in Nat
  <2> HIDE DEF older
  <2>1. Cardinality(older) \in Nat BY <1>1, FS_CardinalityType
  <2> QED BY <2>1 DEF Ssrc, older
<1> DEFINE i == FirstSeq + 5 * (Ssrc(k) - 1) + k
<1>3. i \in Int BY <1>2, AudioStreamAssumption, WrapAssumption DEF Seqs
<1>4. i % Wrap \in 0..(Wrap - 1)
  <2> HIDE DEF i
  <2> QED BY <1>3, WrapAssumption
<1>5. Number(k) = i % Wrap BY DEF Number
<1> HIDE DEF i
<1> QED BY <1>4, <1>5 DEF Frame, Seqs

(* One frame in and one out keeps the buffer at min frames.                 *)
LEMMA PutCounts ==
  ASSUME NEW b, JitterBufferSound(b), NEW f \in Frame
  PROVE  /\ jbuf_put(b, f).min = b.min /\ jbuf_put(b, f).max = b.max
         /\ b.n < b.max => jbuf_put(b, f).n <= b.n + 1
<1>1. /\ b \in JitterBuffers /\ b.pool + b.n = b.max /\ b.n \in Int /\ b.pool \in Nat
      /\ b.max \in Nat
  BY DEF JitterBufferSound, FramesCounted, JitterBuffers
<1> DEFINE got == frame_alloc(b)
<1>2. /\ got.min = b.min /\ got.max = b.max
      /\ b.pool > 0 => got.n = b.n + 1
      /\ got \in JitterBuffers
  <2>1. got \in JitterBuffers BY AllocTakes DEF OneOut
  <2>2. CASE b.pool > 0
    <3>1. got = [b EXCEPT !.pool = @ - 1, !.n = @ + 1] BY <2>2 DEF frame_alloc
    <3> HIDE DEF got
    <3> QED BY <1>1, <2>1, <3>1 DEF JitterBuffers
  <2>3. CASE ~(b.pool > 0)
    <3>1. got = [b EXCEPT !.framel = Tail(@)] BY <2>3 DEF frame_alloc
    <3> HIDE DEF got
    <3> QED BY <1>1, <2>1, <2>3, <3>1 DEF JitterBuffers
  <2> QED BY <2>2, <2>3
<1> HIDE DEF got
<1>3. CASE TooLate(b, f.seq) BY <1>1, <1>3 DEF jbuf_put
<1>4. CASE ~TooLate(b, f.seq) /\ Duplicate(b, f.seq)
  <2>1. jbuf_put(b, f) = [got EXCEPT !.pool = @ + 1, !.n = @ - 1]
    BY <1>4 DEF jbuf_put, got
  <2>2. /\ jbuf_put(b, f).min = got.min /\ jbuf_put(b, f).max = got.max
        /\ jbuf_put(b, f).n = got.n - 1
    BY <1>2, <2>1 DEF JitterBuffers
  <2> QED BY <1>1, <1>2, <2>2
<1>5. CASE ~TooLate(b, f.seq) /\ ~Duplicate(b, f.seq)
  <2>1. jbuf_put(b, f) =
          [got EXCEPT !.framel = InsertAt(@, Place(@, f.seq) + 1, f),
                      !.running = TRUE, !.seq_put = f.seq]
    BY <1>5 DEF jbuf_put, got
  <2>2. /\ jbuf_put(b, f).min = got.min /\ jbuf_put(b, f).max = got.max
        /\ jbuf_put(b, f).n = got.n
    BY <1>2, <2>1 DEF JitterBuffers
  <2> QED BY <1>1, <1>2, <2>2
<1> QED BY <1>3, <1>4, <1>5

LEMMA GetCounts ==
  ASSUME NEW b, JitterBufferSound(b)
  PROVE  /\ jbuf_get(b).min = b.min /\ jbuf_get(b).max = b.max
         /\ b.n <= b.min + 1 => jbuf_get(b).n <= b.min
<1>1. /\ b \in JitterBuffers /\ b.n = Len(b.framel) /\ b.n \in Int /\ b.min \in Nat
      /\ b.framel \in Seq(Frame)
  BY DEF JitterBufferSound, FramesCounted, JitterBuffers
<1>2. CASE HasFrame(b)
  <2>1. jbuf_get(b) = [b EXCEPT !.framel = Tail(@), !.pool = @ + 1, !.n = @ - 1]
    BY <1>2 DEF jbuf_get
  <2>2. /\ jbuf_get(b).min = b.min /\ jbuf_get(b).max = b.max /\ jbuf_get(b).n = b.n - 1
    BY <1>1, <2>1 DEF JitterBuffers
  <2> QED BY <1>1, <2>2
<1>3. CASE ~HasFrame(b)
  <2>1. jbuf_get(b) = b BY <1>3 DEF jbuf_get
  <2>2. b.n <= b.min BY <1>1, <1>3 DEF HasFrame
  <2> QED BY <2>1, <2>2
<1> QED BY <1>2, <1>3

LEMMA FlushCounts ==
  ASSUME NEW b, JitterBufferSound(b)
  PROVE  /\ jbuf_flush(b).min = b.min /\ jbuf_flush(b).max = b.max /\ jbuf_flush(b).n = 0
BY DEF jbuf_flush, JitterBufferSound, JitterBuffers

-----------------------------------------------------------------------------
(* The inductive invariant.                                                 *)

(* The jitter buffer is the configured one and waits for no more than min.  *)
Waits == jb.min = cfg.min /\ jb.max = cfg.max /\ NoneIsDelayed

DevicesGood == Good(Audio, player, source)

IInv ==
  /\ cfg.min \in Nat /\ cfg.max \in Nat
  /\ JitterSound /\ Waits /\ DevicesGood

LEMMA Became ==
  ASSUME NEW a, Good(a, player, source), Becomes(a), UNCHANGED <<player, source>>
  PROVE  DevicesGood'
<1>1. /\ PlayerSound(a.rx) /\ SourceSound(a.tx)
      /\ player = "reading" => a.rx.auplay # 0
      /\ source # None => a.tx.ausrc # 0 /\ Same(source, a.tx.ac)
  BY DEF Good
<1>2. rx' = a.rx /\ tx' = a.tx BY DEF Becomes
<1>3. /\ PlayerSound(rx') /\ SourceSound(tx')
      /\ player' = "reading" => rx'.auplay # 0
      /\ source' # None => tx'.ausrc # 0 /\ Same(source', tx'.ac)
  BY <1>1, <1>2
<1>4. Good([rx |-> rx', tx |-> tx', err |-> FALSE], player', source') BY <1>3 DEF Good
<1> QED BY <1>4 DEF DevicesGood, Audio

LEMMA Handled ==
  ASSUME DevicesGood, NEW a, a = Audio \/ a = Decoded(Audio, 0), NEW k, NEW bad,
         NewPayloadType(rx, k) /\ ClosesPlayer(rx, PayloadType(k), bad) => player = "idle"
  PROVE  Good(stream_recv_handler(a, k, bad), player, source)
<1>1. Good(Audio, player, source) /\ Audio.rx = rx BY DEF DevicesGood, Audio
<1>2. Good(a, player, source) /\ a.rx.ac = rx.ac /\ a.rx.pt = rx.pt
  <2> DEFINE d == Decoded(Audio, 0)
  <2>1. Good(d, player, source) /\ d.rx.ac = Audio.rx.ac /\ d.rx.pt = Audio.rx.pt
    BY <1>1, DecodedKeeps
  <2> HIDE DEF d
  <2>2. CASE a = d BY <1>1, <2>1, <2>2
  <2>3. CASE a = Audio BY <1>1, <2>3
  <2> QED BY <2>2, <2>3 DEF d
<1>3. NewPayloadType(a.rx, k) <=> NewPayloadType(rx, k) BY <1>2 DEF NewPayloadType
<1>4. ClosesPlayer(a.rx, PayloadType(k), bad) <=> ClosesPlayer(rx, PayloadType(k), bad)
  BY <1>2 DEF ClosesPlayer
<1> QED BY <1>2, <1>3, <1>4, PacketDecoded

(* A frame the stream gives to the decoder.                                 *)
LEMMA Delivered ==
  ASSUME DevicesGood, NEW STATE st, NEW STATE seq, NEW STATE k, NEW bad,
         Deliver(st, seq, k, bad), UNCHANGED <<player, source>>
  PROVE  DevicesGood'
<1> DEFINE a == IF lostcalc(seq) > 0 THEN Decoded(Audio, 0) ELSE Audio
           b == stream_recv_handler(a, k, bad)
<1>1. /\ NewPayloadType(rx, k) /\ ClosesPlayer(rx, PayloadType(k), bad) => player = "idle"
      /\ Becomes(b)
  BY DEF Deliver
<1>2. a = Audio \/ a = Decoded(Audio, 0) OBVIOUS
<1> HIDE DEF a
<1>3. Good(b, player, source) BY <1>1, <1>2, Handled
<1> HIDE DEF b
<1> QED BY <1>1, <1>3, Became

LEMMA InitInv ==
  ASSUME Init
  PROVE  IInv
<1>1. cfg.min \in Nat /\ cfg.max \in Nat BY AudioStreamAssumption DEF Init
<1>2. jb = jbuf_alloc(cfg.min, cfg.max) BY DEF Init
<1>3. JitterSound BY <1>1, <1>2, AllocSound DEF JitterSound, HasJbuf
<1>4. Waits BY <1>1, <1>2 DEF Waits, NoneIsDelayed, jbuf_alloc
<1>5. /\ PlayerSound(rx) /\ SourceSound(tx) /\ player = "idle" /\ source = None
  BY DEF Init, PlayerSound, SourceSound, NoBuffer
<1>6. DevicesGood BY <1>5 DEF DevicesGood, Good, Audio
<1> QED BY <1>1, <1>3, <1>4, <1>6 DEF IInv

(* A packet arrives: in the jitter buffer one goes in and one comes out.    *)
LEMMA ReceiveKeeps ==
  ASSUME IInv, NEW k \in Packets, Receive(k)
  PROVE  IInv'
<1>1. PICK bad \in Troubles : rtp_recv(k, bad) BY DEF Receive
<1>2. UNCHANGED <<cfg, player, source>> BY DEF Receive
<1> DEFINE new == strm.ssrc_rx \notin {0, Ssrc(k)}
           old == IF new THEN jbuf_flush(jb) ELSE jb
           frame == [seq |-> Number(k), mem |-> k]
           put == jbuf_put(old, frame)
           s == [strm EXCEPT !.ssrc_rx = Ssrc(k)]
           started == [s EXCEPT !.started = TRUE]
<1>3. \/ jb' = jb
      \/ HasJbuf /\ jb' = jbuf_get(put)
  BY <1>1 DEF rtp_recv
<1>4. \/ UNCHANGED <<rx, tx>>
      \/ Deliver(s, Number(k), k, bad)
      \/ Deliver(started, Head(put.framel).seq, Head(put.framel).mem, bad)
      \/ Deliver(started, 0, 0, bad)
  BY <1>1 DEF rtp_recv
<1> HIDE DEF s, started
<1>5. HasJbuf => JitterBufferSound(old) /\ old.min = cfg.min /\ old.max = cfg.max
                 /\ (cfg.min < cfg.max => old.n <= cfg.min)
  BY FlushSound, FlushCounts DEF IInv, JitterSound, Waits, NoneIsDelayed
<1> HIDE DEF old
<1>6. HasJbuf => JitterBufferSound(put) /\ put.min = cfg.min /\ put.max = cfg.max
                 /\ (cfg.min < cfg.max => put.n <= cfg.min + 1)
  <2> SUFFICES ASSUME HasJbuf
               PROVE  JitterBufferSound(put) /\ put.min = cfg.min /\ put.max = cfg.max
                      /\ (cfg.min < cfg.max => put.n <= cfg.min + 1)
    OBVIOUS
  <2>1. frame \in Frame BY PacketFrame
  <2> HIDE DEF frame
  <2>2. JitterBufferSound(old) /\ JitterBufferSound(put) BY <1>5, <2>1, PutSound
  <2>3. put.min = old.min /\ put.max = old.max /\ (old.n < old.max => put.n <= old.n + 1)
    BY <2>1, <2>2, PutCounts
  <2>4. old.n \in Int /\ put.n \in Int /\ cfg.min \in Nat /\ cfg.max \in Nat
    BY <2>2 DEF JitterBufferSound, JitterBuffers, IInv
  <2> HIDE DEF put
  <2> QED BY <1>5, <2>2, <2>3, <2>4
<1> HIDE DEF put
<1>7. JitterSound' /\ Waits'
  <2>1. CASE jb' = jb
    BY <1>2, <2>1 DEF IInv, JitterSound, HasJbuf, Waits, NoneIsDelayed
  <2>2. CASE HasJbuf /\ jb' = jbuf_get(put)
    <3>1. /\ JitterBufferSound(jb') /\ jb'.min = put.min /\ jb'.max = put.max
          /\ put.n <= put.min + 1 => jb'.n <= put.min
      BY <1>6, <2>2, GetSound, GetCounts
    <3> QED BY <1>2, <1>6, <2>2, <3>1 DEF JitterSound, HasJbuf, Waits, NoneIsDelayed
  <2> QED BY <1>3, <2>1, <2>2
<1>8. DevicesGood'
  <2>1. CASE UNCHANGED <<rx, tx>> BY <1>2, <2>1 DEF IInv, DevicesGood, Audio
  <2>2. CASE Deliver(s, Number(k), k, bad) BY <1>2, <2>2, Delivered DEF IInv
  <2>3. CASE Deliver(started, Head(put.framel).seq, Head(put.framel).mem, bad)
    BY <1>2, <2>3, Delivered DEF IInv
  <2>4. CASE Deliver(started, 0, 0, bad) BY <1>2, <2>4, Delivered DEF IInv
  <2> QED BY <1>4, <2>1, <2>2, <2>3, <2>4
<1> QED BY <1>2, <1>7, <1>8 DEF IInv

(* The main thread sets a codec, starts or stops the devices.               *)
LEMMA MainKeeps ==
  ASSUME IInv, Main
  PROVE  IInv'
<1>0. Good(Audio, player, source) /\ Audio.rx = rx /\ Audio.tx = tx
  BY DEF IInv, DevicesGood, Audio
<1>1. ASSUME SetEncoder PROVE IInv'
  <2>1. PICK bad \in Troubles : Becomes(audio_encoder_set(Audio, todo[1][2], bad))
    BY <1>1 DEF SetEncoder
  <2>2. ClosesSource(Audio.tx, todo[1][2]) => source = None BY <1>0, <1>1 DEF SetEncoder
  <2>3. Good(audio_encoder_set(Audio, todo[1][2], bad), player, source)
    BY <1>0, <2>2, EncoderSet
  <2>4. UNCHANGED <<cfg, jb, player, source>> BY <1>1 DEF SetEncoder
  <2>5. DevicesGood' BY <2>1, <2>3, <2>4, Became
  <2> QED BY <2>4, <2>5 DEF IInv, JitterSound, HasJbuf, Waits, NoneIsDelayed
<1>2. ASSUME SetDecoder PROVE IInv'
  <2>1. PICK bad \in Troubles : /\ ClosesPlayer(rx, todo[1][2], bad) => player = "idle"
                                /\ Becomes(audio_decoder_set(Audio, todo[1][2], bad))
    BY <1>2 DEF SetDecoder
  <2>2. ClosesPlayer(Audio.rx, todo[1][2], bad) => player = "idle" BY <1>0, <2>1
  <2>3. Good(audio_decoder_set(Audio, todo[1][2], bad), player, source)
    BY <1>0, <2>2, DecoderSet
  <2>4. UNCHANGED <<cfg, jb, player, source>> BY <1>2 DEF SetDecoder
  <2>5. DevicesGood' BY <2>1, <2>3, <2>4, Became
  <2> QED BY <2>4, <2>5 DEF IInv, JitterSound, HasJbuf, Waits, NoneIsDelayed
<1>3. ASSUME Start PROVE IInv'
  <2>1. PICK bad \in Troubles : Becomes(audio_start(Audio, bad)) BY <1>3 DEF Start
  <2>2. Good(audio_start(Audio, bad), player, source) BY <1>0, BothStart
  <2>3. UNCHANGED <<cfg, jb, player, source>> BY <1>3 DEF Start
  <2>4. DevicesGood' BY <2>1, <2>2, <2>3, Became
  <2> QED BY <2>3, <2>4 DEF IInv, JitterSound, HasJbuf, Waits, NoneIsDelayed
<1>4. ASSUME stream_reset PROVE IInv'
  <2>1. UNCHANGED <<cfg, rx, tx, player, source>> BY <1>4 DEF stream_reset
  <2>2. DevicesGood' BY <2>1 DEF IInv, DevicesGood, Audio
  <2>3. CASE HasJbuf
    <3>1. jb' = jbuf_flush(jb) BY <1>4, <2>3 DEF stream_reset
    <3>2. JitterBufferSound(jb) BY <2>3 DEF IInv, JitterSound
    <3>3. /\ JitterBufferSound(jb') /\ jb'.min = jb.min /\ jb'.max = jb.max /\ jb'.n = 0
      BY <3>1, <3>2, FlushSound, FlushCounts
    <3> QED BY <2>1, <2>2, <3>3 DEF IInv, JitterSound, HasJbuf, Waits, NoneIsDelayed
  <2>4. CASE ~HasJbuf
    <3>1. jb' = jb BY <1>4, <2>4 DEF stream_reset
    <3> QED BY <2>1, <2>2, <3>1 DEF IInv, JitterSound, HasJbuf, Waits, NoneIsDelayed
  <2> QED BY <2>3, <2>4
<1>5. ASSUME stop_tx PROVE IInv'
  <2>1. UNCHANGED <<cfg, jb, rx, player, source>> /\ source = None BY <1>5 DEF stop_tx
  <2>2. PICK x, y : tx = Autx(x, y, tx.ausrc, tx.aubuf)
    BY <1>0 DEF Good, SourceSound, Autx
  <2>3. tx' = Autx(x, y, 0, FALSE)
    <3> DEFINE m == [tx EXCEPT !.ausrc = 0]
    <3>1. tx' = [m EXCEPT !.aubuf = FALSE] BY <1>5 DEF stop_tx
    <3>2. m = Autx(x, y, 0, tx.aubuf) BY <2>2 DEF Autx
    <3> HIDE DEF m
    <3> QED BY <3>1, <3>2 DEF Autx
  <2>4. SourceSound(tx') BY <2>3 DEF SourceSound, Autx
  <2>5. DevicesGood' BY <1>0, <2>1, <2>4 DEF DevicesGood, Good, Audio
  <2> QED BY <2>1, <2>5 DEF IInv, JitterSound, HasJbuf, Waits, NoneIsDelayed
<1>6. ASSUME stop_rx PROVE IInv'
  <2>1. UNCHANGED <<cfg, jb, tx, player, source>> /\ player = "idle" BY <1>6 DEF stop_rx
  <2>2. PICK x, y, z, w : rx = Aurx(x, y, z, rx.auplay, rx.aubuf, w)
    BY <1>0 DEF Good, PlayerSound, Aurx
  <2>3. rx' = Aurx(x, y, z, 0, NoBuffer, w)
    <3> DEFINE m == [rx EXCEPT !.auplay = 0]
    <3>1. rx' = [m EXCEPT !.aubuf = NoBuffer] BY <1>6 DEF stop_rx
    <3>2. m = Aurx(x, y, z, 0, rx.aubuf, w) BY <2>2 DEF Aurx
    <3> HIDE DEF m
    <3> QED BY <3>1, <3>2 DEF Aurx
  <2>4. PlayerSound(rx') BY <2>3 DEF PlayerSound, Aurx, NoBuffer
  <2>5. DevicesGood' BY <1>0, <2>1, <2>4 DEF DevicesGood, Good, Audio
  <2> QED BY <2>1, <2>5 DEF IInv, JitterSound, HasJbuf, Waits, NoneIsDelayed
<1> QED BY <1>1, <1>2, <1>3, <1>4, <1>5, <1>6 DEF Main

(* The devices' threads take a buffer and leave it.                         *)
LEMMA ThreadKeeps ==
  ASSUME IInv, PlayerCallback \/ PlayerReads \/ SourceEncodes \/ SourceReturns
  PROVE  IInv'
<1>0. /\ PlayerSound(rx) /\ SourceSound(tx)
      /\ player = "reading" => rx.auplay # 0
      /\ source # None => tx.ausrc # 0 /\ Same(source, tx.ac)
  BY DEF IInv, DevicesGood, Good, Audio
<1>1. UNCHANGED <<cfg, jb, tx>>
  BY DEF PlayerCallback, PlayerReads, SourceEncodes, SourceReturns
<1>2. ASSUME PlayerCallback PROVE DevicesGood'
  BY <1>0, <1>1, <1>2 DEF PlayerCallback, DevicesGood, Good, Audio
<1>3. ASSUME PlayerReads PROVE DevicesGood'
  <2> DEFINE read == aubuf_read(rx.aubuf, rx.auplay)
  <2>1. rx' = [rx EXCEPT !.aubuf = read] /\ player' = "idle" /\ source' = source
    BY <1>0, <1>3 DEF PlayerReads, PlayerSound
  <2>2. "alloc" \in DOMAIN read /\ read.alloc = rx.aubuf.alloc
    BY <1>0, ReadKeeps DEF PlayerSound
  <2> HIDE DEF read
  <2>3. rx' = Aurx(rx.ac, rx.dec, rx.pt, rx.auplay, read, rx.resamp)
    BY <1>0, <2>1 DEF PlayerSound, Aurx
  <2>4. PlayerSound(rx') BY <1>0, <2>2, <2>3 DEF PlayerSound, Aurx
  <2> QED BY <1>0, <1>1, <2>1, <2>4 DEF DevicesGood, Good, Audio
<1>4. ASSUME SourceEncodes PROVE DevicesGood'
  BY <1>0, <1>1, <1>4 DEF SourceEncodes, DevicesGood, Good, Audio, Same
<1>5. ASSUME SourceReturns PROVE DevicesGood'
  BY <1>0, <1>1, <1>5 DEF SourceReturns, DevicesGood, Good, Audio
<1> QED BY <1>1, <1>2, <1>3, <1>4, <1>5 DEF IInv, JitterSound, HasJbuf, Waits, NoneIsDelayed

LEMMA NextKeeps ==
  ASSUME IInv, [Next]_vars
  PROVE  IInv'
<1>1. ASSUME UNCHANGED <<cfg, jb, rx, tx, player, source>> PROVE IInv'
  BY <1>1 DEF IInv, JitterSound, HasJbuf, Waits, NoneIsDelayed, DevicesGood, Audio
<1>2. ASSUME NEW k \in Packets, Receive(k) \/ Lose(k) PROVE IInv'
  BY <1>1, <1>2, ReceiveKeeps DEF Lose
<1>3. ASSUME NEW c \in Codecs, call_stream_start(c) \/ update_media(c) PROVE IInv'
  BY <1>1, <1>3 DEF call_stream_start, update_media, Begins
<1>4. ASSUME call_stream_stop \/ stream_hold PROVE IInv'
  BY <1>1, <1>4 DEF call_stream_stop, stream_hold, Begins
<1>5. CASE UNCHANGED vars BY <1>1, <1>5 DEF vars
<1> QED BY <1>2, <1>3, <1>4, <1>5, MainKeeps, ThreadKeeps DEF Next

-----------------------------------------------------------------------------
(* The theorems.                                                            *)

(* In every state the jitter buffer is sound and holds what it is meant to, *)
(* and each device has what its thread works on (jbuf.c, audio.c).          *)
THEOREM Invariance == Spec => []IInv
BY InitInv, NextKeeps, PTL DEF Spec

(* The jitter buffer never loses count of a frame nor their order, and no   *)
(* thread of a device works on what was freed or replaced, for any codecs,  *)
(* delays and packets (jbuf.c, audio_encoder_set, audio_decoder_set).       *)
THEOREM AudioIsSafe == Spec => []MemorySafety
<1>1. IInv => MemorySafety
  <2> SUFFICES ASSUME IInv PROVE MemorySafety OBVIOUS
  <2>1. /\ PlayerSound(rx) /\ SourceSound(tx)
        /\ player = "reading" => rx.auplay # 0
        /\ source # None => tx.ausrc # 0 /\ Same(source, tx.ac)
    BY DEF IInv, DevicesGood, Good, Audio
  <2>2. DeviceSafe BY <2>1 DEF DeviceSafe, PlayerSound, SourceSound, Same
  <2> QED BY <2>2 DEF IInv, MemorySafety
<1> QED BY <1>1, Invariance, PTL

(* Between packets no more than min frames wait, whatever arrives late,     *)
(* twice or from a new source (jbuf_put, jbuf_get, stream.c:188-199).       *)
THEOREM BufferWaitsForMin == Spec => []NoneIsDelayed
<1>1. IInv => NoneIsDelayed BY DEF IInv, Waits
<1> QED BY <1>1, Invariance, PTL

-----------------------------------------------------------------------------
(* What the decoder is given.                                               *)

(* A whole number of turns more makes no difference.                        *)
LEMMA Turns ==
  ASSUME NEW b \in Nat \ {0}, NEW x \in Int, NEW q \in Int
  PROVE  (x + b * q) % b = x % b
<1> DEFINE y == x + b * q
<1>1. PICK q1 \in Int, r1 \in 0..(b - 1) : r1 = x % b /\ x = b * q1 + r1
  <2> DEFINE d == x \div b
             r == x % b
  <2>1. d \in Int /\ r \in 0..(b - 1) /\ x = b * d + r OBVIOUS
  <2> HIDE DEF d, r
  <2> QED BY <2>1 DEF r
<1>2. y \in Int OBVIOUS
<1> HIDE DEF y
<1>3. PICK q2 \in Int, r2 \in 0..(b - 1) : r2 = y % b /\ y = b * q2 + r2
  <2> DEFINE d == y \div b
             r == y % b
  <2>1. d \in Int /\ r \in 0..(b - 1) /\ y = b * d + r BY <1>2
  <2> HIDE DEF d, r
  <2> QED BY <2>1 DEF r
<1> DEFINE u == q1 + q - q2
<1>4. u \in Int /\ b * u = b * q1 + b * q - b * q2 OBVIOUS
<1>5. y = x + b * q BY DEF y
<1> HIDE DEF u
<1>6. b * u = r2 - r1
  <2> DEFINE m1 == b * q1
             m2 == b * q
             m3 == b * q2
             m4 == b * u
  <2>1. m1 \in Int /\ m2 \in Int /\ m3 \in Int /\ m4 \in Int BY <1>4
  <2>2. /\ x = m1 + r1 /\ y = m3 + r2 /\ y = x + m2 /\ m4 = m1 + m2 - m3
    BY <1>1, <1>3, <1>4, <1>5
  <2> HIDE DEF m1, m2, m3, m4
  <2>3. m4 = r2 - r1 BY <1>2, <2>1, <2>2
  <2> QED BY <2>3 DEF m4
<1>7. CASE u >= 1
  <2>1. b * u >= b BY <1>4, <1>7
  <2> QED BY <1>6, <2>1
<1>8. CASE u <= -1
  <2>1. b * u <= b * (-1) BY <1>4, <1>8
  <2> QED BY <1>6, <2>1
<1>9. CASE u = 0
  <2>1. b * u = 0 BY <1>9
  <2>2. r2 = r1 BY <1>6, <2>1
  <2> QED BY <1>1, <1>3, <2>2 DEF y
<1> QED BY <1>4, <1>7, <1>8, <1>9

(* The distance of two numbers is that of what they were made from.         *)
LEMMA TurnsApart ==
  ASSUME NEW b \in Nat \ {0}, NEW x \in Int, NEW y \in Int
  PROVE  ((x % b) - (y % b)) % b = (x - y) % b
<1>1. PICK q1 \in Int, r1 \in Int : r1 = x % b /\ x = b * q1 + r1
  <2> DEFINE d == x \div b
             r == x % b
  <2>1. d \in Int /\ r \in 0..(b - 1) /\ x = b * d + r OBVIOUS
  <2> HIDE DEF d, r
  <2> QED BY <2>1 DEF r
<1>2. PICK q2 \in Int, r2 \in Int : r2 = y % b /\ y = b * q2 + r2
  <2> DEFINE d == y \div b
             r == y % b
  <2>1. d \in Int /\ r \in 0..(b - 1) /\ y = b * d + r OBVIOUS
  <2> HIDE DEF d, r
  <2> QED BY <2>1 DEF r
<1>3. b * (q1 - q2) = b * q1 - b * q2 OBVIOUS
<1>4. x - y = (r1 - r2) + b * (q1 - q2)
  <2> PICK m1 \in Int, m2 \in Int, m3 \in Int :
         m1 = b * q1 /\ m2 = b * q2 /\ m3 = b * (q1 - q2) OBVIOUS
  <2> QED BY <1>1, <1>2, <1>3
<1>5. r1 - r2 \in Int /\ q1 - q2 \in Int OBVIOUS
<1>6. ((r1 - r2) + b * (q1 - q2)) % b = (r1 - r2) % b BY <1>5, Turns
<1>7. (x - y) % b = (r1 - r2) % b BY <1>4, <1>6, Zenon
<1>8. ((x % b) - (y % b)) % b = (r1 - r2) % b
  <2> DEFINE u == x % b
             v == y % b
  <2>1. u = r1 /\ v = r2 BY <1>1, <1>2
  <2> HIDE DEF u, v
  <2>2. (u - v) % b = (r1 - r2) % b BY <2>1
  <2> QED BY <2>2 DEF u, v
<1> QED BY <1>7, <1>8, Zenon

LEMMA SourceNumber ==
  ASSUME NEW k \in Packets
  PROVE  Ssrc(k) \in Nat \ {0}
<1> DEFINE older == {s \in Sources : s <= k}
<1>1. IsFiniteSet(older)
  <2>1. older \subseteq Packets BY AudioStreamAssumption
  <2> HIDE DEF older
  <2> QED BY <2>1, AudioStreamAssumption, FS_Subset
<1>2. older # {} BY AudioStreamAssumption
<1> HIDE DEF older
<1>3. Cardinality(older) \in Nat /\ Cardinality(older) # 0
  BY <1>1, <1>2, FS_CardinalityType, FS_EmptySet
<1> QED BY <1>3 DEF Ssrc, older

(* Numbers of one source tell the order of packets that are less than half  *)
(* a turn apart.                                                            *)
LEMMA NumbersTell ==
  ASSUME NEW j \in Packets, NEW k \in Packets, Ssrc(j) = Ssrc(k),
         j - k < Wrap \div 2, k - j < Wrap \div 2
  PROVE  /\ seq_less(Number(j), Number(k)) <=> j < k
         /\ Number(j) = Number(k) <=> j = k
<1> DEFINE c == FirstSeq + 5 * (Ssrc(k) - 1)
           x == c + j
           y == c + k
           h == Wrap \div 2
<1>1. /\ Wrap \in Nat \ {0} /\ h \in Nat /\ Wrap = 2 * h /\ j \in Nat /\ k \in Nat
      /\ c \in Int
  BY WrapAssumption, AudioStreamAssumption, SourceNumber DEF Seqs
<1>2. Number(j) = x % Wrap /\ Number(k) = y % Wrap BY DEF Number
<1> HIDE DEF c
<1>3. x \in Int /\ y \in Int /\ x - y = j - k BY <1>1
<1> HIDE DEF x, y
<1>4. (Number(j) - Number(k)) % Wrap = (j - k) % Wrap
  <2>1. ((x % Wrap) - (y % Wrap)) % Wrap = (x - y) % Wrap BY <1>1, <1>3, TurnsApart
  <2> DEFINE u == x % Wrap
             v == y % Wrap
             z == x - y
  <2>2. u = Number(j) /\ v = Number(k) /\ z = j - k BY <1>2, <1>3
  <2>3. (u - v) % Wrap = z % Wrap BY <2>1
  <2> HIDE DEF u, v, z
  <2> QED BY <2>2, <2>3, Zenon
<1> DEFINE d == j - k
<1>5. d \in Int /\ -h < d /\ d < h BY <1>1
<1>6. d % Wrap = IF d < 0 THEN d + Wrap ELSE d
  <2>1. -Wrap < d /\ d < Wrap BY <1>1, <1>5
  <2> HIDE DEF d, h
  <2> QED BY <1>1, <1>5, <2>1, Remainder
<1>7. d < 0 <=> j < k BY <1>1
<1>8. d = 0 <=> j = k BY <1>1
<1>9. (Number(j) - Number(k)) % Wrap = d % Wrap BY <1>4
<1> HIDE DEF d, h
<1>10. d % Wrap >= h <=> d < 0 BY <1>1, <1>5, <1>6
<1>11. Number(j) = Number(k) => d = 0
  <2> SUFFICES ASSUME Number(j) = Number(k) PROVE d = 0 OBVIOUS
  <2>1. Number(j) - Number(k) = 0
    <3>1. Number(j) \in Int BY <1>1, <1>2, <1>3
    <3> QED BY <3>1
  <2>2. 0 % Wrap = 0 BY <1>1, Remainder
  <2> QED BY <1>1, <1>5, <1>6, <1>9, <2>1, <2>2
<1> QED BY <1>7, <1>8, <1>9, <1>10, <1>11 DEF seq_less, h

(* n places after k, a number is not before that of p.                      *)
LEMMA NumberNotLate ==
  ASSUME NEW k \in Packets, NEW p \in Packets, Ssrc(k) = Ssrc(p), NEW n \in Nat,
         p <= k + n, k - p + n < Wrap \div 2
  PROVE  ~seq_less((Number(k) + n) % Wrap, Number(p))
<1> DEFINE c == FirstSeq + 5 * (Ssrc(k) - 1)
           x == c + k
           y == c + p
           h == Wrap \div 2
<1>1. /\ Wrap \in Nat \ {0} /\ h \in Nat /\ Wrap = 2 * h /\ p \in Nat /\ k \in Nat
      /\ c \in Int
  BY WrapAssumption, AudioStreamAssumption, SourceNumber DEF Seqs
<1>2. Number(k) = x % Wrap /\ Number(p) = y % Wrap BY DEF Number
<1> HIDE DEF c
<1>3. x \in Int /\ y \in Int /\ x - y = k - p BY <1>1
<1> HIDE DEF x, y
<1>4. PICK q \in Int, r \in Int : r = x % Wrap /\ x = Wrap * q + r
  <2> DEFINE d == x \div Wrap
             m == x % Wrap
  <2>1. d \in Int /\ m \in 0..(Wrap - 1) /\ x = Wrap * d + m BY <1>1, <1>3
  <2> HIDE DEF d, m
  <2> QED BY <2>1 DEF m
<1>5. (Number(k) + n) % Wrap = (x + n) % Wrap
  <2>1. r + n \in Int BY <1>4
  <2>2. x + n = (r + n) + Wrap * q
    <3> PICK m1 \in Int : m1 = Wrap * q BY <1>1, <1>4
    <3> QED BY <1>3, <1>4
  <2>3. ((r + n) + Wrap * q) % Wrap = (r + n) % Wrap BY <1>1, <1>4, <2>1, Turns
  <2> QED BY <1>2, <1>4, <2>2, <2>3
<1> DEFINE d == (x + n) - y
<1>6. d \in Int /\ 0 <= d /\ d < h BY <1>1, <1>3
<1>7. (((x + n) % Wrap) - (y % Wrap)) % Wrap = d % Wrap
  <2>1. x + n \in Int BY <1>3
  <2> QED BY <1>1, <1>3, <2>1, TurnsApart
<1> HIDE DEF d, h
<1>8. d % Wrap = d
  <2>1. -Wrap < d /\ d < Wrap BY <1>1, <1>6
  <2>2. d % Wrap = IF d < 0 THEN d + Wrap ELSE d BY <1>1, <1>6, <2>1, Remainder
  <2> QED BY <1>6, <2>2
<1>9. (((Number(k) + n) % Wrap) - Number(p)) % Wrap = d
  <2> DEFINE u == (x + n) % Wrap
             v == y % Wrap
  <2>1. u = (Number(k) + n) % Wrap /\ v = Number(p) BY <1>2, <1>5
  <2>2. (u - v) % Wrap = d BY <1>7, <1>8
  <2> HIDE DEF u, v
  <2> QED BY <2>1, <2>2, Zenon
<1>10. ~(d >= h) BY <1>1, <1>6
<1> QED BY <1>9, <1>10, Zenon DEF seq_less, h

(* A finite set of integers has a greatest.                                 *)
LEMMA FiniteHasGreatest ==
  ASSUME NEW S, IsFiniteSet(S), S \subseteq Int, S # {}
  PROVE  Max(S) \in S /\ \A k \in S : k <= Max(S)
<1> DEFINE Has(T) == \E m \in T : \A k \in T : k <= m
           Lacks == {T \in SUBSET S : T # {} /\ ~Has(T)}
           sizes == {Cardinality(T) : T \in Lacks}
<1>1. \A T \in SUBSET S : IsFiniteSet(T) /\ Cardinality(T) \in Nat
  BY FS_Subset, FS_CardinalityType
<1>2. ASSUME Lacks # {} PROVE FALSE
  <2>1. sizes \subseteq Nat /\ sizes # {} BY <1>1, <1>2
  <2> HIDE DEF sizes
  <2>2. PICK n \in sizes : \A m \in sizes : n <= m BY <2>1, LeastExists
  <2>3. PICK T \in Lacks : Cardinality(T) = n BY DEF sizes
  <2>4. PICK x : x \in T BY <2>3
  <2> DEFINE R == T \ {x}
  <2>5. R \subseteq S /\ Cardinality(R) = n - 1 BY <1>1, <2>3, <2>4, FS_RemoveElement
  <2>6. R \notin Lacks
    <3>1. SUFFICES ASSUME R \in Lacks PROVE FALSE OBVIOUS
    <3>2. n - 1 \in sizes BY <2>5, <3>1 DEF sizes
    <3> QED BY <2>1, <2>2, <3>2
  <2>7. CASE R = {}
    <3>1. \A k \in T : k = x BY <2>7
    <3>2. x \in Int BY <2>3, <2>4
    <3>3. Has(T) BY <2>4, <3>1, <3>2
    <3> QED BY <2>3, <3>3
  <2>8. CASE R # {}
    <3>1. PICK m \in R : \A k \in R : k <= m BY <2>5, <2>6, <2>8
    <3>2. m \in Int /\ x \in Int /\ m \in T BY <2>3, <2>4, <2>5
    <3>3. CASE m <= x
      <4>1. \A k \in T : k <= x
        <5> TAKE k \in T
        <5>1. k = x \/ k \in R OBVIOUS
        <5>2. k \in Int BY <2>3
        <5> QED BY <3>1, <3>2, <3>3, <5>1, <5>2
      <4>2. Has(T) BY <2>4, <4>1
      <4> QED BY <2>3, <4>2
    <3>4. CASE ~(m <= x)
      <4>1. \A k \in T : k <= m
        <5> TAKE k \in T
        <5>1. k = x \/ k \in R OBVIOUS
        <5>2. k \in Int BY <2>3
        <5> QED BY <3>1, <3>2, <3>4, <5>1, <5>2
      <4>2. Has(T) BY <3>2, <4>1
      <4> QED BY <2>3, <4>2
    <3> QED BY <3>3, <3>4
  <2> QED BY <2>7, <2>8
<1>3. PICK m \in S : \A k \in S : k <= m BY <1>2
<1>4. m \in S /\ \A k \in S : m >= k BY <1>3
<1> DEFINE g == CHOOSE y \in S : \A k \in S : y >= k
<1>5. g \in S /\ \A k \in S : g >= k BY <1>4
<1>6. Max(S) = g BY DEF Max
<1> HIDE DEF g
<1>7. \A k \in S : k <= g BY <1>5
<1> QED BY <1>5, <1>6, <1>7

-----------------------------------------------------------------------------
(* Lists of frames, and what they hold.                                     *)

LEMMA MemIsNumber == \A f \in Frame : f.mem \in Packets /\ f.mem \in Int
<1>1. \A f \in Frame : f.mem \in Packets BY DEF Frame
<1>2. Packets \subseteq Int BY AudioStreamAssumption
<1> QED BY <1>1, <1>2

(* The list holds packets in the order they were sent in.                   *)
InSendOrder(l) == \A i, j \in DOMAIN l : i < j => l[i].mem < l[j].mem

LEMMA PlaceIsLast ==
  ASSUME NEW l \in Seq(Frame), NEW n
  PROVE  /\ Place(l, n) \in 0..Len(l)
         /\ Place(l, n) > 0 => Place(l, n) \in NotAfter(l, n)
         /\ \A i \in NotAfter(l, n) : i <= Place(l, n)
<1> DEFINE before == NotAfter(l, n)
<1>0. Len(l) \in Nat /\ DOMAIN l = 1..Len(l) /\ before \subseteq 1..Len(l)
  BY DEF NotAfter
<1>1. CASE before = {}
  <2>1. Place(l, n) = 0 BY <1>1 DEF Place
  <2> QED BY <1>0, <1>1, <2>1
<1>2. CASE before # {}
  <2> DEFINE p == CHOOSE i \in before : \A j \in before : j <= i
  <2>1. Place(l, n) = p BY <1>2 DEF Place
  <2> HIDE DEF before
  <2>2. \E m \in before : \A k \in before : k <= m
    BY <1>0, <1>2, GreatestExists
  <2>3. p \in before /\ \A k \in before : k <= p BY <2>2
  <2> HIDE DEF p
  <2> QED BY <1>0, <2>1, <2>3 DEF before
<1> QED BY <1>1, <1>2

(* A packet whose number tells where it belongs is put where it belongs.    *)
LEMMA InsertedWhereSent ==
  ASSUME NEW l \in Seq(Frame), InSendOrder(l), NEW f \in Frame,
         \A i \in DOMAIN l : l[i].mem # f.mem,
         \A i \in DOMAIN l : i \in NotAfter(l, f.seq) <=> l[i].mem < f.mem
  PROVE  InSendOrder(InsertAt(l, Place(l, f.seq) + 1, f))
<1>0. Len(l) \in Nat /\ DOMAIN l = 1..Len(l) OBVIOUS
<1> DEFINE p == Place(l, f.seq)
<1>1. /\ p \in 0..Len(l) /\ (p > 0 => p \in NotAfter(l, f.seq))
      /\ \A i \in NotAfter(l, f.seq) : i <= p
  BY PlaceIsLast
<1> HIDE DEF p
<1>2. PICK q \in 1..(Len(l) + 1) : q = p + 1 BY <1>0, <1>1
<1> DEFINE new == InsertAt(l, q, f)
<1>3. /\ new \in Seq(Frame) /\ Len(new) = Len(l) + 1
      /\ \A j \in 1..(Len(l) + 1) : new[j] = IF j < q THEN l[j]
                                             ELSE IF j = q THEN f ELSE l[j - 1]
  BY Inserted, SMTT(30)
<1> HIDE DEF new
<1>4. \A i \in 1..Len(l) : l[i].mem \in Int /\ f.mem \in Int
  <2>1. \A i \in 1..Len(l) : l[i] \in Frame OBVIOUS
  <2>2. \A g \in Frame : g.mem \in Int BY MemIsNumber
  <2> QED BY <2>1, <2>2
<1>5. \A i \in 1..Len(l) : i < q => l[i].mem < f.mem
  <2> SUFFICES ASSUME NEW i \in 1..Len(l), i < q PROVE l[i].mem < f.mem OBVIOUS
  <2>1. p \in 1..Len(l) /\ l[p].mem < f.mem BY <1>0, <1>1, <1>2
  <2>2. i = p \/ l[i].mem < l[p].mem BY <1>0, <1>1, <1>2, <2>1 DEF InSendOrder
  <2> QED BY <1>4, <2>1, <2>2
<1>6. \A i \in 1..Len(l) : i >= q => f.mem < l[i].mem
  <2> SUFFICES ASSUME NEW i \in 1..Len(l), i >= q PROVE f.mem < l[i].mem OBVIOUS
  <2>1. i \notin NotAfter(l, f.seq) BY <1>1, <1>2
  <2>2. ~(l[i].mem < f.mem) /\ l[i].mem # f.mem BY <1>0, <2>1
  <2> QED BY <1>4, <2>2
<1>7. ASSUME NEW i \in 1..(Len(l) + 1), NEW j \in 1..(Len(l) + 1), i < j
      PROVE new[i].mem < new[j].mem
  <2>1. CASE j < q
    <3>1. new[i] = l[i] /\ new[j] = l[j] /\ i \in DOMAIN l /\ j \in DOMAIN l
      BY <1>0, <1>3, <1>7, <2>1
    <3> QED BY <1>7, <3>1 DEF InSendOrder
  <2>2. CASE j = q
    <3>1. new[i] = l[i] /\ new[j] = f /\ i \in 1..Len(l) /\ i < q BY <1>0, <1>3, <1>7, <2>2
    <3> QED BY <1>5, <3>1
  <2>3. CASE j > q
    <3>1. PICK b \in 1..Len(l) : b = j - 1 BY <1>0, <2>3
    <3>2. new[j] = l[b] /\ b >= q BY <1>3, <2>3, <3>1
    <3>3. CASE i < q
      <4>1. new[i] = l[i] /\ i \in 1..Len(l) BY <1>0, <1>3, <3>3
      <4>2. l[i].mem < f.mem /\ f.mem < l[b].mem BY <1>5, <1>6, <3>2, <3>3, <4>1
      <4> QED BY <1>4, <3>2, <4>1, <4>2
    <3>4. CASE i = q
      <4>1. new[i] = f BY <1>3, <3>4
      <4> QED BY <1>6, <3>2, <4>1
    <3>5. CASE i > q
      <4>1. PICK a \in 1..Len(l) : a = i - 1 BY <1>0, <3>5
      <4>2. new[i] = l[a] /\ a < b BY <1>3, <1>7, <3>1, <3>5, <4>1
      <4> QED BY <1>0, <3>2, <4>2 DEF InSendOrder
    <3> QED BY <3>3, <3>4, <3>5
  <2> QED BY <2>1, <2>2, <2>3
<1>8. InSendOrder(new) BY <1>3, <1>7 DEF InSendOrder
<1> QED BY <1>2, <1>8 DEF p, new

(* What a list with a frame more, or with one less, holds.                  *)
LEMMA InsertedHolds ==
  ASSUME NEW l \in Seq(Frame), NEW f \in Frame, NEW n
  PROVE  LET new == InsertAt(l, Place(l, n) + 1, f)
         IN /\ new \in Seq(Frame) /\ Len(new) = Len(l) + 1
            /\ Range(new) = Range(l) \cup {f}
<1>0. Len(l) \in Nat /\ DOMAIN l = 1..Len(l) OBVIOUS
<1>1. PICK q \in 1..(Len(l) + 1) : q = Place(l, n) + 1 BY <1>0, PlaceIsLast
<1> DEFINE new == InsertAt(l, q, f)
<1>2. /\ new \in Seq(Frame) /\ Len(new) = Len(l) + 1
      /\ \A j \in 1..(Len(l) + 1) : new[j] = IF j < q THEN l[j]
                                             ELSE IF j = q THEN f ELSE l[j - 1]
  BY Inserted, SMTT(30)
<1> HIDE DEF new
<1>3. DOMAIN new = 1..(Len(l) + 1) BY <1>0, <1>2
<1>4. ASSUME NEW x \in Range(new) PROVE x \in Range(l) \cup {f}
  <2>1. PICK j \in 1..(Len(l) + 1) : x = new[j] BY <1>3 DEF Range
  <2>2. CASE j < q
    <3>1. j \in DOMAIN l /\ x = l[j] BY <1>0, <1>2, <2>1, <2>2
    <3> QED BY <3>1 DEF Range
  <2>3. CASE j = q BY <1>2, <2>1, <2>3
  <2>4. CASE j > q
    <3>1. j - 1 \in DOMAIN l /\ x = l[j - 1] BY <1>0, <1>2, <2>1, <2>4
    <3> QED BY <3>1 DEF Range
  <2> QED BY <2>2, <2>3, <2>4
<1>5. f \in Range(new)
  <2>1. new[q] = f BY <1>2
  <2> QED BY <1>3, <2>1 DEF Range
<1>6. ASSUME NEW x \in Range(l) PROVE x \in Range(new)
  <2>1. PICK i \in 1..Len(l) : x = l[i] BY <1>0 DEF Range
  <2>2. CASE i < q
    <3>1. i \in DOMAIN new /\ new[i] = x BY <1>0, <1>2, <1>3, <2>1, <2>2
    <3> QED BY <3>1 DEF Range
  <2>3. CASE i >= q
    <3>1. PICK j \in 1..(Len(l) + 1) : j = i + 1 BY <1>0
    <3>2. ~(j < q) /\ j # q /\ j - 1 = i BY <2>3, <3>1
    <3>3. new[j] = x BY <1>2, <2>1, <3>2
    <3> QED BY <1>3, <3>3 DEF Range
  <2> QED BY <2>2, <2>3
<1> QED BY <1>1, <1>2, <1>4, <1>5, <1>6 DEF new

LEMMA TailHolds ==
  ASSUME NEW l \in Seq(Frame), l # <<>>
  PROVE  /\ Head(l) \in Frame /\ Tail(l) \in Seq(Frame)
         /\ Range(l) = Range(Tail(l)) \cup {Head(l)}
         /\ InSendOrder(l) =>
              InSendOrder(Tail(l)) /\ \A f \in Range(Tail(l)) : Head(l).mem < f.mem
<1>1. /\ Tail(l) \in Seq(Frame) /\ Len(Tail(l)) = Len(l) - 1 /\ Len(l) \in Nat \ {0}
      /\ \A i \in 1..(Len(l) - 1) : Tail(l)[i] = l[i + 1]
      /\ Head(l) = l[1] /\ DOMAIN l = 1..Len(l) /\ DOMAIN Tail(l) = 1..(Len(l) - 1)
      /\ Head(l) \in Frame
  OBVIOUS
<1> DEFINE t == Tail(l)
<1> HIDE DEF t
<1>2. ASSUME NEW x \in Range(l) PROVE x \in Range(t) \cup {Head(l)}
  <2>1. PICK i \in 1..Len(l) : x = l[i] BY <1>1 DEF Range
  <2>2. CASE i = 1 BY <1>1, <2>1, <2>2
  <2>3. CASE i > 1
    <3>1. PICK j \in 1..(Len(l) - 1) : i = j + 1
      <4>1. i - 1 \in 1..(Len(l) - 1) /\ i = (i - 1) + 1 BY <1>1, <2>3
      <4> QED BY <4>1
    <3>2. t[j] = x BY <1>1, <2>1, <3>1 DEF t
    <3> QED BY <1>1, <3>2 DEF Range, t
  <2> QED BY <2>2, <2>3
<1>3. ASSUME NEW x \in Range(t) \cup {Head(l)} PROVE x \in Range(l)
  <2>1. CASE x = Head(l)
    <3>1. 1 \in DOMAIN l BY <1>1
    <3> QED BY <1>1, <2>1, <3>1 DEF Range
  <2>2. CASE x \in Range(t)
    <3>1. PICK i \in 1..(Len(l) - 1) : x = t[i] BY <1>1, <2>2 DEF Range, t
    <3>2. x = l[i + 1] /\ i + 1 \in DOMAIN l BY <1>1, <3>1 DEF t
    <3> QED BY <3>2 DEF Range
  <2> QED BY <2>1, <2>2
<1>4. ASSUME InSendOrder(l)
      PROVE InSendOrder(t) /\ \A f \in Range(t) : Head(l).mem < f.mem
  <2>1. ASSUME NEW i \in 1..(Len(l) - 1), NEW j \in 1..(Len(l) - 1), i < j
        PROVE t[i].mem < t[j].mem
    <3>1. i + 1 \in DOMAIN l /\ j + 1 \in DOMAIN l /\ i + 1 < j + 1 BY <1>1, <2>1
    <3>2. l[i + 1].mem < l[j + 1].mem BY <1>4, <3>1 DEF InSendOrder
    <3> QED BY <1>1, <3>2 DEF t
  <2>2. ASSUME NEW f \in Range(t) PROVE Head(l).mem < f.mem
    <3>1. PICK i \in 1..(Len(l) - 1) : f = t[i] BY <1>1 DEF Range, t
    <3>2. i + 1 \in DOMAIN l /\ 1 \in DOMAIN l /\ 1 < i + 1 BY <1>1
    <3>3. l[1].mem < l[i + 1].mem BY <1>4, <3>2 DEF InSendOrder
    <3> QED BY <1>1, <3>1, <3>3 DEF t
  <2>3. DOMAIN t = 1..(Len(l) - 1) BY <1>1 DEF t
  <2> QED BY <2>1, <2>2, <2>3 DEF InSendOrder
<1> QED BY <1>1, <1>2, <1>3, <1>4 DEF t

(* From the first of n packets in the order they were sent in to the last   *)
(* there are at least n - 1.                                                *)
LEMMA SpreadOut ==
  ASSUME NEW l \in Seq(Frame), InSendOrder(l), l # <<>>
  PROVE  l[Len(l)].mem >= Head(l).mem + (Len(l) - 1)
<1>0. /\ Len(l) \in Nat \ {0} /\ Head(l) = l[1] /\ DOMAIN l = 1..Len(l)
      /\ \A i \in 1..Len(l) : l[i] \in Frame
  OBVIOUS
<1>1. \A i \in 1..Len(l) : l[i].mem \in Int
  <2>1. \A g \in Frame : g.mem \in Int BY MemIsNumber
  <2> QED BY <1>0, <2>1
<1> DEFINE S == {i \in 1..Len(l) : l[i].mem < l[1].mem + (i - 1)}
<1>2. ASSUME S # {} PROVE FALSE
  <2>1. S \subseteq Nat OBVIOUS
  <2> HIDE DEF S
  <2>2. PICK i \in S : \A j \in S : i <= j BY <1>2, <2>1, LeastExists
  <2>3. i \in 1..Len(l) /\ l[i].mem < l[1].mem + (i - 1) BY DEF S
  <2>4. i # 1 BY <1>0, <1>1, <2>3
  <2>5. PICK j \in 1..Len(l) : j = i - 1 BY <1>0, <2>3, <2>4
  <2>6. j \notin S BY <2>2, <2>3, <2>5
  <2>7. ~(l[j].mem < l[1].mem + (j - 1)) BY <2>6 DEF S
  <2>8. l[j].mem < l[i].mem BY <1>0, <2>3, <2>5 DEF InSendOrder
  <2> QED BY <1>0, <1>1, <2>3, <2>5, <2>7, <2>8
<1>3. Len(l) \in 1..Len(l) /\ Len(l) \notin S BY <1>0, <1>2
<1> QED BY <1>0, <1>1, <1>3

(* Where the number g.seq says that the frame g is, its packet was sent.    *)
TellsOrder(g, f) ==
  g.mem # f.mem /\ (seq_less(g.seq, f.seq) \/ g.seq = f.seq <=> g.mem < f.mem)

(* What jbuf_put makes of the frames and of what it remembers.              *)
LEMMA PutHolds ==
  ASSUME NEW b, JitterBufferSound(b), NEW f \in Frame, NEW put, put = jbuf_put(b, f)
  PROVE  /\ Range(put.framel) \subseteq Range(b.framel) \cup {f}
         /\ b.n < b.max => Range(b.framel) \subseteq Range(put.framel)
         /\ \/ f \in Range(put.framel) /\ put.running /\ put.seq_put = f.seq
            \/ /\ put.running = b.running /\ put.seq_put = b.seq_put
               /\ b.n < b.max => put.framel = b.framel
         /\ InSendOrder(b.framel) /\ (\A g \in Range(b.framel) : TellsOrder(g, f))
              => InSendOrder(put.framel)
         /\ ~TooLate(b, f.seq) /\ (\A g \in Range(b.framel) : g.seq # f.seq)
              => f \in Range(put.framel)
<1> DEFINE got == frame_alloc(b)
           l == got.framel
           p == Place(l, f.seq)
<1>0. /\ b \in JitterBuffers /\ b.framel \in Seq(Frame) /\ b.pool \in Nat
      /\ b.max \in Nat \ {0} /\ b.n = Len(b.framel) /\ b.pool + b.n = b.max
  BY DEF JitterBufferSound, FramesCounted, JitterBuffers
<1>1. /\ got \in JitterBuffers /\ got.running = b.running /\ got.seq_put = b.seq_put
      /\ l = IF b.pool > 0 THEN b.framel ELSE Tail(b.framel)
      /\ b.pool > 0 \/ b.framel # <<>>
  <2>1. got \in JitterBuffers BY AllocTakes DEF OneOut
  <2>2. CASE b.pool > 0
    <3>1. got = [b EXCEPT !.pool = @ - 1, !.n = @ + 1] BY <2>2 DEF frame_alloc
    <3> HIDE DEF got
    <3> QED BY <1>0, <2>1, <2>2, <3>1 DEF JitterBuffers
  <2>3. CASE ~(b.pool > 0)
    <3>1. got = [b EXCEPT !.framel = Tail(@)] BY <2>3 DEF frame_alloc
    <3> HIDE DEF got
    <3> QED BY <1>0, <2>1, <2>3, <3>1 DEF JitterBuffers
  <2> QED BY <2>2, <2>3
<1>2. jbuf_put(b, f) =
        IF TooLate(b, f.seq) THEN b
        ELSE IF p > 0 /\ l[p].seq = f.seq THEN [got EXCEPT !.pool = @ + 1, !.n = @ - 1]
        ELSE [got EXCEPT !.framel = InsertAt(l, p + 1, f),
                         !.running = TRUE, !.seq_put = f.seq]
  BY <1>1 DEF jbuf_put, Duplicate
<1> HIDE DEF got
<1>3. /\ l \in Seq(Frame) /\ Range(l) \subseteq Range(b.framel)
      /\ b.n < b.max => l = b.framel
      /\ InSendOrder(b.framel) => InSendOrder(l)
  <2>1. CASE b.pool > 0
    <3>1. l = b.framel BY <1>1, <2>1
    <3> QED BY <1>0, <3>1
  <2>2. CASE ~(b.pool > 0)
    <3>1. l = Tail(b.framel) /\ b.framel # <<>> /\ ~(b.n < b.max) BY <1>0, <1>1, <2>2
    <3> QED BY <1>0, <3>1, TailHolds
  <2> QED BY <2>1, <2>2
<1>4. CASE TooLate(b, f.seq)
  <2>1. put = b BY <1>2, <1>4
  <2> QED BY <1>4, <2>1
<1>5. CASE ~TooLate(b, f.seq) /\ p > 0 /\ l[p].seq = f.seq
  <2>1. put = [got EXCEPT !.pool = @ + 1, !.n = @ - 1] BY <1>2, <1>5
  <2>2. put.framel = l /\ put.running = b.running /\ put.seq_put = b.seq_put
    BY <1>1, <2>1 DEF JitterBuffers
  <2>3. l[p] \in Range(b.framel)
    <3>1. p \in DOMAIN l BY <1>3, <1>5, PlaceIsLast
    <3>2. l[p] \in Range(l) BY <3>1 DEF Range
    <3> QED BY <1>3, <3>2
  <2> HIDE DEF l, p
  <2> QED BY <1>3, <1>5, <2>2, <2>3
<1>6. CASE ~TooLate(b, f.seq) /\ ~(p > 0 /\ l[p].seq = f.seq)
  <2> DEFINE new == InsertAt(l, p + 1, f)
  <2>1. put = [got EXCEPT !.framel = new, !.running = TRUE, !.seq_put = f.seq]
    BY <1>2, <1>6
  <2>2. put.framel = new /\ put.running = TRUE /\ put.seq_put = f.seq
    BY <1>1, <2>1 DEF JitterBuffers
  <2>3. Range(new) = Range(l) \cup {f} BY <1>3, InsertedHolds
  <2>4. ASSUME InSendOrder(b.framel), \A g \in Range(b.framel) : TellsOrder(g, f)
        PROVE  InSendOrder(new)
    <3>1. \A i \in DOMAIN l : l[i] \in Range(l) BY DEF Range
    <3>2. \A i \in DOMAIN l : TellsOrder(l[i], f) BY <1>3, <2>4, <3>1
    <3>3. \A i \in DOMAIN l : l[i].mem # f.mem BY <3>2 DEF TellsOrder
    <3>4. \A i \in DOMAIN l : i \in NotAfter(l, f.seq) <=> l[i].mem < f.mem
      BY <3>2 DEF TellsOrder, NotAfter
    <3>5. InSendOrder(l) BY <1>3, <2>4
    <3> HIDE DEF l
    <3> QED BY <1>3, <3>3, <3>4, <3>5, InsertedWhereSent
  <2> HIDE DEF new, l
  <2> QED BY <1>3, <2>2, <2>3, <2>4
<1> QED BY <1>4, <1>5, <1>6

(* What jbuf_get takes out is the first frame; it forgets nothing else.     *)
LEMMA GetHolds ==
  ASSUME NEW b, JitterBufferSound(b), NEW get, get = jbuf_get(b)
  PROVE  /\ get.running = b.running /\ get.seq_put = b.seq_put
         /\ ~HasFrame(b) => get.framel = b.framel
         /\ HasFrame(b) =>
              /\ b.framel # <<>> /\ get.framel = Tail(b.framel) /\ b.n > b.min
              /\ Range(b.framel) = Range(get.framel) \cup {Head(b.framel)}
<1>1. b \in JitterBuffers /\ b.framel \in Seq(Frame)
  BY DEF JitterBufferSound, JitterBuffers
<1>2. CASE HasFrame(b)
  <2>1. get = [b EXCEPT !.framel = Tail(@), !.pool = @ + 1, !.n = @ - 1]
    BY <1>2 DEF jbuf_get
  <2>2. get.framel = Tail(b.framel) /\ get.running = b.running /\ get.seq_put = b.seq_put
    BY <1>1, <2>1 DEF JitterBuffers
  <2>3. b.framel # <<>> /\ b.n > b.min BY <1>2 DEF HasFrame
  <2> QED BY <1>1, <1>2, <2>2, <2>3, TailHolds
<1>3. CASE ~HasFrame(b) BY <1>3 DEF jbuf_get
<1> QED BY <1>2, <1>3

(* The packet decoded last.                                                 *)
Recent == IF heard = <<>> THEN {} ELSE {Last(heard)}

Types ==
  /\ strm \in [ssrc_rx : Nat, pseq : Int, started : BOOLEAN, recv : BOOLEAN]
  /\ net \in [arrived : SUBSET Packets, lost : SUBSET Packets, dups : Nat, worst : Int,
              turned : SUBSET Packets, mixed : BOOLEAN]
  /\ heard \in Seq(Packets) /\ Held \subseteq Packets

(* The jitter buffer a packet k is put into, and what that makes of it.     *)
Old(k) == IF strm.ssrc_rx \notin {0, Ssrc(k)} THEN jbuf_flush(jb) ELSE jb
Sent(k) == [seq |-> Number(k), mem |-> k]
Put(k) == jbuf_put(Old(k), Sent(k))

(* What a packet that is taken in does to the stream.                       *)
Takes(k) ==
  /\ strm.recv /\ strm'.ssrc_rx = Ssrc(k)
  /\ ~HasJbuf => jb' = jb
  /\ HasJbuf => /\ jb' = jbuf_get(Put(k))
                /\ heard' = IF HasFrame(Put(k)) THEN Append(heard, Head(Put(k).framel).mem)
                            ELSE heard

LEMMA OvertakenBound ==
  ASSUME Types, NEW k \in Packets
  PROVE  Overtaken(k) \in Int /\ \A j \in net.arrived : j - k <= Overtaken(k)
<1> DEFINE S == {j - k : j \in net.arrived}
<1>1. net.arrived \subseteq Packets /\ Packets \subseteq Int /\ IsFiniteSet(Packets)
  BY AudioStreamAssumption DEF Types
<1>2. IsFiniteSet(net.arrived) BY <1>1, FS_Subset
<1>3. IsFiniteSet(S)
  <2> DEFINE g == [j \in net.arrived |-> j - k]
  <2>1. g \in Surjection(net.arrived, S) BY DEF Surjection
  <2> HIDE DEF g, S
  <2> QED BY <1>2, <2>1, FS_Surjection
<1>4. S \subseteq Int BY <1>1
<1>5. Overtaken(k) = Max(S \cup {0}) BY DEF Overtaken
<1>6. \A j \in net.arrived : j - k \in S OBVIOUS
<1> HIDE DEF S
<1>7. IsFiniteSet(S \cup {0}) BY <1>3, FS_AddElement
<1> DEFINE Z == S \cup {0}
<1>8. IsFiniteSet(Z) /\ Z \subseteq Int /\ Z # {} BY <1>4, <1>7
<1>9. \A j \in net.arrived : j - k \in Z BY <1>6
<1>10. Overtaken(k) = Max(Z) BY <1>5
<1> HIDE DEF Z
<1>11. Max(Z) \in Z /\ \A d \in Z : d <= Max(Z) BY <1>8, FiniteHasGreatest
<1> QED BY <1>8, <1>9, <1>10, <1>11

LEMMA OldSound ==
  ASSUME IInv, HasJbuf, NEW k \in Packets
  PROVE  /\ JitterBufferSound(Old(k)) /\ JitterBufferSound(Put(k)) /\ Sent(k) \in Frame
         /\ cfg.min \in Nat /\ cfg.max \in Nat /\ Old(k).min = cfg.min /\ Old(k).max = cfg.max
         /\ Old(k).n = Len(Old(k).framel) /\ Put(k).n = Len(Put(k).framel)
         /\ Old(k).n \in Nat /\ Put(k).n \in Nat
         /\ Put(k).min = cfg.min /\ Old(k).framel \in Seq(Frame) /\ Put(k).framel \in Seq(Frame)
         /\ cfg.min < cfg.max => Old(k).n <= cfg.min
         /\ strm.ssrc_rx \in {0, Ssrc(k)} => Old(k) = jb
         /\ strm.ssrc_rx \notin {0, Ssrc(k)} => Old(k).framel = <<>> /\ Old(k).running = FALSE
<1>1. JitterBufferSound(jb) /\ jb.min = cfg.min /\ jb.max = cfg.max /\ NoneIsDelayed
  BY DEF IInv, JitterSound, Waits
<1>2. cfg.min \in Nat /\ cfg.max \in Nat BY DEF IInv
<1>3. /\ JitterBufferSound(jbuf_flush(jb)) /\ jbuf_flush(jb).min = cfg.min
      /\ jbuf_flush(jb).max = cfg.max /\ jbuf_flush(jb).n = 0
  BY <1>1, FlushSound, FlushCounts
<1>4. jbuf_flush(jb).framel = <<>> /\ jbuf_flush(jb).running = FALSE
  BY <1>1 DEF jbuf_flush, JitterBufferSound, JitterBuffers
<1>5. /\ JitterBufferSound(Old(k)) /\ Old(k).min = cfg.min /\ Old(k).max = cfg.max
      /\ cfg.min < cfg.max => Old(k).n <= cfg.min
  BY <1>1, <1>2, <1>3 DEF Old, NoneIsDelayed
<1>6. Sent(k) \in Frame BY PacketFrame DEF Sent
<1>7. JitterBufferSound(Put(k)) /\ Put(k).min = cfg.min
  BY <1>5, <1>6, PutSound, PutCounts DEF Put
<1>8. \A b : JitterBufferSound(b) =>
        b.n = Len(b.framel) /\ b.framel \in Seq(Frame) /\ b.n \in Nat
  BY DEF JitterBufferSound, FramesCounted, JitterBuffers
<1>9. /\ strm.ssrc_rx \in {0, Ssrc(k)} => Old(k) = jb
      /\ strm.ssrc_rx \notin {0, Ssrc(k)} => Old(k).framel = <<>> /\ Old(k).running = FALSE
  BY <1>4 DEF Old
<1> QED BY <1>2, <1>5, <1>6, <1>7, <1>8, <1>9

LEMMA AppendHolds ==
  ASSUME NEW S, NEW h \in Seq(S), NEW e \in S
  PROVE  LET g == Append(h, e)
         IN /\ g \in Seq(S) /\ g # <<>> /\ Last(g) = e
            /\ Range(g) = Range(h) \cup {e}
            /\ DOMAIN g = 1..(Len(h) + 1) /\ DOMAIN h = 1..Len(h) /\ Len(h) \in Nat
            /\ \A i \in 1..Len(h) : g[i] = h[i]
            /\ g[Len(h) + 1] = e
<1> DEFINE g == Append(h, e)
<1>1. /\ g \in Seq(S) /\ Len(g) = Len(h) + 1 /\ Len(h) \in Nat
      /\ DOMAIN g = 1..(Len(h) + 1) /\ DOMAIN h = 1..Len(h)
      /\ \A i \in 1..Len(h) : g[i] = h[i]
      /\ g[Len(h) + 1] = e
  OBVIOUS
<1> HIDE DEF g
<1>2. g # <<>> /\ Last(g) = e BY <1>1 DEF Last
<1>3. ASSUME NEW x \in Range(g) PROVE x \in Range(h) \cup {e}
  <2>1. PICK i \in 1..(Len(h) + 1) : x = g[i] BY <1>1 DEF Range
  <2>2. CASE i = Len(h) + 1 BY <1>1, <2>1, <2>2
  <2>3. CASE i # Len(h) + 1
    <3>1. i \in DOMAIN h /\ x = h[i] BY <1>1, <2>1, <2>3
    <3> QED BY <3>1 DEF Range
  <2> QED BY <2>2, <2>3
<1>4. ASSUME NEW x \in Range(h) \cup {e} PROVE x \in Range(g)
  <2>1. CASE x = e
    <3>1. Len(h) + 1 \in DOMAIN g BY <1>1
    <3> QED BY <1>1, <2>1, <3>1 DEF Range
  <2>2. CASE x \in Range(h)
    <3>1. PICK i \in 1..Len(h) : x = h[i] BY <1>1, <2>2 DEF Range
    <3>2. i \in DOMAIN g BY <1>1
    <3> QED BY <1>1, <3>1, <3>2 DEF Range
  <2> QED BY <2>1, <2>2
<1> QED BY <1>1, <1>2, <1>3, <1>4 DEF g

(* A packet the stream receives.                                            *)
LEMMA StreamTakes ==
  ASSUME IInv, Types, NEW k \in Packets, NEW bad, rtp_recv(k, bad)
  PROVE  /\ \/ ~strm.recv /\ UNCHANGED <<strm, jb, heard>>
            \/ Takes(k)
         /\ strm'.recv = strm.recv
         /\ strm' \in [ssrc_rx : Nat, pseq : Int, started : BOOLEAN, recv : BOOLEAN]
         /\ heard' \in Seq(Packets)
<1> DEFINE s == [strm EXCEPT !.ssrc_rx = Ssrc(k)]
           started == [s EXCEPT !.started = TRUE]
           T == [ssrc_rx : Nat, pseq : Int, started : BOOLEAN, recv : BOOLEAN]
<1>1. \/ /\ ~strm.recv /\ UNCHANGED <<strm, jb, heard, rx, tx>>
      \/ /\ strm.recv /\ ~HasJbuf /\ Deliver(s, Number(k), k, bad) /\ jb' = jb
      \/ /\ strm.recv /\ HasJbuf /\ jb' = jbuf_get(Put(k))
         /\ \/ /\ HasFrame(Put(k))
               /\ Deliver(started, Head(Put(k).framel).seq, Head(Put(k).framel).mem, bad)
            \/ ~HasFrame(Put(k)) /\ Deliver(started, 0, 0, bad)
            \/ ~HasFrame(Put(k)) /\ strm' = s /\ heard' = heard
  BY DEF rtp_recv, Put, Old, Sent
<1>2. strm \in T /\ heard \in Seq(Packets) BY DEF Types
<1>3. Ssrc(k) \in Nat BY SourceNumber
<1>4. s \in T /\ s.recv = strm.recv /\ s.ssrc_rx = Ssrc(k) BY <1>2, <1>3
<1>5. started \in T /\ started.recv = strm.recv /\ started.ssrc_rx = Ssrc(k)
  <2> HIDE DEF s
  <2> QED BY <1>4
<1> HIDE DEF s, started
<1>6. ASSUME NEW u \in T, NEW seq \in Int, NEW m, Deliver(u, seq, m, bad)
      PROVE  /\ strm' \in T /\ strm'.recv = u.recv /\ strm'.ssrc_rx = u.ssrc_rx
             /\ heard' = IF m = 0 THEN heard ELSE Append(heard, m)
  <2>1. /\ strm' = [u EXCEPT !.pseq = IF lostcalc(seq) < 0 THEN @ ELSE seq]
        /\ heard' = IF m = 0 THEN heard ELSE Append(heard, m)
    BY <1>6 DEF Deliver
  <2> DEFINE n == IF lostcalc(seq) < 0 THEN u.pseq ELSE seq
  <2>2. n \in Int OBVIOUS
  <2>3. strm' = [u EXCEPT !.pseq = n] BY <2>1
  <2> HIDE DEF n
  <2> QED BY <2>1, <2>2, <2>3
<1>7. \A f \in Frame : f.seq \in Int /\ f.mem \in Packets /\ f.mem # 0
  BY AudioStreamAssumption DEF Frame, Seqs
<1>8. Number(k) \in Int
  <2>1. Sent(k) \in Frame BY PacketFrame DEF Sent
  <2>2. Sent(k).seq = Number(k) BY DEF Sent
  <2> QED BY <1>7, <2>1, <2>2
<1>9. CASE ~strm.recv /\ UNCHANGED <<strm, jb, heard, rx, tx>> BY <1>2, <1>9
<1>10. CASE strm.recv /\ ~HasJbuf /\ Deliver(s, Number(k), k, bad) /\ jb' = jb
  <2>1. /\ strm' \in T /\ strm'.recv = s.recv /\ strm'.ssrc_rx = s.ssrc_rx
        /\ heard' = IF k = 0 THEN heard ELSE Append(heard, k)
    BY <1>4, <1>6, <1>8, <1>10
  <2>2. heard' \in Seq(Packets) BY <1>2, <2>1
  <2>3. Takes(k) BY <1>4, <1>10, <2>1 DEF Takes
  <2> QED BY <1>4, <2>1, <2>2, <2>3
<1>11. CASE /\ strm.recv /\ HasJbuf /\ jb' = jbuf_get(Put(k)) /\ HasFrame(Put(k))
            /\ Deliver(started, Head(Put(k).framel).seq, Head(Put(k).framel).mem, bad)
  <2>1. Head(Put(k).framel) \in Frame BY <1>11, OldSound, GetSound
  <2> DEFINE f == Head(Put(k).framel)
  <2>2. f.seq \in Int /\ f.mem \in Packets /\ f.mem # 0 BY <1>7, <2>1
  <2>3. /\ strm' \in T /\ strm'.recv = started.recv /\ strm'.ssrc_rx = started.ssrc_rx
        /\ heard' = IF f.mem = 0 THEN heard ELSE Append(heard, f.mem)
    BY <1>5, <1>6, <1>11, <2>2
  <2>4. heard' = Append(heard, f.mem) BY <2>2, <2>3
  <2>5. heard' \in Seq(Packets)
    <3> HIDE DEF f
    <3> QED BY <1>2, <2>2, <2>4
  <2>6. Takes(k) BY <1>5, <1>11, <2>3, <2>4 DEF Takes
  <2> QED BY <1>5, <2>3, <2>5, <2>6
<1>12. CASE /\ strm.recv /\ HasJbuf /\ jb' = jbuf_get(Put(k)) /\ ~HasFrame(Put(k))
            /\ Deliver(started, 0, 0, bad)
  <2>0. PICK z \in Int : z = 0 OBVIOUS
  <2>1. /\ strm' \in T /\ strm'.recv = started.recv /\ strm'.ssrc_rx = started.ssrc_rx
        /\ heard' = IF z = 0 THEN heard ELSE Append(heard, z)
    <3>1. Deliver(started, z, z, bad) BY <1>12, <2>0
    <3> QED BY <1>5, <1>6, <3>1
  <2>2. Takes(k) BY <1>5, <1>12, <2>0, <2>1 DEF Takes
  <2> QED BY <1>2, <1>5, <2>0, <2>1, <2>2
<1>13. CASE /\ strm.recv /\ HasJbuf /\ jb' = jbuf_get(Put(k)) /\ ~HasFrame(Put(k))
            /\ strm' = s /\ heard' = heard
  <2>1. Takes(k) BY <1>4, <1>13 DEF Takes
  <2> QED BY <1>2, <1>4, <1>13, <2>1
<1> QED BY <1>1, <1>9, <1>10, <1>11, <1>12, <1>13

(* What the network makes of a packet that arrives, for the first time or   *)
(* once more.                                                               *)
NetTakes(k) ==
  /\ net' \in [arrived : SUBSET Packets, lost : SUBSET Packets, dups : Nat, worst : Int,
               turned : SUBSET Packets, mixed : BOOLEAN]
  /\ net'.arrived = net.arrived \cup {k}
  /\ net'.mixed = (net.mixed \/ Mixes(k))
  /\ \/ /\ k \notin net.arrived /\ net'.dups = net.dups
        /\ net'.worst >= net.worst /\ net'.worst >= Overtaken(k)
        /\ net'.turned = IF strm.recv THEN net.turned ELSE net.turned \cup {k}
     \/ /\ k \in net.arrived /\ net'.dups = net.dups + 1 /\ net'.worst = net.worst
        /\ net'.turned = net.turned

LEMMA PacketArrives ==
  ASSUME IInv, Types, NEW k \in Packets, Receive(k)
  PROVE  NetTakes(k)
<1> DEFINE N == [arrived : SUBSET Packets, lost : SUBSET Packets, dups : Nat, worst : Int,
                 turned : SUBSET Packets, mixed : BOOLEAN]
<1>0. net \in N /\ Overtaken(k) \in Int /\ Mixes(k) \in BOOLEAN
  BY OvertakenBound DEF Types, Mixes
<1>1. CASE k \notin Settled
  <2> DEFINE w == IF Overtaken(k) > net.worst THEN Overtaken(k) ELSE net.worst
             t == IF strm.recv THEN net.turned ELSE net.turned \cup {k}
             m == net.mixed \/ Mixes(k)
             a == net.arrived \cup {k}
  <2>0. k \notin net.arrived BY <1>1 DEF Settled
  <2>1. net' = [net EXCEPT !.arrived = a, !.worst = w, !.turned = t, !.mixed = m]
    BY <1>0, <1>1, <2>0 DEF Receive
  <2>2. /\ w \in Int /\ w >= net.worst /\ w >= Overtaken(k)
        /\ t \in SUBSET Packets /\ m \in BOOLEAN /\ a \in SUBSET Packets
    BY <1>0
  <2>3. t = IF strm.recv THEN net.turned ELSE net.turned \cup {k} OBVIOUS
  <2>4. m = (net.mixed \/ Mixes(k)) /\ a = net.arrived \cup {k} OBVIOUS
  <2> HIDE DEF w, t, m, a
  <2>5. /\ net' \in N /\ net'.arrived = a /\ net'.worst = w /\ net'.turned = t
        /\ net'.mixed = m /\ net'.dups = net.dups
    BY <1>0, <2>1, <2>2
  <2> QED BY <2>0, <2>2, <2>3, <2>4, <2>5 DEF NetTakes
<1>2. CASE k \in net.arrived
  <2> DEFINE m == net.mixed \/ Mixes(k)
  <2>0. PICK d \in Nat : d = net.dups + 1 BY <1>0
  <2>1. net' = [net EXCEPT !.dups = d, !.mixed = m]
    BY <1>0, <1>2, <2>0 DEF Receive, Settled
  <2>2. m \in BOOLEAN /\ m = (net.mixed \/ Mixes(k)) BY <1>0
  <2> HIDE DEF m
  <2>3. /\ net' \in N /\ net'.arrived = net.arrived /\ net'.worst = net.worst
        /\ net'.turned = net.turned /\ net'.mixed = m /\ net'.dups = d
    BY <1>0, <2>1, <2>2
  <2> QED BY <1>0, <1>2, <2>0, <2>2, <2>3 DEF NetTakes
<1> QED BY <1>1, <1>2 DEF Receive

(* A packet that arrives is less than half a turn of the numbers away from  *)
(* those of its source that wait and the last decoded.                      *)
StaysNear ==
  \A k \in net'.arrived \ net.arrived : strm.recv =>
    \A j \in Held \cup Recent : Ssrc(j) = Ssrc(k) =>
      j - k < Wrap \div 2 /\ (k - j) + cfg.min < Wrap \div 2

(* The frames that wait are packets of the present source.                  *)
FramesKnown == HasJbuf =>
  /\ \A f \in Range(jb.framel) :
       f.seq = Number(f.mem) /\ f.mem \in net.arrived /\ Ssrc(f.mem) = strm.ssrc_rx
  /\ Range(heard) \subseteq net.arrived

(* A running buffer holds frames; the last one put waits or was decoded last. *)
LastPut == (HasJbuf /\ cfg.min < cfg.max /\ jb.running) =>
  /\ jb.framel # <<>>
  /\ \E p \in net.arrived : /\ p \in Held \cup Recent
                            /\ jb.seq_put = Number(p) /\ Ssrc(p) = strm.ssrc_rx

InTime == HasJbuf /\ net.dups = 0 /\ net.worst <= cfg.min

Increasing(h) == \A i, j \in DOMAIN h : i < j => h[i] < h[j]

(* Those that wait were sent after the last decoded, and min packets later  *)
(* than that one, one has arrived.                                          *)
Ordered == InTime =>
  /\ Increasing(heard) /\ InSendOrder(jb.framel)
  /\ heard # <<>> => /\ \A f \in Range(jb.framel) : Last(heard) < f.mem
                     /\ \E j \in net.arrived : Last(heard) + cfg.min <= j

LEMMA HeldIsRange == Held = {f.mem : f \in Range(jb.framel)}
BY DEF Held, Range

LEMMA RecentHeard ==
  ASSUME Types, heard # <<>>
  PROVE  Recent = {Last(heard)} /\ Last(heard) \in Range(heard) /\ Last(heard) \in Packets
<1>1. heard \in Seq(Packets) BY DEF Types
<1>2. Len(heard) \in DOMAIN heard /\ heard[Len(heard)] \in Packets BY <1>1
<1> QED BY <1>2 DEF Recent, Last, Range

LEMMA PutKnown ==
  ASSUME IInv, Types, FramesKnown, HasJbuf, NEW k \in Packets
  PROVE  /\ \A f \in Range(Old(k).framel) :
              /\ f \in Frame /\ f.seq = Number(f.mem) /\ f.mem \in net.arrived
              /\ Ssrc(f.mem) = Ssrc(k) /\ strm.ssrc_rx = Ssrc(k) /\ f.mem \in Held
         /\ \A f \in Range(Put(k).framel) :
              f.seq = Number(f.mem) /\ f.mem \in net.arrived \cup {k} /\ Ssrc(f.mem) = Ssrc(k)
<1>1. ASSUME NEW f \in Range(Old(k).framel)
      PROVE  /\ f \in Frame /\ f.seq = Number(f.mem) /\ f.mem \in net.arrived
             /\ Ssrc(f.mem) = Ssrc(k) /\ strm.ssrc_rx = Ssrc(k) /\ f.mem \in Held
  <2>1. strm.ssrc_rx \in {0, Ssrc(k)}
    <3>1. Range(<<>>) = {} BY DEF Range
    <3> QED BY <1>1, <3>1, OldSound
  <2>2. f \in Range(jb.framel) BY <1>1, <2>1, OldSound
  <2>3. f.seq = Number(f.mem) /\ f.mem \in net.arrived /\ Ssrc(f.mem) = strm.ssrc_rx
    BY <2>2 DEF FramesKnown
  <2>4. f.mem \in Packets BY <2>3 DEF Types
  <2>5. f \in Frame
    <3>1. Old(k).framel \in Seq(Frame) BY OldSound
    <3> QED BY <1>1, <3>1 DEF Range
  <2> QED BY <2>1, <2>2, <2>3, <2>4, <2>5, SourceNumber, HeldIsRange
<1>2. ASSUME NEW f \in Range(Put(k).framel)
      PROVE  /\ f.seq = Number(f.mem) /\ f.mem \in net.arrived \cup {k}
             /\ Ssrc(f.mem) = Ssrc(k)
  <2>1. f \in Range(Old(k).framel) \cup {Sent(k)} BY <1>2, OldSound, PutHolds DEF Put
  <2> QED BY <1>1, <2>1 DEF Sent
<1> QED BY <1>1, <1>2

(* What is taken out and what stays.                                        *)
LEMMA TakenOut ==
  ASSUME IInv, Types, HasJbuf, NEW k \in Packets, Takes(k)
  PROVE  /\ jb'.running = Put(k).running /\ jb'.seq_put = Put(k).seq_put
         /\ \/ ~HasFrame(Put(k)) /\ jb'.framel = Put(k).framel /\ heard' = heard
            \/ /\ HasFrame(Put(k)) /\ Put(k).framel # <<>>
               /\ jb'.framel = Tail(Put(k).framel) /\ Put(k).n > cfg.min
               /\ Range(Put(k).framel) = Range(jb'.framel) \cup {Head(Put(k).framel)}
               /\ Head(Put(k).framel).mem \in Packets
               /\ heard' = Append(heard, Head(Put(k).framel).mem)
         /\ \A f \in Range(Put(k).framel) : f \in Range(jb'.framel) \/ f.mem \in Range(heard')
         /\ Range(jb'.framel) \subseteq Range(Put(k).framel)
         /\ Range(heard) \subseteq Range(heard')
         /\ \A x \in Range(heard') : x \in Range(heard) \/ \E f \in Range(Put(k).framel) : x = f.mem
<1>1. jb' = jbuf_get(Put(k)) BY DEF Takes
<1>2. JitterBufferSound(Put(k)) /\ Put(k).min = cfg.min /\ Put(k).framel \in Seq(Frame)
  BY OldSound
<1>3. heard \in Seq(Packets) BY DEF Types
<1>4. CASE ~HasFrame(Put(k))
  <2>1. heard' = heard BY <1>4 DEF Takes
  <2>2. /\ jb'.running = Put(k).running /\ jb'.seq_put = Put(k).seq_put
        /\ jb'.framel = Put(k).framel
    BY <1>1, <1>2, <1>4, GetHolds
  <2> QED BY <1>4, <2>1, <2>2
<1>5. CASE HasFrame(Put(k))
  <2> DEFINE f == Head(Put(k).framel)
  <2>1. heard' = Append(heard, f.mem) BY <1>5 DEF Takes
  <2>2. /\ jb'.running = Put(k).running /\ jb'.seq_put = Put(k).seq_put
        /\ Put(k).framel # <<>> /\ jb'.framel = Tail(Put(k).framel) /\ Put(k).n > cfg.min
        /\ Range(Put(k).framel) = Range(jb'.framel) \cup {f}
    BY <1>1, <1>2, <1>5, GetHolds
  <2>3. f \in Frame BY <1>2, <2>2
  <2> HIDE DEF f
  <2>4. f.mem \in Packets BY <2>3, MemIsNumber
  <2>5. Range(heard') = Range(heard) \cup {f.mem} BY <1>3, <2>1, <2>4, AppendHolds
  <2>6. /\ \A g \in Range(Put(k).framel) : g \in Range(jb'.framel) \/ g.mem \in Range(heard')
        /\ Range(jb'.framel) \subseteq Range(Put(k).framel) /\ f \in Range(Put(k).framel)
    BY <2>2, <2>5
  <2>7. \A x \in Range(heard') : x \in Range(heard) \/ \E g \in Range(Put(k).framel) : x = g.mem
    BY <2>5, <2>6
  <2> QED BY <1>5, <2>1, <2>2, <2>4, <2>5, <2>6, <2>7 DEF f
<1> QED BY <1>4, <1>5

LEMMA TakesKnown ==
  ASSUME IInv, Types, FramesKnown, NEW k \in Packets, Takes(k), NetTakes(k), cfg' = cfg
  PROVE  FramesKnown'
<1> SUFFICES ASSUME HasJbuf
             PROVE  /\ \A f \in Range(jb'.framel) :
                         /\ f.seq = Number(f.mem) /\ f.mem \in net'.arrived
                         /\ Ssrc(f.mem) = strm'.ssrc_rx
                    /\ Range(heard') \subseteq net'.arrived
  BY DEF FramesKnown, HasJbuf
<1>1. net'.arrived = net.arrived \cup {k} /\ strm'.ssrc_rx = Ssrc(k)
  BY DEF NetTakes, Takes
<1>2. Range(heard) \subseteq net.arrived BY DEF FramesKnown
<1> QED BY <1>1, <1>2, PutKnown, TakenOut

LEMMA TakesPut ==
  ASSUME IInv, Types, FramesKnown, LastPut, NEW k \in Packets, Takes(k), NetTakes(k), cfg' = cfg
  PROVE  LastPut'
<1> SUFFICES ASSUME HasJbuf, cfg.min < cfg.max, jb'.running
             PROVE  /\ jb'.framel # <<>>
                    /\ \E p \in net'.arrived : /\ p \in (Held \cup Recent)'
                                               /\ jb'.seq_put = Number(p)
                                               /\ Ssrc(p) = strm'.ssrc_rx
  BY DEF LastPut, HasJbuf
<1>1. net'.arrived = net.arrived \cup {k} /\ strm'.ssrc_rx = Ssrc(k)
  BY DEF NetTakes, Takes
<1>2. /\ Old(k).n <= cfg.min /\ Old(k).max = cfg.max /\ Old(k).n < Old(k).max
      /\ cfg.min \in Nat \ {0} /\ cfg.max \in Nat
  <2>1. Old(k).n \in Nat /\ Old(k).n <= cfg.min /\ Old(k).max = cfg.max BY OldSound
  <2>2. cfg.min \in Nat /\ cfg.max \in Nat /\ cfg.min > 0 BY OldSound DEF HasJbuf
  <2> QED BY <2>1, <2>2
<1>3. CASE Sent(k) \in Range(Put(k).framel) /\ Put(k).seq_put = Sent(k).seq
  <2>1. jb'.seq_put = Number(k) BY <1>3, TakenOut DEF Sent
  <2>2. CASE ~HasFrame(Put(k))
    <3>1. jb'.framel = Put(k).framel BY <2>2, TakenOut
    <3>2. Sent(k) \in Range(jb'.framel) BY <1>3, <3>1
    <3>3. jb'.framel # <<>> BY <3>2 DEF Range
    <3>4. k \in Held' BY <3>2 DEF Held, Range, Sent
    <3> QED BY <1>1, <2>1, <3>3, <3>4
  <2>3. CASE HasFrame(Put(k))
    <3> DEFINE l == Put(k).framel
    <3>1. /\ l # <<>> /\ jb'.framel = Tail(l) /\ Put(k).n > cfg.min
          /\ heard' = Append(heard, Head(l).mem) /\ Head(l).mem \in Packets
          /\ Range(l) = Range(jb'.framel) \cup {Head(l)}
      BY <2>3, TakenOut
    <3>2. l \in Seq(Frame) /\ Put(k).n = Len(l) BY OldSound
    <3> HIDE DEF l
    <3>3. jb'.framel # <<>>
      <4>1. Len(l) > 1 BY <1>2, <3>1, <3>2
      <4>2. Len(Tail(l)) = Len(l) - 1 BY <3>1, <3>2
      <4> QED BY <3>1, <3>2, <4>1, <4>2
    <3>4. CASE Sent(k) \in Range(jb'.framel)
      <4>1. k \in Held' BY <3>4 DEF Held, Range, Sent
      <4> QED BY <1>1, <2>1, <3>3, <4>1
    <3>5. CASE Sent(k) = Head(l)
      <4>1. Head(l).mem = k BY <3>5 DEF Sent
      <4>2. heard \in Seq(Packets) BY DEF Types
      <4>3. heard' # <<>> /\ Last(heard') = k BY <3>1, <4>1, <4>2, AppendHolds
      <4>4. k \in Recent' BY <4>3 DEF Recent
      <4> QED BY <1>1, <2>1, <3>3, <4>4
    <3> QED BY <1>3, <3>1, <3>4, <3>5 DEF l
  <2> QED BY <2>2, <2>3
<1>4. CASE /\ Put(k).running = Old(k).running /\ Put(k).seq_put = Old(k).seq_put
           /\ Put(k).framel = Old(k).framel
  <2>1. Old(k).running BY <1>4, TakenOut
  <2>2. strm.ssrc_rx \in {0, Ssrc(k)} /\ Old(k) = jb BY <2>1, OldSound
  <2>3. Put(k).n = Old(k).n BY <1>4, OldSound
  <2>4. ~HasFrame(Put(k))
    <3>1. Put(k).n \in Nat /\ Put(k).min = cfg.min BY OldSound
    <3> QED BY <1>2, <2>3, <3>1 DEF HasFrame
  <2>5. jb'.framel = jb.framel /\ heard' = heard /\ jb'.seq_put = jb.seq_put
    BY <1>4, <2>2, <2>4, TakenOut
  <2>6. /\ jb.framel # <<>>
        /\ \E p \in net.arrived : /\ p \in Held \cup Recent
                                  /\ jb.seq_put = Number(p) /\ Ssrc(p) = strm.ssrc_rx
    BY <2>1, <2>2 DEF LastPut
  <2>7. PICK p \in net.arrived : /\ p \in Held \cup Recent
                                 /\ jb.seq_put = Number(p) /\ Ssrc(p) = strm.ssrc_rx
    BY <2>6
  <2>8. Ssrc(p) = Ssrc(k)
    <3>1. p \in Packets BY DEF Types
    <3> QED BY <2>2, <2>7, <3>1, SourceNumber
  <2>9. Held' = Held /\ Recent' = Recent BY <2>5 DEF Held, Recent
  <2> QED BY <1>1, <2>5, <2>6, <2>7, <2>8, <2>9
<1>5. \/ Sent(k) \in Range(Put(k).framel) /\ Put(k).seq_put = Sent(k).seq
      \/ /\ Put(k).running = Old(k).running /\ Put(k).seq_put = Old(k).seq_put
         /\ Put(k).framel = Old(k).framel
  <2>1. JitterBufferSound(Old(k)) /\ Sent(k) \in Frame BY OldSound
  <2>2. Put(k) = jbuf_put(Old(k), Sent(k)) BY DEF Put
  <2> QED BY <1>2, <2>1, <2>2, PutHolds
<1> QED BY <1>3, <1>4, <1>5

(* The frames that a new packet is put among tell where it belongs.         *)
LEMMA NewTells ==
  ASSUME IInv, Types, FramesKnown, HasJbuf, NEW k \in Packets, Takes(k), NetTakes(k),
         k \notin net.arrived, StaysNear
  PROVE  \A f \in Range(Old(k).framel) : TellsOrder(f, Sent(k)) /\ f.seq # Sent(k).seq
<1> SUFFICES ASSUME NEW f \in Range(Old(k).framel)
             PROVE  TellsOrder(f, Sent(k)) /\ f.seq # Sent(k).seq
  OBVIOUS
<1>1. /\ f.seq = Number(f.mem) /\ f.mem \in net.arrived /\ Ssrc(f.mem) = Ssrc(k)
      /\ f.mem \in Held
  BY PutKnown
<1>2. f.mem \in Packets /\ f.mem # k BY <1>1 DEF Types
<1>3. k \in net'.arrived \ net.arrived /\ strm.recv BY DEF NetTakes, Takes
<1>4. f.mem - k < Wrap \div 2 /\ (k - f.mem) + cfg.min < Wrap \div 2
  BY <1>1, <1>3 DEF StaysNear
<1>5. k - f.mem < Wrap \div 2
  <2>1. \A i \in Packets : i \in Int BY AudioStreamAssumption
  <2>2. cfg.min \in Nat /\ Wrap \div 2 \in Int BY WrapAssumption DEF IInv
  <2>3. f.mem \in Int /\ k \in Int BY <1>2, <2>1
  <2> QED BY <1>4, <2>2, <2>3
<1>6. /\ seq_less(Number(f.mem), Number(k)) <=> f.mem < k
      /\ Number(f.mem) = Number(k) <=> f.mem = k
  BY <1>1, <1>2, <1>4, <1>5, NumbersTell
<1> QED BY <1>1, <1>2, <1>6 DEF TellsOrder, Sent

LEMMA TakesOrdered ==
  ASSUME IInv, Types, FramesKnown, Ordered, NEW k \in Packets, Takes(k), NetTakes(k),
         cfg' = cfg, StaysNear
  PROVE  Ordered'
<1> SUFFICES ASSUME HasJbuf, net'.dups = 0, net'.worst <= cfg.min
             PROVE  /\ Increasing(heard') /\ InSendOrder(jb'.framel)
                    /\ heard' # <<>> =>
                         /\ \A f \in Range(jb'.framel) : Last(heard') < f.mem
                         /\ \E j \in net'.arrived : Last(heard') + cfg.min <= j
  BY DEF Ordered, InTime, HasJbuf
<1>0. /\ net.dups \in Nat /\ net.worst \in Int /\ net'.worst \in Int /\ cfg.min \in Nat
      /\ heard \in Seq(Packets) /\ Packets \subseteq Int /\ net.arrived \subseteq Packets
  BY AudioStreamAssumption DEF Types, NetTakes, IInv
<1>1. /\ k \notin net.arrived /\ net.dups = 0 /\ net.worst <= cfg.min
      /\ Overtaken(k) <= cfg.min
  BY <1>0, OvertakenBound DEF NetTakes
<1>2. /\ Increasing(heard) /\ InSendOrder(jb.framel)
      /\ heard # <<>> => /\ \A f \in Range(jb.framel) : Last(heard) < f.mem
                         /\ \E j \in net.arrived : Last(heard) + cfg.min <= j
  BY <1>1 DEF Ordered, InTime
<1> DEFINE l == Put(k).framel
<1>3. l \in Seq(Frame) /\ Put(k).n = Len(l) BY OldSound
<1>4. InSendOrder(l)
  <2>1. InSendOrder(Old(k).framel)
    <3>1. CASE strm.ssrc_rx \in {0, Ssrc(k)} BY <1>2, <3>1, OldSound
    <3>2. CASE strm.ssrc_rx \notin {0, Ssrc(k)}
      <4>1. Old(k).framel = <<>> BY <3>2, OldSound
      <4> QED BY <4>1 DEF InSendOrder
    <3> QED BY <3>1, <3>2
  <2>2. \A f \in Range(Old(k).framel) : TellsOrder(f, Sent(k)) BY <1>1, NewTells
  <2>3. JitterBufferSound(Old(k)) /\ Sent(k) \in Frame BY OldSound
  <2>4. Put(k) = jbuf_put(Old(k), Sent(k)) BY DEF Put
  <2> QED BY <2>1, <2>2, <2>3, <2>4, PutHolds
<1>5. heard # <<>> => Last(heard) < k
  <2> SUFFICES ASSUME heard # <<>> PROVE Last(heard) < k OBVIOUS
  <2>1. PICK j \in net.arrived : Last(heard) + cfg.min <= j BY <1>2
  <2>2. j - k <= Overtaken(k) /\ Overtaken(k) \in Int BY OvertakenBound
  <2>3. Last(heard) \in Packets /\ Last(heard) # k
    BY <1>1, RecentHeard DEF FramesKnown
  <2>4. j \in Int /\ k \in Int /\ Last(heard) \in Int BY <1>0, <2>3
  <2> QED BY <1>0, <1>1, <2>1, <2>2, <2>3, <2>4
<1>6. heard # <<>> => \A f \in Range(l) : Last(heard) < f.mem
  <2> SUFFICES ASSUME heard # <<>>, NEW f \in Range(l) PROVE Last(heard) < f.mem OBVIOUS
  <2>1. JitterBufferSound(Old(k)) /\ Sent(k) \in Frame BY OldSound
  <2>2. Put(k) = jbuf_put(Old(k), Sent(k)) BY DEF Put
  <2>3. f \in Range(Old(k).framel) \/ f = Sent(k) BY <2>1, <2>2, PutHolds
  <2>4. CASE f = Sent(k) BY <1>5, <2>4 DEF Sent
  <2>5. CASE f \in Range(Old(k).framel)
    <3>1. strm.ssrc_rx \in {0, Ssrc(k)} BY <2>5, PutKnown
    <3>2. f \in Range(jb.framel) BY <2>5, <3>1, OldSound
    <3> QED BY <1>2, <3>2
  <2> QED BY <2>3, <2>4, <2>5
<1>7. net'.arrived = net.arrived \cup {k} BY DEF NetTakes
<1>8. CASE ~HasFrame(Put(k))
  <2>1. jb'.framel = l /\ heard' = heard BY <1>8, TakenOut
  <2> HIDE DEF l
  <2> QED BY <1>2, <1>4, <1>6, <1>7, <2>1
<1>9. CASE HasFrame(Put(k))
  <2>1. /\ l # <<>> /\ jb'.framel = Tail(l) /\ Put(k).n > cfg.min
        /\ heard' = Append(heard, Head(l).mem) /\ Head(l).mem \in Packets
        /\ Range(l) = Range(jb'.framel) \cup {Head(l)}
    BY <1>9, TakenOut
  <2>2. /\ \A f \in Range(l) : f.mem \in net.arrived \cup {k}
    BY PutKnown
  <2> HIDE DEF l
  <2> DEFINE x == Head(l).mem
  <2>3. /\ InSendOrder(jb'.framel) /\ \A f \in Range(jb'.framel) : x < f.mem
    BY <1>3, <1>4, <2>1, TailHolds
  <2>4. l[Len(l)].mem >= x + (Len(l) - 1) BY <1>3, <1>4, <2>1, SpreadOut
  <2>5. l[Len(l)].mem \in net'.arrived
    <3>1. Len(l) \in DOMAIN l BY <1>3, <2>1
    <3>2. l[Len(l)] \in Range(l) BY <3>1 DEF Range
    <3> QED BY <1>7, <2>2, <3>2
  <2>6. heard # <<>> => Last(heard) < x BY <1>6, <2>1
  <2> HIDE DEF x
  <2>7. /\ heard' # <<>> /\ Last(heard') = x
        /\ DOMAIN heard' = 1..(Len(heard) + 1) /\ DOMAIN heard = 1..Len(heard)
        /\ Len(heard) \in Nat
        /\ \A i \in 1..Len(heard) : heard'[i] = heard[i]
        /\ heard'[Len(heard) + 1] = x
    BY <1>0, <2>1, AppendHolds DEF x
  <2>8. Increasing(heard')
    <3> SUFFICES ASSUME NEW i \in 1..(Len(heard) + 1), NEW j \in 1..(Len(heard) + 1), i < j
                 PROVE  heard'[i] < heard'[j]
      BY <2>7 DEF Increasing
    <3>1. i \in 1..Len(heard) /\ heard'[i] = heard[i] BY <2>7
    <3>2. CASE j # Len(heard) + 1
      <4>1. j \in 1..Len(heard) /\ heard'[j] = heard[j] BY <2>7, <3>2
      <4> QED BY <1>2, <2>7, <3>1, <4>1 DEF Increasing
    <3>3. CASE j = Len(heard) + 1
      <4>1. heard # <<>> /\ Last(heard) < x BY <1>0, <2>6, <3>1
      <4>2. heard[i] = Last(heard) \/ heard[i] < Last(heard)
        <5>1. Last(heard) = heard[Len(heard)] BY DEF Last
        <5>2. i = Len(heard) \/ i < Len(heard)
          <6>1. i \in 1..Len(heard) BY <3>1
          <6>2. Len(heard) \in Nat BY <2>7
          <6> QED BY <6>1, <6>2
        <5>3. Len(heard) \in 1..Len(heard) BY <2>7, <3>1
        <5> QED BY <1>2, <2>7, <3>1, <5>1, <5>2, <5>3 DEF Increasing
      <4>3. heard[i] \in Int /\ Last(heard) \in Int /\ x \in Int
        <5>1. heard[i] \in Packets BY <1>0, <3>1
        <5>2. Last(heard) \in Packets BY <4>1, RecentHeard
        <5> QED BY <1>0, <2>1, <5>1, <5>2 DEF x
      <4> QED BY <2>7, <3>1, <3>3, <4>1, <4>2, <4>3
    <3> QED BY <3>2, <3>3
  <2>9. Last(heard') + cfg.min <= l[Len(l)].mem
    <3>1. Len(l) \in Nat /\ Len(l) > cfg.min BY <1>3, <2>1
    <3>2. x \in Int
      <4>1. x \in Packets BY <2>1 DEF x
      <4> QED BY <1>0, <4>1
    <3>3. l[Len(l)].mem \in Int
      <4>1. l[Len(l)].mem \in Packets BY <1>0, <1>7, <2>5
      <4> QED BY <1>0, <4>1
    <3> QED BY <1>0, <2>4, <2>7, <3>1, <3>2, <3>3
  <2> QED BY <2>3, <2>5, <2>7, <2>8, <2>9
<1> QED BY <1>8, <1>9

(* A packet that is new, of a source that goes on, is neither late nor a    *)
(* repeated one: it is put into the buffer.                                 *)
LEMMA NewIsPut ==
  ASSUME IInv, Types, FramesKnown, LastPut, HasJbuf, cfg.min < cfg.max,
         NEW k \in Packets, Takes(k), NetTakes(k), k \notin net.arrived, net'.worst <= 1,
         StaysNear
  PROVE  Sent(k) \in Range(Put(k).framel)
<1>1. JitterBufferSound(Old(k)) /\ Sent(k) \in Frame /\ Put(k) = jbuf_put(Old(k), Sent(k))
  BY OldSound DEF Put
<1>2. \A f \in Range(Old(k).framel) : f.seq # Sent(k).seq BY NewTells
<1>3. ~TooLate(Old(k), Sent(k).seq)
  <2> SUFFICES ASSUME Old(k).running
               PROVE ~seq_less((Number(k) + Old(k).n) % Wrap, Old(k).seq_put)
    BY DEF TooLate, Sent
  <2>1. strm.ssrc_rx \in {0, Ssrc(k)} /\ Old(k) = jb BY OldSound
  <2>2. jb.framel # <<>> BY <2>1 DEF LastPut
  <2>3. PICK p \in net.arrived : /\ p \in Held \cup Recent
                                 /\ jb.seq_put = Number(p) /\ Ssrc(p) = strm.ssrc_rx
    BY <2>1 DEF LastPut
  <2>4. p \in Packets BY DEF Types
  <2>5. Ssrc(k) = Ssrc(p) BY <2>1, <2>3, <2>4, SourceNumber
  <2>6. k \in net'.arrived \ net.arrived /\ strm.recv BY DEF NetTakes, Takes
  <2>7. (k - p) + cfg.min < Wrap \div 2 BY <2>3, <2>5, <2>6 DEF StaysNear
  <2>8. p - k <= 1
    <3>1. p - k <= Overtaken(k) /\ Overtaken(k) \in Int BY OvertakenBound
    <3>2. net'.worst \in Int /\ net'.worst >= Overtaken(k) BY DEF NetTakes
    <3>3. p \in Int /\ k \in Int BY <2>4, AudioStreamAssumption
    <3> QED BY <3>1, <3>2, <3>3
  <2> DEFINE n == Old(k).n
  <2>9. n \in Nat /\ n <= cfg.min /\ n >= 1 /\ cfg.min \in Nat
    <3>1. n \in Nat /\ n <= cfg.min /\ n = Len(jb.framel) /\ jb.framel \in Seq(Frame)
      BY <2>1, OldSound
    <3>2. Len(jb.framel) # 0 BY <2>2, <3>1
    <3>3. cfg.min \in Nat BY OldSound
    <3> QED BY <3>1, <3>2, <3>3
  <2>10. p <= k + n /\ k - p + n < Wrap \div 2
    <3>1. p \in Int /\ k \in Int /\ Wrap \div 2 \in Int
      BY <2>4, AudioStreamAssumption, WrapAssumption
    <3> HIDE DEF n
    <3> QED BY <2>7, <2>8, <2>9, <3>1
  <2> HIDE DEF n
  <2>11. ~seq_less((Number(k) + n) % Wrap, Number(p))
    BY <2>4, <2>5, <2>9, <2>10, NumberNotLate
  <2> QED BY <2>1, <2>3, <2>11 DEF n
<1> QED BY <1>1, <1>2, <1>3, PutHolds

LEMMA TakesKept ==
  ASSUME IInv, Types, FramesKnown, LastPut, NoneIsDropped,
         NEW k \in Packets, Takes(k), NetTakes(k), cfg' = cfg, StaysNear
  PROVE  NoneIsDropped'
<1> SUFFICES ASSUME HasJbuf, cfg.min < cfg.max, net'.worst <= 1, ~net'.mixed,
                    NEW j \in net'.arrived \ net'.turned, Ssrc(j) = strm'.ssrc_rx
             PROVE  j \in Held' \/ j \in Range(heard')
  BY DEF NoneIsDropped, HasJbuf, Received
<1>1. /\ net'.arrived = net.arrived \cup {k} /\ strm'.ssrc_rx = Ssrc(k) /\ strm.recv
      /\ net'.turned = net.turned
  BY DEF NetTakes, Takes
<1>2. net.worst <= 1 /\ ~net.mixed /\ ~Mixes(k)
  <2>1. net.worst \in Int /\ net'.worst \in Int /\ net.mixed \in BOOLEAN
    BY DEF Types, NetTakes
  <2> QED BY <2>1 DEF NetTakes
<1>3. \A i \in Received : Ssrc(i) = strm.ssrc_rx => i \in Held \/ i \in Range(heard)
  BY <1>2 DEF NoneIsDropped
<1>4. Range(heard) \subseteq Range(heard') BY TakenOut
<1>5. \A f \in Range(Put(k).framel) : f.mem \in Held' \/ f.mem \in Range(heard')
  BY TakenOut DEF Held, Range
<1>6. ASSUME j \in Received PROVE j \in Held' \/ j \in Range(heard')
  <2>1. strm.ssrc_rx = Ssrc(k) BY <1>1, <1>2, <1>6 DEF Mixes
  <2>2. CASE j \in Range(heard) BY <1>4, <2>2
  <2>3. CASE j \in Held
    <3>1. PICK f \in Range(jb.framel) : f.mem = j BY <2>3, HeldIsRange
    <3>2. Old(k) = jb /\ Old(k).n <= cfg.min /\ Old(k).max = cfg.max /\ Old(k).n \in Nat
          /\ cfg.min \in Nat /\ cfg.max \in Nat
      BY <2>1, OldSound
    <3>3. Old(k).n < Old(k).max BY <3>2
    <3>4. JitterBufferSound(Old(k)) /\ Sent(k) \in Frame /\ Put(k) = jbuf_put(Old(k), Sent(k))
      BY OldSound DEF Put
    <3>5. f \in Range(Put(k).framel) BY <3>1, <3>2, <3>3, <3>4, PutHolds
    <3> QED BY <1>5, <3>1, <3>5
  <2> QED BY <1>1, <1>3, <1>6, <2>1, <2>2, <2>3
<1>7. ASSUME j \notin Received PROVE j \in Held' \/ j \in Range(heard')
  <2>1. j = k /\ k \notin net.arrived BY <1>1, <1>7 DEF Received
  <2>2. Sent(k) \in Range(Put(k).framel) BY <2>1, NewIsPut
  <2> QED BY <1>5, <2>1, <2>2 DEF Sent
<1> QED BY <1>6, <1>7

-----------------------------------------------------------------------------
(* The invariant of the packets.                                            *)

RInv == IInv /\ Types /\ FramesKnown /\ LastPut

LEMMA RInitInv ==
  ASSUME Init
  PROVE  RInv /\ Ordered /\ NoneIsDropped
<1>1. IInv BY InitInv
<1>2. /\ strm = [ssrc_rx |-> 0, pseq |-> -1, started |-> FALSE, recv |-> TRUE]
      /\ net = [arrived |-> {}, lost |-> {}, dups |-> 0, worst |-> 0, turned |-> {},
                mixed |-> FALSE]
      /\ heard = <<>> /\ jb = jbuf_alloc(cfg.min, cfg.max)
  BY DEF Init
<1>4. jb.framel = <<>> /\ jb.running = FALSE BY <1>2 DEF jbuf_alloc
<1>3. Types BY <1>2, <1>4 DEF Types, Held
<1>5. Range(jb.framel) = {} /\ Range(heard) = {} BY <1>2, <1>4 DEF Range
<1>6. FramesKnown /\ LastPut BY <1>4, <1>5 DEF FramesKnown, LastPut
<1>7. Ordered BY <1>2, <1>4 DEF Ordered, Increasing, InSendOrder
<1>8. NoneIsDropped BY <1>2 DEF NoneIsDropped, Received
<1> QED BY <1>1, <1>3, <1>6, <1>7, <1>8 DEF RInv

(* A step that touches neither the buffer nor what arrived.                 *)
LEMMA Untouched ==
  ASSUME RInv, UNCHANGED <<cfg, jb, heard>>, Types',
         strm'.ssrc_rx = strm.ssrc_rx, net'.arrived = net.arrived, net'.dups = net.dups,
         net'.worst = net.worst, net'.turned = net.turned, net'.mixed = net.mixed
  PROVE  /\ FramesKnown' /\ LastPut'
         /\ Ordered => Ordered'
         /\ NoneIsDropped => NoneIsDropped'
<1>1. Held' = Held /\ Recent' = Recent /\ Received' = Received /\ HasJbuf' = HasJbuf
  BY DEF Held, Recent, Received, HasJbuf
<1>2. FramesKnown' BY <1>1 DEF RInv, FramesKnown
<1>3. LastPut' BY <1>1 DEF RInv, LastPut
<1>4. Ordered => Ordered' BY <1>1 DEF Ordered, InTime
<1>5. NoneIsDropped => NoneIsDropped' BY <1>1 DEF NoneIsDropped
<1> QED BY <1>2, <1>3, <1>4, <1>5

LEMMA ListPackets ==
  ASSUME NEW b, JitterBufferSound(b)
  PROVE  {b.framel[i].mem : i \in DOMAIN b.framel} \subseteq Packets
<1>1. b.framel \in Seq(Frame) BY DEF JitterBufferSound, JitterBuffers
<1>2. \A i \in DOMAIN b.framel : b.framel[i] \in Frame BY <1>1
<1> QED BY <1>2, MemIsNumber

LEMMA ReceiveKnown ==
  ASSUME RInv, NEW k \in Packets, Receive(k)
  PROVE  /\ RInv'
         /\ StaysNear /\ Ordered => Ordered'
         /\ StaysNear /\ NoneIsDropped => NoneIsDropped'
<1>0. IInv /\ Types /\ FramesKnown /\ LastPut /\ IInv' BY ReceiveKeeps DEF RInv
<1>1. NetTakes(k) BY <1>0, PacketArrives
<1>2. PICK bad : rtp_recv(k, bad) BY DEF Receive
<1>3. cfg' = cfg BY DEF Receive
<1>4. /\ (~strm.recv /\ UNCHANGED <<strm, jb, heard>>) \/ Takes(k)
      /\ strm' \in [ssrc_rx : Nat, pseq : Int, started : BOOLEAN, recv : BOOLEAN]
      /\ heard' \in Seq(Packets)
  BY <1>0, <1>2, StreamTakes
<1>5. Types'
  <2>1. HasJbuf' \/ Held' = Held
    <3>1. CASE HasJbuf BY <1>3, <3>1 DEF HasJbuf
    <3>2. CASE ~HasJbuf BY <1>4, <3>2 DEF Takes, Held
    <3> QED BY <3>1, <3>2
  <2>2. HasJbuf' => Held' \subseteq Packets
    <3>1. HasJbuf' => JitterBufferSound(jb') BY <1>0 DEF IInv, JitterSound
    <3> QED BY <3>1, ListPackets DEF Held
  <2>3. Held' \subseteq Packets BY <1>0, <2>1, <2>2 DEF Types
  <2> QED BY <1>1, <1>4, <2>3 DEF Types, NetTakes
<1>6. CASE Takes(k)
  <2>1. FramesKnown' /\ LastPut' BY <1>0, <1>1, <1>3, <1>6, TakesKnown, TakesPut
  <2>2. StaysNear /\ Ordered => Ordered' BY <1>0, <1>1, <1>3, <1>6, TakesOrdered
  <2>3. StaysNear /\ NoneIsDropped => NoneIsDropped' BY <1>0, <1>1, <1>3, <1>6, TakesKept
  <2> QED BY <1>0, <1>5, <2>1, <2>2, <2>3 DEF RInv
<1>7. CASE ~strm.recv /\ UNCHANGED <<strm, jb, heard>>
  <2>1. /\ Held' = Held /\ Recent' = Recent /\ HasJbuf' = HasJbuf
        /\ net'.arrived = net.arrived \cup {k}
    BY <1>1, <1>3, <1>7 DEF Held, Recent, HasJbuf, NetTakes
  <2>2. FramesKnown' BY <1>0, <1>7, <2>1 DEF FramesKnown
  <2>3. LastPut' BY <1>0, <1>3, <1>7, <2>1 DEF LastPut
  <2>4. Ordered => Ordered'
    <3> SUFFICES ASSUME Ordered, InTime' PROVE Ordered' BY DEF Ordered
    <3>1. /\ net.dups \in Nat /\ net.worst \in Int /\ net'.worst \in Int /\ cfg.min \in Nat
      BY <1>0, <1>1 DEF Types, NetTakes, IInv
    <3>2. InTime BY <1>1, <1>3, <2>1, <3>1 DEF InTime, NetTakes
    <3>3. /\ Increasing(heard) /\ InSendOrder(jb.framel)
          /\ heard # <<>> => /\ \A f \in Range(jb.framel) : Last(heard) < f.mem
                             /\ \E j \in net.arrived : Last(heard) + cfg.min <= j
      BY <3>2 DEF Ordered
    <3> QED BY <1>3, <1>7, <2>1, <3>3 DEF Ordered
  <2>5. NoneIsDropped => NoneIsDropped'
    <3> SUFFICES ASSUME NoneIsDropped, HasJbuf, cfg.min < cfg.max, net'.worst <= 1,
                        ~net'.mixed, NEW j \in Received', Ssrc(j) = strm.ssrc_rx
                 PROVE  j \in Held \/ j \in Range(heard)
      BY <1>3, <1>7, <2>1 DEF NoneIsDropped
    <3>1. net.worst \in Int /\ net'.worst \in Int /\ net.mixed \in BOOLEAN
      BY <1>0, <1>1 DEF Types, NetTakes
    <3>2. net.worst <= 1 /\ ~net.mixed BY <1>1, <3>1 DEF NetTakes
    <3>3. j \in Received BY <1>1, <1>7 DEF NetTakes, Received
    <3> QED BY <3>2, <3>3 DEF NoneIsDropped
  <2> QED BY <1>0, <1>5, <2>2, <2>3, <2>4, <2>5 DEF RInv
<1> QED BY <1>4, <1>6, <1>7

LEMMA ResetKnown ==
  ASSUME RInv, stream_reset
  PROVE  /\ RInv'
         /\ Ordered => Ordered'
         /\ NoneIsDropped => NoneIsDropped'
<1>0. IInv /\ Types /\ FramesKnown /\ LastPut BY DEF RInv
<1>1. IInv'
  <2>1. Main BY DEF Main
  <2> QED BY <1>0, <2>1, MainKeeps
<1>2. UNCHANGED <<cfg, strm, heard>> BY DEF stream_reset
<1>3. /\ net' \in [arrived : SUBSET Packets, lost : SUBSET Packets, dups : Nat, worst : Int,
                    turned : SUBSET Packets, mixed : BOOLEAN]
      /\ net'.turned = net.turned \cup Held
      /\ net'.arrived = net.arrived /\ net'.dups = net.dups
      /\ net'.worst = net.worst /\ net'.mixed = net.mixed
  <2> DEFINE t == net.turned \cup Held
  <2>1. net' = [net EXCEPT !.turned = t] BY <1>0 DEF stream_reset, Types
  <2>2. t \in SUBSET Packets /\ t = net.turned \cup Held BY <1>0 DEF Types
  <2> HIDE DEF t
  <2> QED BY <1>0, <2>1, <2>2 DEF Types
<1>4. HasJbuf' = HasJbuf BY <1>2 DEF HasJbuf
<1>5. /\ HasJbuf => jb'.framel = <<>> /\ jb'.running = FALSE
      /\ ~HasJbuf => jb' = jb
  <2>1. HasJbuf => jb' = jbuf_flush(jb) /\ JitterBufferSound(jb)
    BY <1>0 DEF stream_reset, IInv, JitterSound
  <2>2. \A b : JitterBufferSound(b) =>
          jbuf_flush(b).framel = <<>> /\ jbuf_flush(b).running = FALSE
    BY DEF jbuf_flush, JitterBufferSound, JitterBuffers
  <2> QED BY <2>1, <2>2 DEF stream_reset
<1>6. HasJbuf => Held' = {} /\ Range(jb'.framel) = {} BY <1>5 DEF Held, Range
<1>7. Types'
  <2>1. Held' \subseteq Packets BY <1>0, <1>5, <1>6 DEF Types, Held
  <2> QED BY <1>0, <1>2, <1>3, <2>1 DEF Types
<1>8. FramesKnown' /\ LastPut'
  BY <1>0, <1>2, <1>3, <1>4, <1>5, <1>6 DEF FramesKnown, LastPut
<1>9. Ordered => Ordered'
  BY <1>2, <1>3, <1>4, <1>5, <1>6 DEF Ordered, InTime, InSendOrder
<1>10. NoneIsDropped => NoneIsDropped'
  <2> SUFFICES ASSUME NoneIsDropped, HasJbuf, cfg.min < cfg.max, net.worst <= 1,
                      ~net.mixed, NEW j \in Received', Ssrc(j) = strm.ssrc_rx
               PROVE  j \in Held' \/ j \in Range(heard)
    BY <1>2, <1>3, <1>4 DEF NoneIsDropped
  <2>1. j \in Received /\ j \notin Held BY <1>3 DEF Received
  <2> QED BY <2>1 DEF NoneIsDropped
<1> QED BY <1>0, <1>1, <1>7, <1>8, <1>9, <1>10 DEF RInv

(* Every step keeps the packets' invariant; what the decoder is given stays *)
(* in order and complete while the numbers tell.                            *)
LEMMA NextKnown ==
  ASSUME RInv, [Next]_vars
  PROVE  /\ RInv'
         /\ [StaysNear]_vars /\ Ordered => Ordered'
         /\ [StaysNear]_vars /\ NoneIsDropped => NoneIsDropped'
<1>0. IInv /\ Types /\ FramesKnown /\ LastPut /\ IInv' BY NextKeeps DEF RInv
<1>1. ASSUME UNCHANGED <<cfg, jb, heard>>,
             strm' \in [ssrc_rx : Nat, pseq : Int, started : BOOLEAN, recv : BOOLEAN],
             net' \in [arrived : SUBSET Packets, lost : SUBSET Packets, dups : Nat,
                       worst : Int, turned : SUBSET Packets, mixed : BOOLEAN],
             strm'.ssrc_rx = strm.ssrc_rx, net'.arrived = net.arrived, net'.dups = net.dups,
             net'.worst = net.worst, net'.turned = net.turned, net'.mixed = net.mixed
      PROVE  /\ RInv' /\ (Ordered => Ordered')
             /\ NoneIsDropped => NoneIsDropped'
  <2>1. Types' BY <1>0, <1>1 DEF Types, Held
  <2> QED BY <1>0, <1>1, <2>1, Untouched DEF RInv
<1>2. ASSUME UNCHANGED <<cfg, jb, heard, strm, net>>
      PROVE  /\ RInv' /\ (Ordered => Ordered')
             /\ NoneIsDropped => NoneIsDropped'
  BY <1>0, <1>1, <1>2 DEF Types
<1>3. CASE UNCHANGED vars BY <1>2, <1>3 DEF vars
<1>4. ASSUME NEW k \in Packets, Receive(k)
      PROVE  /\ RInv'
             /\ [StaysNear]_vars /\ Ordered => Ordered'
             /\ [StaysNear]_vars /\ NoneIsDropped => NoneIsDropped'
  <2>1. CASE UNCHANGED vars BY <1>3, <2>1
  <2>2. CASE ~UNCHANGED vars BY <1>4, <2>2, ReceiveKnown
  <2> QED BY <2>1, <2>2
<1>5. ASSUME NEW k \in Packets, Lose(k)
      PROVE  /\ RInv' /\ (Ordered => Ordered')
             /\ NoneIsDropped => NoneIsDropped'
  <2>1. UNCHANGED <<cfg, jb, heard, strm>> BY <1>5 DEF Lose
  <2>2. net' = [net EXCEPT !.lost = net.lost \cup {k}] BY <1>0, <1>5 DEF Lose, Types
  <2>3. net.lost \cup {k} \in SUBSET Packets BY <1>0 DEF Types
  <2> QED BY <1>0, <1>1, <2>1, <2>2, <2>3 DEF Types
<1>6. ASSUME NEW c \in Codecs, call_stream_start(c) \/ update_media(c)
      PROVE  /\ RInv' /\ (Ordered => Ordered')
             /\ NoneIsDropped => NoneIsDropped'
  BY <1>2, <1>6 DEF call_stream_start, update_media, Begins
<1>7. ASSUME call_stream_stop
      PROVE  /\ RInv' /\ (Ordered => Ordered')
             /\ NoneIsDropped => NoneIsDropped'
  BY <1>2, <1>7 DEF call_stream_stop, Begins
<1>8. ASSUME stream_hold
      PROVE  /\ RInv' /\ (Ordered => Ordered')
             /\ NoneIsDropped => NoneIsDropped'
  <2>1. UNCHANGED <<cfg, jb, heard, net>> /\ strm' = [strm EXCEPT !.recv = ~@]
    BY <1>8 DEF stream_hold, Begins
  <2> QED BY <1>0, <1>1, <2>1 DEF Types
<1>9. ASSUME SetEncoder \/ SetDecoder \/ Start \/ stop_tx \/ stop_rx
      PROVE  /\ RInv' /\ (Ordered => Ordered')
             /\ NoneIsDropped => NoneIsDropped'
  BY <1>2, <1>9 DEF SetEncoder, SetDecoder, Start, stop_tx, stop_rx
<1>10. ASSUME PlayerCallback \/ PlayerReads \/ SourceEncodes \/ SourceReturns
       PROVE  /\ RInv' /\ (Ordered => Ordered')
              /\ NoneIsDropped => NoneIsDropped'
  BY <1>2, <1>10 DEF PlayerCallback, PlayerReads, SourceEncodes, SourceReturns
<1> QED
  BY <1>3, <1>4, <1>5, <1>6, <1>7, <1>8, <1>9, <1>10, ResetKnown DEF Next, Main

-----------------------------------------------------------------------------
(* The theorems about packets.                                              *)

(* In every state, whatever arrives late, twice or mixed, the frames that   *)
(* wait are packets of the source the stream listens to, with their own     *)
(* numbers, and a running buffer remembers the last one put into it         *)
(* (jbuf_put, jbuf_get, stream.c:188-199).                                  *)
THEOREM Packetwise == Spec => []RInv
BY RInitInv, NextKnown, PTL DEF Spec

(* A call whose packets are overtaken by no more than min others, and       *)
(* repeated by none, has them decoded in the order they were sent in, for   *)
(* streams of any length, as long as each packet that arrives is less than  *)
(* half a turn of the numbers away from those it is compared with (seq_less *)
(* in jbuf.c compares numbers of 16 bits: further apart it orders them the  *)
(* other way round).                                                        *)
THEOREM DecodedInOrder == Spec /\ [][StaysNear]_vars => []PlaysInOrder
<1>1. Init => RInv /\ Ordered BY RInitInv
<1>2. RInv /\ Ordered /\ [Next]_vars /\ [StaysNear]_vars => (RInv /\ Ordered)'
  BY NextKnown
<1>3. Ordered => PlaysInOrder BY DEF Ordered, PlaysInOrder, InTime, Increasing
<1> QED BY <1>1, <1>2, <1>3, PTL DEF Spec

(* Under the same condition a jitter buffer with room for what is overtaken *)
(* by one packet drops nothing: what has arrived waits or was decoded, and  *)
(* no more than min frames wait (jbuf_put, jbuf_get, stream.c:188-199).     *)
THEOREM ArrivedIsDecoded == Spec /\ [][StaysNear]_vars => []KeepsWhatArrives
<1>1. Init => RInv /\ NoneIsDropped BY RInitInv
<1>2. RInv /\ NoneIsDropped /\ [Next]_vars /\ [StaysNear]_vars => (RInv /\ NoneIsDropped)'
  BY NextKnown
<1>3. RInv /\ NoneIsDropped => KeepsWhatArrives BY DEF RInv, IInv, Waits, KeepsWhatArrives
<1> QED BY <1>1, <1>2, <1>3, PTL DEF Spec

(* No source sends half a turn of the numbers (32768 packets).              *)
ShortSources ==
  \A j, k \in Packets, d \in MinDelays : Ssrc(j) = Ssrc(k) => (k - j) + d < Wrap \div 2

(* Both without a condition on steps, when no source sends half a turn of   *)
(* the numbers: the packets of one source are then never further apart.     *)
THEOREM ShortSourcesInOrder ==
  ASSUME ShortSources
  PROVE  Spec => [](PlaysInOrder /\ KeepsWhatArrives)
<1>1. Init => cfg.min \in MinDelays
  <2> SUFFICES ASSUME Init PROVE cfg.min \in MinDelays OBVIOUS
  <2>1. cfg \in [min : MinDelays, max : MaxDelays, dev : DevSizes] BY DEF Init
  <2> QED BY <2>1
<1>2. RInv /\ cfg.min \in MinDelays /\ [Next]_vars => (cfg.min \in MinDelays)'
  BY DEF Next, vars, Main, Receive, Lose, call_stream_start, update_media, call_stream_stop,
     stream_hold, Begins, SetEncoder, SetDecoder, Start, stream_reset, stop_tx, stop_rx,
     PlayerCallback, PlayerReads, SourceEncodes, SourceReturns
<1>3. RInv /\ RInv' /\ cfg.min \in MinDelays /\ [Next]_vars => [StaysNear]_vars
  <2> SUFFICES ASSUME RInv, RInv', cfg.min \in MinDelays,
                      NEW k \in net'.arrived \ net.arrived,
                      NEW j \in Held \cup Recent, Ssrc(j) = Ssrc(k)
               PROVE  j - k < Wrap \div 2 /\ (k - j) + cfg.min < Wrap \div 2
    BY DEF StaysNear
  <2>1. k \in Packets BY DEF RInv, Types
  <2>2. j \in Packets
    <3>1. Held \subseteq Packets BY DEF RInv, Types
    <3>2. Recent \subseteq Packets BY RecentHeard DEF Recent, RInv
    <3> QED BY <3>1, <3>2
  <2>3. (k - j) + cfg.min < Wrap \div 2 /\ (j - k) + cfg.min < Wrap \div 2
    BY <2>1, <2>2 DEF ShortSources
  <2>4. cfg.min \in Nat /\ Wrap \div 2 \in Int /\ j \in Int /\ k \in Int
    BY <2>1, <2>2, MemIsNumber, AudioStreamAssumption, WrapAssumption DEF RInv, IInv
  <2> QED BY <2>3, <2>4
<1> QED BY <1>1, <1>2, <1>3, Packetwise, DecodedInOrder, ArrivedIsDecoded, PTL DEF Spec

-----------------------------------------------------------------------------
(* How much sound the audio buffer holds.                                   *)

(* The least of a set of sizes.                                             *)
LEMMA MinIsLeast ==
  ASSUME NEW S, S \subseteq Nat, S # {}
  PROVE  Min(S) \in S /\ \A k \in S : Min(S) <= k
<1>1. \E m \in S : \A k \in S : m <= k BY LeastExists
<1> QED BY <1>1 DEF Min

(* The sizes of the beginnings of s: there is such a function, since there  *)
(* is one for each beginning.                                               *)
LEMMA SizesAre ==
  ASSUME NEW s \in Seq(Nat)
  PROVE  /\ Sizes(s) \in [0..Len(s) -> Nat] /\ Sizes(s)[0] = 0
         /\ \A i \in 1..Len(s) : Sizes(s)[i] = Sizes(s)[i - 1] + s[i]
<1> DEFINE Adds(g, n) == /\ g \in [0..n -> Nat] /\ g[0] = 0
                         /\ \A i \in 1..n : g[i] = g[i - 1] + s[i]
           F(g) == [i \in 0..Len(s) |-> IF i = 0 THEN 0 ELSE g[i - 1] + s[i]]
           none == {n \in 0..Len(s) : ~\E g : Adds(g, n)}
<1>0. Len(s) \in Nat /\ \A i \in 1..Len(s) : s[i] \in Nat OBVIOUS
<1>1. \E g : Adds(g, 0)
  <2>1. Adds([i \in 0..0 |-> 0], 0) OBVIOUS
  <2> QED BY <2>1
<1>2. ASSUME NEW n \in 1..Len(s), NEW g, Adds(g, n - 1)
      PROVE  \E h : Adds(h, n)
  <2> DEFINE h == [i \in 0..n |-> IF i = n THEN g[n - 1] + s[n] ELSE g[i]]
  <2>1. n - 1 \in 0..(n - 1) /\ \A i \in 0..(n - 1) : g[i] \in Nat BY <1>0, <1>2
  <2>2. h \in [0..n -> Nat]
    <3>1. \A i \in 0..n : (IF i = n THEN g[n - 1] + s[n] ELSE g[i]) \in Nat BY <1>0, <2>1
    <3> QED BY <3>1
  <2>3. h[0] = 0 BY <1>2
  <2>4. ASSUME NEW i \in 1..n PROVE h[i] = h[i - 1] + s[i]
    <3>1. i \in 0..n /\ i - 1 \in 0..n /\ i - 1 # n BY <1>0
    <3>2. h[i - 1] = g[i - 1] BY <3>1
    <3>3. CASE i = n BY <3>1, <3>2, <3>3
    <3>4. CASE i # n
      <4>1. i \in 1..(n - 1) BY <1>0, <3>4
      <4> QED BY <1>2, <3>1, <3>2, <3>4, <4>1
    <3> QED BY <3>3, <3>4
  <2> HIDE DEF h
  <2> QED BY <2>2, <2>3, <2>4
<1> HIDE DEF Adds
<1>3. none = {}
  <2> SUFFICES ASSUME none # {} PROVE FALSE OBVIOUS
  <2>1. none \subseteq Nat BY <1>0
  <2>2. PICK n \in none : \A k \in none : n <= k
    <3> HIDE DEF none
    <3> QED BY <2>1, LeastExists
  <2>3. n \in 1..Len(s) BY <1>0, <1>1, <2>2
  <2>4. n - 1 \in 0..Len(s) /\ n - 1 \notin none BY <1>0, <2>2, <2>3
  <2>5. \E g : Adds(g, n - 1) BY <2>4
  <2> QED BY <1>2, <2>2, <2>3, <2>5
<1>4. PICK g : Adds(g, Len(s)) BY <1>0, <1>3
<1>5. g = F(g)
  <2>1. \A i \in 0..Len(s) : g[i] = IF i = 0 THEN 0 ELSE g[i - 1] + s[i]
    BY <1>0, <1>4 DEF Adds
  <2>2. g \in [0..Len(s) -> Nat] BY <1>4 DEF Adds
  <2> QED BY <2>1, <2>2
<1> DEFINE z == CHOOSE size : size = F(size)
<1>6. z = F(z) BY <1>5
<1>7. Sizes(s) = z BY DEF Sizes
<1> HIDE DEF z
<1>8. z = g
  <2> DEFINE apart == {i \in 0..Len(s) : z[i] # g[i]}
  <2>1. /\ z[0] = 0 /\ \A i \in 1..Len(s) : z[i] = z[i - 1] + s[i]
        /\ z = [i \in 0..Len(s) |-> z[i]]
    <3>1. \A i \in 0..Len(s) : z[i] = IF i = 0 THEN 0 ELSE z[i - 1] + s[i] BY <1>6
    <3>2. z = [i \in 0..Len(s) |-> z[i]] BY <1>6
    <3> QED BY <1>0, <3>1, <3>2
  <2>2. apart = {}
    <3> SUFFICES ASSUME apart # {} PROVE FALSE OBVIOUS
    <3>1. apart \subseteq Nat BY <1>0
    <3>2. PICK i \in apart : \A k \in apart : i <= k
      <4> HIDE DEF apart
      <4> QED BY <3>1, LeastExists
    <3>3. i \in 1..Len(s) BY <1>0, <1>4, <2>1, <3>2 DEF Adds
    <3>4. i - 1 \in 0..Len(s) /\ i - 1 \notin apart
      <4>1. i \in Int /\ i - 1 \in 0..Len(s) /\ ~(i <= i - 1) BY <1>0, <3>3
      <4> HIDE DEF apart
      <4> QED BY <3>2, <4>1
    <3>5. z[i] = z[i - 1] + s[i] /\ g[i] = g[i - 1] + s[i] BY <1>4, <2>1, <3>3 DEF Adds
    <3> QED BY <3>2, <3>4, <3>5
  <2>3. \A i \in 0..Len(s) : z[i] = g[i] BY <2>2
  <2>4. g = [i \in 0..Len(s) |-> g[i]] BY <1>4 DEF Adds
  <2> QED BY <2>1, <2>3, <2>4
<1> QED BY <1>4, <1>7, <1>8 DEF Adds

(* Whatever adds up the pieces of t is its size, from where it begins.      *)
LEMMA TotalIs ==
  ASSUME NEW t \in Seq(Nat), NEW g, NEW b \in Int, g[0] = b,
         \A i \in 0..Len(t) : g[i] \in Int,
         \A i \in 1..Len(t) : g[i] = g[i - 1] + t[i]
  PROVE  \A i \in 0..Len(t) : Sizes(t)[i] = g[i] - b
<1> DEFINE apart == {i \in 0..Len(t) : Sizes(t)[i] # g[i] - b}
           z == Sizes(t)
<1>0. Len(t) \in Nat /\ \A i \in 1..Len(t) : t[i] \in Nat OBVIOUS
<1>1. /\ \A i \in 0..Len(t) : z[i] \in Nat
      /\ z[0] = 0 /\ \A i \in 1..Len(t) : z[i] = z[i - 1] + t[i]
  BY SizesAre
<1> HIDE DEF z
<1>2. apart = {}
  <2> SUFFICES ASSUME apart # {} PROVE FALSE OBVIOUS
  <2>1. apart \subseteq Nat BY <1>0
  <2>2. PICK i \in apart : \A k \in apart : i <= k
    <3> HIDE DEF apart
    <3> QED BY <2>1, LeastExists
  <2>3. i \in 0..Len(t) /\ z[i] # g[i] - b BY <2>2 DEF z
  <2>4. i \in 1..Len(t) BY <1>0, <1>1, <2>3
  <2>5. i - 1 \in 0..Len(t) /\ z[i - 1] = g[i - 1] - b
    <3>1. i - 1 \in 0..Len(t) /\ i - 1 \notin apart BY <1>0, <2>2, <2>4
    <3> QED BY <3>1 DEF z
  <2>6. z[i] = z[i - 1] + t[i] /\ g[i] = g[i - 1] + t[i] BY <1>1, <2>4
  <2>7. t[i] \in Nat /\ g[i - 1] \in Int BY <1>0, <2>4, <2>5
  <2> HIDE DEF apart
  <2> QED BY <2>3, <2>5, <2>6, <2>7
<1> QED BY <1>2

LEMMA EmptyTotal == Total(<<>>) = 0
<1>1. <<>> \in Seq(Nat) /\ Len(<<>>) = 0 OBVIOUS
<1> QED BY <1>1, SizesAre DEF Total

LEMMA AppendTotal ==
  ASSUME NEW s \in Seq(Nat), NEW f \in Nat
  PROVE  Total(Append(s, f)) = Total(s) + f /\ Total(s) \in Nat
<1> DEFINE n == Len(s)
           t == Append(s, f)
           g == [i \in 0..(n + 1) |-> IF i = n + 1 THEN Sizes(s)[n] + f ELSE Sizes(s)[i]]
           z == Sizes(s)
<1>0. n \in Nat /\ t \in Seq(Nat) /\ Len(t) = n + 1 /\ t[n + 1] = f
      /\ \A i \in 1..n : t[i] = s[i] /\ s[i] \in Nat
  OBVIOUS
<1>1. /\ \A i \in 0..n : z[i] \in Nat
      /\ z[0] = 0 /\ \A i \in 1..n : z[i] = z[i - 1] + s[i]
  BY SizesAre
<1>2. g = [i \in 0..(n + 1) |-> IF i = n + 1 THEN z[n] + f ELSE z[i]] OBVIOUS
<1> HIDE DEF z, t, n, g
<1>3. g[0] = 0 /\ g[n + 1] = z[n] + f /\ \A i \in 0..n : g[i] = z[i] BY <1>0, <1>1, <1>2
<1>4. ASSUME NEW i \in 0..Len(t) PROVE g[i] \in Int
  <2>1. CASE i = n + 1
    <3>1. z[n] \in Nat BY <1>0, <1>1
    <3> QED BY <1>0, <1>3, <2>1, <3>1
  <2>2. CASE i \in 0..n
    <3>1. z[i] \in Nat BY <1>1, <2>2
    <3> QED BY <1>3, <2>2, <3>1
  <2> QED BY <1>0, <2>1, <2>2
<1>5. ASSUME NEW i \in 1..Len(t) PROVE g[i] = g[i - 1] + t[i]
  <2>1. CASE i = n + 1 BY <1>0, <1>3, <2>1
  <2>2. CASE i \in 1..n
    <3>1. i - 1 \in 0..n /\ i \in 0..n BY <1>0, <2>2
    <3> QED BY <1>0, <1>1, <1>3, <2>2, <3>1
  <2> QED BY <1>0, <2>1, <2>2
<1>6. \A i \in 0..Len(t) : Sizes(t)[i] = g[i] - 0
  <2>1. t \in Seq(Nat) /\ 0 \in Int /\ g[0] = 0 BY <1>0, <1>3
  <2>2. \A i \in 0..Len(t) : g[i] \in Int BY <1>4
  <2>3. \A i \in 1..Len(t) : g[i] = g[i - 1] + t[i] BY <1>5
  <2> QED BY <2>1, <2>2, <2>3, TotalIs, Zenon
<1>7. Sizes(t)[n + 1] = z[n] + f
  <2>1. n + 1 \in 0..Len(t) /\ z[n] \in Nat BY <1>0, <1>1
  <2>2. Sizes(t)[n + 1] = g[n + 1] - 0 BY <1>6, <2>1
  <2> QED BY <1>0, <1>3, <2>1, <2>2
<1> QED BY <1>0, <1>1, <1>7 DEF Total, z, t, n

(* The end of s from its piece j + 1.                                       *)
LEMMA EndTotal ==
  ASSUME NEW s \in Seq(Nat), NEW j \in 0..Len(s)
  PROVE  /\ SubSeq(s, j + 1, Len(s)) \in Seq(Nat)
         /\ Total(SubSeq(s, j + 1, Len(s))) = Total(s) - Sizes(s)[j]
         /\ Total(s) \in Nat /\ Sizes(s)[j] \in Nat
<1> DEFINE n == Len(s)
           t == SubSeq(s, j + 1, Len(s))
           z == Sizes(s)
           g == [i \in 0..(n - j) |-> Sizes(s)[i + j]]
<1>0. /\ n \in Nat /\ j \in Nat /\ j <= n /\ t \in Seq(Nat) /\ Len(t) = n - j
      /\ \A i \in 1..(n - j) : t[i] = s[i + j] /\ s[i + j] \in Nat
  OBVIOUS
<1>1. /\ \A i \in 0..n : z[i] \in Nat
      /\ z[0] = 0 /\ \A i \in 1..n : z[i] = z[i - 1] + s[i]
  BY SizesAre
<1>2. g = [i \in 0..(n - j) |-> z[i + j]] OBVIOUS
<1>9. Total(s) = z[n] /\ z[j] = Sizes(s)[j] BY DEF Total
<1> HIDE DEF z, t, n, g
<1>3. \A i \in 0..(n - j) : g[i] = z[i + j] /\ i + j \in 0..n BY <1>0, <1>2
<1>4. g[0] = z[j] /\ z[j] \in Int /\ g[n - j] = z[n]
  <2>1. /\ 0 \in 0..(n - j) /\ n - j \in 0..(n - j) /\ j \in 0..n
        /\ 0 + j = j /\ (n - j) + j = n
    BY <1>0
  <2> QED BY <1>1, <1>3, <2>1
<1>5. ASSUME NEW i \in 0..Len(t) PROVE g[i] \in Int
  <2>1. i \in 0..(n - j) /\ i + j \in 0..n BY <1>0, <1>3
  <2> QED BY <1>1, <1>3, <2>1
<1>6. ASSUME NEW i \in 1..Len(t) PROVE g[i] = g[i - 1] + t[i]
  <2>1. i \in 1..(n - j) /\ i - 1 \in 0..(n - j) /\ i \in 0..(n - j) /\ i + j \in 1..n
    BY <1>0
  <2>2. g[i] = z[i + j] /\ g[i - 1] = z[(i - 1) + j] BY <1>3, <2>1
  <2>3. (i - 1) + j = (i + j) - 1 BY <1>0
  <2>4. z[i + j] = z[(i + j) - 1] + s[i + j] BY <1>1, <2>1
  <2> QED BY <1>0, <2>1, <2>2, <2>3, <2>4
<1>7. \A i \in 0..Len(t) : Sizes(t)[i] = g[i] - z[j]
  <2>1. t \in Seq(Nat) /\ z[j] \in Int /\ g[0] = z[j] BY <1>0, <1>4
  <2>2. \A i \in 0..Len(t) : g[i] \in Int BY <1>5
  <2>3. \A i \in 1..Len(t) : g[i] = g[i - 1] + t[i] BY <1>6
  <2> QED BY <2>1, <2>2, <2>3, TotalIs, Zenon
<1>8. Total(t) = z[n] - z[j]
  <2>1. Len(t) \in 0..Len(t) BY <1>0
  <2> QED BY <1>0, <1>4, <1>7, <2>1 DEF Total
<1> QED BY <1>0, <1>1, <1>8, <1>9 DEF t, n

LEMMA PrependTotal ==
  ASSUME NEW s \in Seq(Nat), NEW f \in Nat
  PROVE  <<f>> \o s \in Seq(Nat) /\ Total(<<f>> \o s) = f + Total(s)
<1> DEFINE t == <<f>> \o s
           n == Len(s)
           z == Sizes(t)
<1>0. /\ n \in Nat /\ t \in Seq(Nat) /\ Len(t) = n + 1 /\ t[1] = f
      /\ SubSeq(t, 2, n + 1) = s
  OBVIOUS
<1>1. z[0] = 0 /\ z[1] = z[0] + t[1] 
  <2>1. 1 \in 1..Len(t) BY <1>0
  <2>2. z[1] = z[1 - 1] + t[1] BY <1>0, <2>1, SizesAre
  <2> QED BY <1>0, <2>2, SizesAre
<1>2. Total(SubSeq(t, 1 + 1, Len(t))) = Total(t) - z[1] /\ Total(t) \in Nat
  <2>1. 1 \in 0..Len(t) BY <1>0
  <2> HIDE DEF t
  <2> QED BY <1>0, <2>1, EndTotal
<1> HIDE DEF t, z, n
<1>3. z[1] = f BY <1>0, <1>1
<1>4. 1 + 1 = 2 OBVIOUS
<1>5. Total(s) = Total(t) - f BY <1>0, <1>2, <1>3, <1>4
<1> QED BY <1>0, <1>2, <1>5 DEF t

-----------------------------------------------------------------------------
(* The audio buffer.                                                        *)

(* It counts what it holds, and has room for BufMax of the frames it is for. *)
BufferCounts(ab) ==
  /\ ab \in [alloc : BOOLEAN, frames : Seq(Nat), cur : Nat, wish : Nat, max : Nat,
             filling : BOOLEAN]
  /\ ab.cur = Total(ab.frames) /\ ab.max = ab.wish * BufMax

LEMMA RestTotal ==
  ASSUME NEW s \in Seq(Nat), NEW sz \in Nat
  PROVE  /\ Rest(s, sz) \in Seq(Nat)
         /\ Total(Rest(s, sz)) = Total(s) - Min({sz, Total(s)})
         /\ Total(s) - Min({sz, Total(s)}) \in Nat
<1> DEFINE n == Len(s)
           z == Sizes(s)
           ends == {i \in 0..Len(s) : Sizes(s)[i] >= sz}
           i == Min(ends)
           after == SubSeq(s, i + 1, Len(s))
           m == Min({sz, Total(s)})
<1>0. n \in Nat /\ \A k \in 0..n : z[k] \in Nat
  <2>1. z \in [0..n -> Nat] BY SizesAre
  <2> HIDE DEF z
  <2> QED BY <2>1
<1>1. Rest(s, sz) = IF ends = {} THEN <<>>
                    ELSE IF z[i] = sz THEN after ELSE <<z[i] - sz>> \o after
  BY DEF Rest
<1>2. Total(s) = z[n] /\ n \in 0..n /\ Total(s) \in Nat BY <1>0 DEF Total
<1>3. m \in {sz, Total(s)} /\ m <= sz /\ m <= Total(s)
  <2>1. {sz, Total(s)} \subseteq Nat /\ {sz, Total(s)} # {} BY <1>2
  <2> QED BY <2>1, MinIsLeast
<1>4. CASE ends = {}
  <2>1. ~(z[n] >= sz) BY <1>2, <1>4
  <2> HIDE DEF m, ends
  <2>2. m = Total(s) BY <1>2, <1>3, <2>1
  <2>3. Rest(s, sz) = <<>> BY <1>1, <1>4
  <2>4. <<>> \in Seq(Nat) OBVIOUS
  <2>5. Total(s) - m = 0 BY <1>2, <2>2
  <2> QED BY <2>3, <2>4, <2>5, EmptyTotal DEF m
<1>5. CASE ends # {}
  <2>1. i \in ends /\ \A k \in ends : i <= k
    <3>1. ends \subseteq Nat BY <1>0
    <3> HIDE DEF ends
    <3> QED BY <1>5, <3>1, MinIsLeast
  <2>2. i \in 0..n /\ z[i] >= sz BY <2>1
  <2>3. after \in Seq(Nat) /\ Total(after) = Total(s) - z[i] /\ z[i] \in Nat
    <3> HIDE DEF i
    <3> QED BY <2>2, EndTotal
  <2>4. z[i] <= Total(s)
    <3>1. Total(after) \in Nat
      <4> HIDE DEF after
      <4>1. Len(after) \in 0..Len(after) BY <2>3
      <4> QED BY <2>3, <4>1, SizesAre DEF Total
    <3> HIDE DEF i, after, z
    <3> QED BY <1>2, <2>3, <3>1
  <2> HIDE DEF i, after, z, m, ends
  <2>5. m = sz BY <1>2, <1>3, <2>2, <2>3, <2>4
  <2>6. CASE z[i] = sz
    <3>1. Rest(s, sz) = after BY <1>1, <1>5, <2>6
    <3>2. Total(s) - m \in Nat BY <1>2, <1>3, <2>5
    <3> QED BY <2>3, <2>5, <2>6, <3>1, <3>2 DEF m
  <2>7. CASE z[i] # sz
    <3>1. Rest(s, sz) = <<z[i] - sz>> \o after BY <1>1, <1>5, <2>7
    <3>2. z[i] - sz \in Nat BY <2>2, <2>3
    <3>3. /\ <<z[i] - sz>> \o after \in Seq(Nat)
          /\ Total(<<z[i] - sz>> \o after) = (z[i] - sz) + Total(after)
      <4> DEFINE f == z[i] - sz
      <4>1. f \in Nat BY <3>2
      <4> HIDE DEF f
      <4>2. <<f>> \o after \in Seq(Nat) /\ Total(<<f>> \o after) = f + Total(after)
        BY <2>3, <4>1, PrependTotal
      <4> QED BY <4>2 DEF f
    <3>4. (z[i] - sz) + (Total(s) - z[i]) = Total(s) - m BY <1>2, <2>3, <2>5
    <3>5. Total(s) - m \in Nat BY <1>2, <1>3, <2>5
    <3> QED BY <2>3, <3>1, <3>3, <3>4, <3>5 DEF m
  <2> QED BY <2>6, <2>7
<1> QED BY <1>4, <1>5

LEMMA ReadCounts ==
  ASSUME NEW ab, BufferCounts(ab), NEW sz \in Nat
  PROVE  /\ BufferCounts(aubuf_read(ab, sz))
         /\ aubuf_read(ab, sz).alloc = ab.alloc /\ aubuf_read(ab, sz).wish = ab.wish
<1> DEFINE rest == Rest(ab.frames, sz)
           cur == ab.cur - Min({sz, Total(ab.frames)})
           read == [ab EXCEPT !.filling = FALSE, !.frames = rest, !.cur = cur]
           silence == [ab EXCEPT !.filling = TRUE]
<1>1. aubuf_read(ab, sz) = IF ab.cur < (IF ab.filling THEN ab.wish ELSE sz)
                           THEN silence ELSE read
  BY DEF aubuf_read
<1>2. rest \in Seq(Nat) /\ Total(rest) = cur /\ cur \in Nat
  <2>1. ab.frames \in Seq(Nat) /\ ab.cur = Total(ab.frames) BY DEF BufferCounts
  <2> QED BY <2>1, RestTotal
<1> HIDE DEF rest, cur
<1>3. BufferCounts(read) /\ read.alloc = ab.alloc /\ read.wish = ab.wish
  <2>1. /\ read \in [alloc : BOOLEAN, frames : Seq(Nat), cur : Nat, wish : Nat, max : Nat,
                     filling : BOOLEAN]
        /\ read.frames = rest /\ read.cur = cur /\ read.max = ab.max
        /\ read.alloc = ab.alloc /\ read.wish = ab.wish
    BY <1>2 DEF BufferCounts
  <2> HIDE DEF read
  <2> QED BY <1>2, <2>1 DEF BufferCounts
<1>4. BufferCounts(silence) /\ silence.alloc = ab.alloc /\ silence.wish = ab.wish
  BY DEF BufferCounts
<1> HIDE DEF read, silence
<1> QED BY <1>1, <1>3, <1>4

(* What is appended stays, if the buffer has room for it.                   *)
LEMMA AppendCounts ==
  ASSUME NEW ab, BufferCounts(ab), NEW f \in Nat
  PROVE  /\ BufferCounts(aubuf_append(ab, f))
         /\ aubuf_append(ab, f).alloc = ab.alloc /\ aubuf_append(ab, f).wish = ab.wish
         /\ f <= ab.max => aubuf_append(ab, f).cur >= f
<1> DEFINE all == Append(ab.frames, f)
           cur == ab.cur + f
           full == [ab EXCEPT !.frames = Tail(all), !.cur = cur - Head(all)]
           room == [ab EXCEPT !.frames = all, !.cur = cur]
           B == [alloc : BOOLEAN, frames : Seq(Nat), cur : Nat, wish : Nat, max : Nat,
                 filling : BOOLEAN]
<1>1. aubuf_append(ab, f) = IF cur > ab.max THEN full ELSE room BY DEF aubuf_append
<1>2. ab \in B /\ ab.frames \in Seq(Nat) /\ ab.cur = Total(ab.frames) /\ ab.cur \in Nat
      /\ ab.max \in Nat
  BY DEF BufferCounts
<1>3. all \in Seq(Nat) /\ Total(all) = cur /\ cur \in Nat /\ all # <<>>
  <2>0. ab.frames \in Seq(Nat) BY <1>2
  <2>1. Total(all) = Total(ab.frames) + f BY <2>0, AppendTotal, Zenon
  <2>2. all \in Seq(Nat) /\ all # <<>>
    <3> DEFINE s == ab.frames
    <3> HIDE DEF s
    <3>1. s \in Seq(Nat) BY <2>0 DEF s
    <3>2. Append(s, f) \in Seq(Nat) /\ Len(Append(s, f)) = Len(s) + 1 /\ Len(s) \in Nat
      BY <3>1
    <3>3. Len(<<>>) = 0 OBVIOUS
    <3>4. Append(s, f) # <<>>
      <4>1. Len(Append(s, f)) # Len(<<>>) BY <3>2, <3>3
      <4> QED BY <4>1, Zenon
    <3> QED BY <3>2, <3>4 DEF s
  <2> HIDE DEF all
  <2> QED BY <1>2, <2>1, <2>2
<1>4. /\ Tail(all) \in Seq(Nat) /\ Head(all) \in Nat
      /\ Total(Tail(all)) = cur - Head(all) /\ cur - Head(all) \in Nat
      /\ ab.frames # <<>> => cur - Head(all) >= f
      /\ ab.frames = <<>> => cur = f
  <2>1. /\ Len(all) \in Nat /\ 1 \in 0..Len(all) /\ 1 \in 1..Len(all) /\ Head(all) = all[1]
        /\ all[1] \in Nat /\ Tail(all) = SubSeq(all, 2, Len(all))
    BY <1>2
  <2> HIDE DEF all, cur
  <2>2. Sizes(all)[1] = all[1]
    <3>1. Sizes(all)[1] = Sizes(all)[1 - 1] + all[1] BY <1>3, <2>1, SizesAre
    <3>2. 1 - 1 = 0 /\ Sizes(all)[0] = 0 BY <1>3, SizesAre
    <3> QED BY <2>1, <3>1, <3>2
  <2>3. /\ SubSeq(all, 1 + 1, Len(all)) \in Seq(Nat)
        /\ Total(SubSeq(all, 1 + 1, Len(all))) = Total(all) - Sizes(all)[1]
    BY <1>3, <2>1, EndTotal
  <2>4. Tail(all) \in Seq(Nat) /\ Total(Tail(all)) = cur - Head(all)
    <3>1. 1 + 1 = 2 OBVIOUS
    <3> QED BY <1>3, <2>1, <2>2, <2>3, <3>1
  <2>5. Total(Tail(all)) \in Nat
    <3>1. Len(Tail(all)) \in 0..Len(Tail(all)) BY <2>4
    <3> QED BY <2>4, <3>1, SizesAre DEF Total
  <2>6. ab.frames # <<>> => cur - Head(all) >= f
    <3> SUFFICES ASSUME ab.frames # <<>> PROVE cur - Head(all) >= f OBVIOUS
    <3> DEFINE s == ab.frames
    <3>1. s \in Seq(Nat) /\ 1 \in 0..Len(s) /\ 1 \in 1..Len(s) /\ Head(all) = s[1]
      BY <1>2 DEF all
    <3> HIDE DEF s
    <3>2. Total(s) \in Nat /\ Total(SubSeq(s, 1 + 1, Len(s))) = Total(s) - Sizes(s)[1]
          /\ SubSeq(s, 1 + 1, Len(s)) \in Seq(Nat)
      BY <3>1, EndTotal
    <3>3. Sizes(s)[1] = s[1] /\ s[1] \in Nat
      <4>1. Sizes(s)[1] = Sizes(s)[1 - 1] + s[1] BY <3>1, SizesAre
      <4>2. 1 - 1 = 0 /\ Sizes(s)[0] = 0 /\ s[1] \in Nat BY <3>1, SizesAre
      <4> QED BY <4>1, <4>2
    <3>4. Total(SubSeq(s, 1 + 1, Len(s))) \in Nat
      <4> DEFINE e == SubSeq(s, 1 + 1, Len(s))
      <4> HIDE DEF e
      <4>1. e \in Seq(Nat) BY <3>2 DEF e
      <4>2. Len(e) \in 0..Len(e) BY <4>1
      <4>3. Total(e) \in Nat BY <4>1, <4>2, SizesAre DEF Total
      <4> QED BY <4>3 DEF e
    <3>5. Total(s) - s[1] >= 0 BY <3>2, <3>3, <3>4
    <3>6. cur = Total(s) + f BY <1>2 DEF cur, s
    <3> QED BY <3>1, <3>2, <3>3, <3>5, <3>6
  <2>7. ab.frames = <<>> => cur = f BY <1>2, EmptyTotal DEF cur
  <2> QED BY <2>1, <2>4, <2>5, <2>6, <2>7
<1> DEFINE left == cur - Head(all)
           tail == Tail(all)
<1>5. full = [ab EXCEPT !.frames = tail, !.cur = left] OBVIOUS
<1>6. /\ tail \in Seq(Nat) /\ Total(tail) = left /\ left \in Nat
      /\ ab.frames # <<>> => left >= f
  BY <1>4
<1>7. ab.frames = <<>> => cur = f BY <1>4
<1>8. cur >= f BY <1>2
<1> HIDE DEF all, cur, left, tail
<1>9. /\ BufferCounts(full) /\ full.alloc = ab.alloc /\ full.wish = ab.wish
      /\ full.cur = left
  <2>1. /\ full \in B /\ full.frames = tail /\ full.cur = left /\ full.max = ab.max
        /\ full.alloc = ab.alloc /\ full.wish = ab.wish
    BY <1>2, <1>5, <1>6
  <2> HIDE DEF full
  <2> QED BY <1>6, <2>1 DEF BufferCounts
<1>10. /\ BufferCounts(room) /\ room.alloc = ab.alloc /\ room.wish = ab.wish
       /\ room.cur = cur
  <2>1. /\ room \in B /\ room.frames = all /\ room.cur = cur /\ room.max = ab.max
        /\ room.alloc = ab.alloc /\ room.wish = ab.wish
    BY <1>2, <1>3
  <2> HIDE DEF room
  <2> QED BY <1>3, <2>1 DEF BufferCounts
<1> HIDE DEF full, room
<1>11. f <= ab.max => (IF cur > ab.max THEN full ELSE room).cur >= f
  BY <1>2, <1>3, <1>6, <1>7, <1>8, <1>9, <1>10
<1> QED BY <1>1, <1>9, <1>10, <1>11

LEMMA NewBufferCounts ==
  /\ BufferCounts(NoBuffer)
  /\ \A size \in Nat : BufferCounts(Buffer(size)) /\ Buffer(size).wish = size /\ Buffer(size).alloc
<1>1. <<>> \in Seq(Nat) OBVIOUS
<1>2. BufMax \in Nat BY AudioStreamAssumption
<1>3. BufferCounts(NoBuffer) BY <1>1, <1>2, EmptyTotal DEF BufferCounts, NoBuffer
<1>4. ASSUME NEW size \in Nat
      PROVE  BufferCounts(Buffer(size)) /\ Buffer(size).wish = size /\ Buffer(size).alloc
  <2>1. size * BufMax \in Nat BY <1>2
  <2> QED BY <1>1, <2>1, EmptyTotal DEF BufferCounts, Buffer
<1> QED BY <1>3, <1>4

-----------------------------------------------------------------------------
(* The devices and the codecs they were opened for.                         *)

Works(a) ==
  /\ a = Devices(a.rx, a.tx, a.err)
  /\ a.rx = Aurx(a.rx.ac, a.rx.dec, a.rx.pt, a.rx.auplay, a.rx.aubuf, a.rx.resamp)
  /\ a.tx = Autx(a.tx.ac, a.tx.enc, a.tx.ausrc, a.tx.aubuf)
  /\ BufferCounts(a.rx.aubuf) /\ a.rx.auplay \in Nat /\ a.rx.resamp \in Nat
  /\ a.rx.auplay # 0 => a.rx.aubuf.alloc

AtRate(a) == a.rx.auplay \in {0, DevSize(a.rx.ac)} /\ a.tx.ausrc \in {0, DevSize(a.tx.ac)}

(* The frame decoded last is in the buffer.                                 *)
Buffered(r) == Fresh(r) => r.aubuf.cur >= r.auplay

LEMMA SizesPositive ==
  ASSUME cfg.dev \in Nat, NEW c
  PROVE  Size(c) \in Nat \ {0} /\ DevSize(c) \in Nat \ {0}
BY AudioStreamAssumption DEF Size, DevSize

LEMMA EqualRates ==
  ASSUME NEW c, NEW d, c = d \/ Equal(c, d)
  PROVE  DevSize(c) = DevSize(d)
BY DEF Equal, DevSize

LEMMA PlayerWorks ==
  ASSUME cfg.dev \in Nat, NEW r, NEW bad, BufferCounts(r.aubuf),
         r = Aurx(r.ac, r.dec, r.pt, r.auplay, r.aubuf, r.resamp),
         r.auplay \in Nat, r.resamp \in Nat, r.auplay # 0 => r.aubuf.alloc
  PROVE  \E aubuf : \E auplay, resamp \in Nat :
           /\ start_player(r, bad) = Aurx(r.ac, r.dec, r.pt, auplay, aubuf, resamp)
           /\ BufferCounts(aubuf) /\ (auplay # 0 => aubuf.alloc)
           /\ auplay \in {r.auplay, DevSize(r.ac)}
<1> DEFINE dsp == DevSize(r.ac)
           rs == IF r.resamp = 0 /\ dsp # Size(r.ac) THEN Size(r.ac) ELSE r.resamp
           ab == IF r.auplay = 0 /\ ~r.aubuf.alloc THEN Buffer(dsp) ELSE r.aubuf
           read == aubuf_read(ab, dsp)
<1>1. start_player(r, bad) =
        IF r.ac = None THEN r
        ELSE IF r.auplay # 0 \/ bad = "player" THEN Aurx(r.ac, r.dec, r.pt, r.auplay, ab, rs)
        ELSE Aurx(r.ac, r.dec, r.pt, dsp, read, rs)
  BY PlayerIs
<1>2. dsp \in Nat /\ Size(r.ac) \in Nat BY SizesPositive
<1>3. rs \in Nat BY <1>2
<1>4. BufferCounts(ab) /\ (r.auplay = 0 => ab.alloc) /\ (r.aubuf.alloc => ab.alloc)
  <2>1. BufferCounts(Buffer(dsp)) /\ Buffer(dsp).alloc BY <1>2, NewBufferCounts
  <2> QED BY <2>1
<1> HIDE DEF ab, rs
<1>5. BufferCounts(read) /\ read.alloc = ab.alloc
  <2> HIDE DEF dsp
  <2> QED BY <1>2, <1>4, ReadCounts
<1> HIDE DEF read
<1> DEFINE Is(x, y, z) == /\ start_player(r, bad) = Aurx(r.ac, r.dec, r.pt, x, y, z)
                          /\ BufferCounts(y) /\ (x # 0 => y.alloc)
                          /\ x \in {r.auplay, DevSize(r.ac)}
<1> HIDE DEF dsp
<1>6. CASE r.ac = None
  <2>1. Is(r.auplay, r.aubuf, r.resamp) BY <1>1, <1>6
  <2> HIDE DEF Is
  <2>2. \E y : \E x, z \in Nat : Is(x, y, z) BY <2>1
  <2> QED BY <2>2 DEF Is
<1>7. CASE r.ac # None /\ (r.auplay # 0 \/ bad = "player")
  <2>1. start_player(r, bad) = Aurx(r.ac, r.dec, r.pt, r.auplay, ab, rs) BY <1>1, <1>7
  <2>2. Is(r.auplay, ab, rs) BY <1>4, <2>1
  <2> HIDE DEF Is
  <2>3. \E y : \E x, z \in Nat : Is(x, y, z) BY <1>3, <2>2
  <2> QED BY <2>3 DEF Is
<1>8. CASE r.ac # None /\ r.auplay = 0 /\ bad # "player"
  <2>1. start_player(r, bad) = Aurx(r.ac, r.dec, r.pt, dsp, read, rs) BY <1>1, <1>8
  <2>2. read.alloc BY <1>4, <1>5, <1>8
  <2>3. dsp \in {r.auplay, DevSize(r.ac)} BY DEF dsp
  <2>4. Is(dsp, read, rs) BY <1>5, <2>1, <2>2, <2>3
  <2> HIDE DEF Is
  <2>5. \E y : \E x, z \in Nat : Is(x, y, z) BY <1>2, <1>3, <2>4
  <2> QED BY <2>5 DEF Is
<1> QED BY <1>6, <1>7, <1>8

LEMMA StartWorks ==
  ASSUME cfg.dev \in Nat, NEW a, Works(a), NEW bad
  PROVE  LET b == audio_start(a, bad) IN
         /\ Works(b) /\ (AtRate(a) => AtRate(b))
         /\ b.rx.ac = a.rx.ac /\ b.rx.dec = a.rx.dec /\ b.rx.pt = a.rx.pt /\ b.tx.ac = a.tx.ac
         /\ b.err => a.err \/ b.rx.auplay = 0 \/ (b.tx.ac # None /\ b.tx.ausrc = 0)
<1> DEFINE r == start_player(a.rx, bad)
           t == start_source(a.tx, bad)
           err == a.err \/ (r.ac # None /\ r.auplay = 0) \/ (t.ac # None /\ t.ausrc = 0)
           b == audio_start(a, bad)
<1>1. b = Devices(r, t, err) BY DEF audio_start, Devices
<1> DEFINE Is(x, y, z) == /\ r = Aurx(a.rx.ac, a.rx.dec, a.rx.pt, x, y, z)
                          /\ BufferCounts(y) /\ (x # 0 => y.alloc)
                          /\ x \in {a.rx.auplay, DevSize(a.rx.ac)}
<1>2. PICK aubuf : \E auplay, resamp \in Nat : Is(auplay, aubuf, resamp)
  BY PlayerWorks DEF Works
<1>3. PICK auplay \in Nat, resamp \in Nat : Is(auplay, aubuf, resamp)
  BY <1>2
<1>4. PICK ausrc, buf : /\ t = Autx(a.tx.ac, a.tx.enc, ausrc, buf)
                        /\ ausrc \in {0, a.tx.ausrc, DevSize(a.tx.ac)}
  <2> DEFINE src == IF bad = "source" THEN 0 ELSE DevSize(a.tx.ac)
             yes == TRUE
  <2>1. a.tx = Autx(a.tx.ac, a.tx.enc, a.tx.ausrc, a.tx.aubuf) BY DEF Works
  <2>2. t = IF a.tx.ac = None \/ a.tx.ausrc # 0 THEN a.tx
            ELSE Autx(a.tx.ac, a.tx.enc, src, yes)
    BY <2>1, SourceIs
  <2>3. src \in {0, a.tx.ausrc, DevSize(a.tx.ac)} OBVIOUS
  <2> HIDE DEF src, yes, t
  <2> QED BY <2>1, <2>2, <2>3
<1> HIDE DEF r, t, b
<1>5. /\ r.ac = a.rx.ac /\ r.dec = a.rx.dec /\ r.pt = a.rx.pt /\ r.auplay = auplay
      /\ r.aubuf = aubuf /\ r.resamp = resamp
  BY <1>3 DEF Aurx
<1>6. t.ac = a.tx.ac /\ t.enc = a.tx.enc /\ t.ausrc = ausrc /\ t.aubuf = buf
  BY <1>4 DEF Autx
<1>7. err => a.err \/ r.auplay = 0 \/ (t.ac # None /\ t.ausrc = 0) OBVIOUS
<1> HIDE DEF err
<1>8. b.rx = r /\ b.tx = t /\ (b.err <=> err) /\ b = Devices(b.rx, b.tx, b.err)
  <2>1. b.rx = r /\ b.tx = t /\ b.err = err BY <1>1 DEF Devices
  <2> QED BY <1>1, <2>1
<1>9. Works(b)
  <2>1. r = Aurx(r.ac, r.dec, r.pt, r.auplay, r.aubuf, r.resamp) BY <1>3, <1>5
  <2>2. t = Autx(t.ac, t.enc, t.ausrc, t.aubuf) BY <1>4, <1>6
  <2>3. BufferCounts(r.aubuf) /\ r.auplay \in Nat /\ r.resamp \in Nat
        /\ (r.auplay # 0 => r.aubuf.alloc)
    BY <1>3, <1>5
  <2> QED BY <1>8, <2>1, <2>2, <2>3 DEF Works
<1>10. AtRate(a) => AtRate(b) BY <1>3, <1>4, <1>5, <1>6, <1>8 DEF AtRate
<1> QED BY <1>5, <1>6, <1>7, <1>8, <1>9, <1>10 DEF b

LEMMA EncoderWorks ==
  ASSUME cfg.dev \in Nat, NEW a, Works(a), NEW c, NEW bad
  PROVE  LET b == audio_encoder_set(a, c, bad) IN
         /\ Works(b) /\ (AtRate(a) => AtRate(b))
         /\ b.rx.ac = a.rx.ac /\ b.rx.pt = a.rx.pt
<1> DEFINE t == a.tx
           e == IF c = t.ac THEN t.enc ELSE FALSE
           src == IF c = t.ac THEN t.ausrc ELSE IF ClosesSource(t, c) THEN 0 ELSE t.ausrc
<1> DEFINE yes == TRUE
           failed == Devices(a.rx, Autx(c, e, src, t.aubuf), yes)
           on == Devices(a.rx, Autx(c, yes, src, t.aubuf), a.err)
           b == audio_encoder_set(a, c, bad)
<1>1. t = Autx(t.ac, t.enc, t.ausrc, t.aubuf) /\ a = Devices(a.rx, t, a.err)
  BY DEF Works
<1>2. b = IF bad = "encoder" THEN failed ELSE IF src # 0 THEN on ELSE audio_start(on, bad)
  BY <1>1, EncoderIs
<1>3. AtRate(a) => src \in {0, DevSize(c)} BY EqualRates DEF AtRate, ClosesSource
<1> HIDE DEF t, e, src, yes
<1>4. Works(failed) /\ (AtRate(a) => AtRate(failed))
      /\ failed.rx.ac = a.rx.ac /\ failed.rx.pt = a.rx.pt
  <2>1. failed.rx = a.rx /\ failed.tx = Autx(c, e, src, t.aubuf) /\ failed.err = yes
    BY DEF Devices
  <2>2. failed = Devices(failed.rx, failed.tx, failed.err) BY DEF Devices
  <2> HIDE DEF failed
  <2>3. /\ failed.tx.ac = c /\ failed.tx.ausrc = src
        /\ failed.tx = Autx(failed.tx.ac, failed.tx.enc, failed.tx.ausrc, failed.tx.aubuf)
    BY <2>1 DEF Autx
  <2> QED BY <1>3, <2>1, <2>2, <2>3 DEF Works, AtRate
<1>5. Works(on) /\ (AtRate(a) => AtRate(on)) /\ on.rx.ac = a.rx.ac /\ on.rx.pt = a.rx.pt
  <2>1. on.rx = a.rx /\ on.tx = Autx(c, yes, src, t.aubuf) /\ on.err = a.err
    BY DEF Devices
  <2>2. on = Devices(on.rx, on.tx, on.err) BY DEF Devices
  <2> HIDE DEF on
  <2>3. /\ on.tx.ac = c /\ on.tx.ausrc = src
        /\ on.tx = Autx(on.tx.ac, on.tx.enc, on.tx.ausrc, on.tx.aubuf)
    BY <2>1 DEF Autx
  <2> QED BY <1>3, <2>1, <2>2, <2>3 DEF Works, AtRate
<1> HIDE DEF failed, on
<1> DEFINE s == audio_start(on, bad)
<1>6. Works(s) /\ (AtRate(a) => AtRate(s)) /\ s.rx.ac = a.rx.ac /\ s.rx.pt = a.rx.pt
  BY <1>5, StartWorks
<1> HIDE DEF s, b
<1>7. b \in {failed, on, s} BY <1>2 DEF s
<1>8. b = failed \/ b = on \/ b = s BY <1>7
<1> QED BY <1>4, <1>5, <1>6, <1>8 DEF b

(* Once it is set, the new codec's player is open, unless something failed. *)
LEMMA DecoderWorks ==
  ASSUME cfg.dev \in Nat, NEW a, Works(a), NEW c, NEW bad, a.rx.pt \in {a.rx.ac, c}
  PROVE  LET b == audio_decoder_set(a, c, bad) IN
         /\ Works(b) /\ b.rx.ac = c /\ b.rx.pt = c
         /\ AtRate(a) /\ bad # "decoder" => AtRate(b)
         /\ c # a.rx.ac /\ b.err => a.err \/ ~b.rx.dec \/ b.rx.auplay = 0
                                    \/ (b.tx.ac # None /\ b.tx.ausrc = 0)
<1> DEFINE r == a.rx
           e == IF c = r.ac THEN r.dec ELSE FALSE
           y == IF c = r.ac THEN r.pt ELSE c
           yes == TRUE
           u == Aurx(c, e, y, r.auplay, r.aubuf, r.resamp)
           v == Aurx(c, yes, y, r.auplay, r.aubuf, r.resamp)
           w == Aurx(c, yes, y, 0, r.aubuf, r.resamp)
           failed == Devices(u, a.tx, yes)
           on == Devices(v, a.tx, a.err)
           off == Devices(w, a.tx, a.err)
           b == audio_decoder_set(a, c, bad)
<1>1. /\ r = Aurx(r.ac, r.dec, r.pt, r.auplay, r.aubuf, r.resamp)
      /\ a = Devices(a.rx, a.tx, a.err) /\ a.rx = r
  BY DEF Works
<1>2. b = IF bad = "decoder" THEN failed
          ELSE IF Equal(c, r.ac) THEN on ELSE audio_start(off, bad)
  BY <1>1, DecoderIs
<1>3. y = c BY DEF r
<1>4. c # r.ac => e = FALSE OBVIOUS
<1>5. (c = r.ac \/ Equal(c, r.ac)) /\ AtRate(a) => r.auplay \in {0, DevSize(c)}
  <2>1. c = r.ac \/ Equal(c, r.ac) => DevSize(c) = DevSize(r.ac) BY EqualRates
  <2> QED BY <2>1 DEF AtRate
<1>6. BufferCounts(r.aubuf) /\ r.auplay \in Nat /\ r.resamp \in Nat
      /\ (r.auplay # 0 => r.aubuf.alloc) /\ a.tx = Autx(a.tx.ac, a.tx.enc, a.tx.ausrc, a.tx.aubuf)
  BY DEF Works
<1>7. AtRate(a) => a.tx.ausrc \in {0, DevSize(a.tx.ac)} BY DEF AtRate
<1> HIDE DEF r, e, y, yes
<1>8. /\ u.ac = c /\ u.pt = y /\ u.dec = e /\ u.auplay = r.auplay
      /\ u.aubuf = r.aubuf /\ u.resamp = r.resamp
      /\ u = Aurx(u.ac, u.dec, u.pt, u.auplay, u.aubuf, u.resamp)
  BY DEF Aurx
<1>9. /\ v.ac = c /\ v.pt = y /\ v.auplay = r.auplay
      /\ v.aubuf = r.aubuf /\ v.resamp = r.resamp
      /\ v = Aurx(v.ac, v.dec, v.pt, v.auplay, v.aubuf, v.resamp)
  BY DEF Aurx
<1>10. /\ w.ac = c /\ w.pt = y /\ w.auplay = 0
       /\ w.aubuf = r.aubuf /\ w.resamp = r.resamp
       /\ w = Aurx(w.ac, w.dec, w.pt, w.auplay, w.aubuf, w.resamp)
  BY DEF Aurx
<1> HIDE DEF u, v, w
<1>11. /\ failed.rx = u /\ failed.tx = a.tx /\ failed = Devices(failed.rx, failed.tx, failed.err)
       /\ on.rx = v /\ on.tx = a.tx /\ on.err = a.err /\ on = Devices(on.rx, on.tx, on.err)
       /\ off.rx = w /\ off.tx = a.tx /\ off.err = a.err /\ off = Devices(off.rx, off.tx, off.err)
  BY DEF Devices
<1> HIDE DEF failed, on, off
<1>12. Works(failed) /\ Works(on) /\ Works(off) BY <1>6, <1>8, <1>9, <1>10, <1>11 DEF Works
<1>13. AtRate(a) => AtRate(off) BY <1>7, <1>10, <1>11 DEF AtRate
<1>14. AtRate(a) /\ Equal(c, r.ac) => AtRate(on) BY <1>5, <1>7, <1>9, <1>11 DEF AtRate
<1>15. CASE bad = "decoder"
  <2>1. b = failed BY <1>2, <1>15
  <2>2. c # a.rx.ac => b.rx.dec = FALSE BY <1>1, <1>4, <1>8, <1>11, <2>1
  <2> HIDE DEF b
  <2> QED BY <1>3, <1>8, <1>11, <1>12, <1>15, <2>1, <2>2 DEF b
<1>16. CASE bad # "decoder" /\ Equal(c, r.ac)
  <2>1. b = on BY <1>2, <1>16
  <2> HIDE DEF b
  <2> QED BY <1>3, <1>9, <1>11, <1>12, <1>14, <1>16, <2>1 DEF b
<1>17. CASE bad # "decoder" /\ ~Equal(c, r.ac)
  <2> DEFINE s == audio_start(off, bad)
  <2>1. /\ Works(s) /\ (AtRate(off) => AtRate(s)) /\ s.rx.ac = off.rx.ac /\ s.rx.pt = off.rx.pt
        /\ s.err => off.err \/ s.rx.auplay = 0 \/ (s.tx.ac # None /\ s.tx.ausrc = 0)
    BY <1>12, StartWorks
  <2>2. b = s BY <1>2, <1>17
  <2> HIDE DEF b, s
  <2> QED BY <1>3, <1>10, <1>11, <1>13, <2>1, <2>2 DEF b
<1> QED BY <1>15, <1>16, <1>17

(* A device's frames fit what they are resampled into (AUDIO_SAMPSZ).       *)
FramesFit == DevSizes \subseteq 0..SampMax

(* The decoder's output goes into the buffer.                               *)
LEMMA OutputWorks ==
  ASSUME cfg.dev \in Nat, NEW r, BufferCounts(r.aubuf), NEW k,
         r = Aurx(r.ac, r.dec, r.pt, r.auplay, r.aubuf, r.resamp),
         r.auplay \in Nat, r.resamp \in Nat, r.auplay # 0 => r.aubuf.alloc
  PROVE  LET q == aurx_stream_decode(r, k) IN
         /\ q = Aurx(r.ac, r.dec, r.pt, r.auplay, q.aubuf, r.resamp)
         /\ BufferCounts(q.aubuf) /\ q.aubuf.alloc = r.aubuf.alloc
         /\ k # 0 /\ cfg.dev <= SampMax => Buffered(q)
<1> DEFINE size == IF k = 0 /\ r.ac \notin Plc THEN 0 ELSE Size(r.ac)
           out == IF r.resamp = 0 THEN size ELSE (size * DevSize(r.ac)) \div r.resamp
           full == aubuf_append(r.aubuf, out)
           q == aurx_stream_decode(r, k)
           fails == r.ac = None \/ ~r.dec \/ ~r.aubuf.alloc \/ (r.resamp # 0 /\ out > SampMax)
           p == [r EXCEPT !.aubuf = full]
<1>1. q = IF fails THEN r ELSE p BY DEF aurx_stream_decode, Aurx
<1>2. Size(r.ac) \in Nat \ {0} /\ DevSize(r.ac) \in Nat \ {0} BY SizesPositive
<1>3. size \in Nat BY <1>2
<1>4. k # 0 => size = Size(r.ac) OBVIOUS
<1>5. out \in Nat
  <2>1. size * DevSize(r.ac) \in Nat BY <1>2, <1>3
  <2> DEFINE n == size * DevSize(r.ac)
  <2> HIDE DEF n
  <2>2. r.resamp # 0 => n \div r.resamp \in Nat BY <2>1 DEF n
  <2> QED BY <1>3, <2>2 DEF n
<1>6. ASSUME k # 0, r.resamp = IF DevSize(r.ac) = Size(r.ac) THEN 0 ELSE Size(r.ac)
      PROVE  out = DevSize(r.ac)
  <2>1. CASE DevSize(r.ac) = Size(r.ac)
    <3>1. r.resamp = 0 BY <1>6, <2>1
    <3> QED BY <1>4, <1>6, <2>1, <3>1
  <2>2. CASE DevSize(r.ac) # Size(r.ac)
    <3>1. r.resamp = Size(r.ac) /\ r.resamp # 0 BY <1>2, <1>6, <2>2
    <3>2. \A x, z \in Nat \ {0} : (x * z) \div x = z OBVIOUS
    <3>3. (Size(r.ac) * DevSize(r.ac)) \div Size(r.ac) = DevSize(r.ac) BY <1>2, <3>2
    <3> QED BY <1>4, <1>6, <3>1, <3>3
  <2> QED BY <2>1, <2>2
<1>7. cfg.dev <= SampMax /\ DevSize(r.ac) # Size(r.ac) => DevSize(r.ac) <= SampMax
  BY DEF DevSize
<1> HIDE DEF size, out
<1>8. /\ BufferCounts(full) /\ full.alloc = r.aubuf.alloc /\ full.wish = r.aubuf.wish
      /\ out <= r.aubuf.max => full.cur >= out
  BY <1>5, AppendCounts
<1> HIDE DEF full
<1>9. p = Aurx(r.ac, r.dec, r.pt, r.auplay, full, r.resamp) BY DEF Aurx
<1>10. p.ac = r.ac /\ p.dec = r.dec /\ p.auplay = r.auplay /\ p.aubuf = full
       /\ p.resamp = r.resamp
  <2> HIDE DEF p
  <2> QED BY <1>9 DEF Aurx
<1>11. CASE fails
  <2>1. q = r BY <1>1, <1>11
  <2>2. ASSUME k # 0, cfg.dev <= SampMax, Fresh(r) PROVE FALSE
    <3>1. /\ r.dec /\ r.ac # None /\ r.auplay = DevSize(r.ac)
          /\ r.resamp = IF DevSize(r.ac) = Size(r.ac) THEN 0 ELSE Size(r.ac)
      BY <2>2 DEF Fresh
    <3>2. r.aubuf.alloc BY <1>2, <3>1
    <3>3. r.resamp # 0 /\ out > SampMax BY <1>11, <3>1, <3>2
    <3>4. out = DevSize(r.ac) BY <1>6, <2>2, <3>1
    <3>5. DevSize(r.ac) # Size(r.ac) BY <3>1, <3>3
    <3>6. DevSize(r.ac) <= SampMax /\ SampMax \in Nat BY <1>7, <2>2, <3>5, AudioStreamAssumption
    <3> QED BY <1>2, <3>3, <3>4, <3>6
  <2> HIDE DEF q
  <2> QED BY <2>1, <2>2 DEF Buffered, q
<1>12. CASE ~fails
  <2>1. q = p BY <1>1, <1>12
  <2>2. ASSUME k # 0, Fresh(p) PROVE p.aubuf.cur >= p.auplay
    <3>1. /\ r.auplay = DevSize(r.ac) /\ full.wish = r.auplay
          /\ r.resamp = IF DevSize(r.ac) = Size(r.ac) THEN 0 ELSE Size(r.ac)
      BY <1>10, <2>2 DEF Fresh
    <3>2. out = r.auplay BY <1>6, <2>2, <3>1
    <3>3. out <= r.aubuf.max
      <4>1. r.aubuf.max = r.auplay * BufMax BY <1>8, <3>1 DEF BufferCounts
      <4>2. BufMax \in Nat \ {0} BY AudioStreamAssumption
      <4>3. \A x, z \in Nat : z # 0 => x <= x * z OBVIOUS
      <4> QED BY <3>2, <4>1, <4>2, <4>3
    <3> QED BY <1>8, <1>10, <3>2, <3>3
  <2> HIDE DEF q, p
  <2> QED BY <1>8, <1>9, <1>10, <2>1, <2>2 DEF Buffered, q
<1> QED BY <1>11, <1>12

LEMMA DecodedWorks ==
  ASSUME cfg.dev \in Nat, NEW a, Works(a), NEW k
  PROVE  LET b == Decoded(a, k) IN
         /\ Works(b) /\ (AtRate(a) => AtRate(b)) /\ b.err = a.err
         /\ b.rx.ac = a.rx.ac /\ b.rx.pt = a.rx.pt
         /\ k # 0 /\ cfg.dev <= SampMax => Buffered(b.rx)
<1> DEFINE q == aurx_stream_decode(a.rx, k)
           b == Decoded(a, k)
<1>1. /\ q = Aurx(a.rx.ac, a.rx.dec, a.rx.pt, a.rx.auplay, q.aubuf, a.rx.resamp)
      /\ BufferCounts(q.aubuf) /\ q.aubuf.alloc = a.rx.aubuf.alloc
      /\ k # 0 /\ cfg.dev <= SampMax => Buffered(q)
  BY OutputWorks DEF Works
<1>2. b = [a EXCEPT !.rx = q] BY DEF Decoded, Works, Devices
<1>3. a = Devices(a.rx, a.tx, a.err) BY DEF Works
<1> HIDE DEF q, b
<1>4. /\ q.ac = a.rx.ac /\ q.dec = a.rx.dec /\ q.pt = a.rx.pt /\ q.auplay = a.rx.auplay
      /\ q.resamp = a.rx.resamp
  BY <1>1 DEF Aurx
<1>5. b = Devices(q, a.tx, a.err) BY <1>2, <1>3 DEF Devices
<1>6. b.rx = q /\ b.tx = a.tx /\ b.err = a.err BY <1>5 DEF Devices
<1>7. Works(b)
  <2>1. q = Aurx(q.ac, q.dec, q.pt, q.auplay, q.aubuf, q.resamp) BY <1>1, <1>4
  <2> QED BY <1>1, <1>4, <1>5, <1>6, <2>1 DEF Works
<1>8. AtRate(a) => AtRate(b) BY <1>4, <1>6 DEF AtRate
<1> QED BY <1>1, <1>4, <1>6, <1>7, <1>8 DEF b

(* A packet is decoded into the buffer, by the codec of its payload type.   *)
LEMMA PacketWorks ==
  ASSUME cfg.dev \in Nat, NEW a, Works(a), ~a.err, a.rx.pt = a.rx.ac, NEW k, NEW bad
  PROVE  LET b == stream_recv_handler(a, k, bad) IN
         /\ Works(b) /\ b.rx.pt = b.rx.ac
         /\ AtRate(a) /\ bad # "decoder" => AtRate(b)
         /\ (/\ k \notin Others \cup {0} /\ cfg.dev <= SampMax
             /\ b.tx.ac # None => b.tx.ausrc # 0) => Buffered(b.rx)
<1> DEFINE c == PayloadType(k)
           new == [a EXCEPT !.rx.pt = c]
           set == audio_decoder_set(new, c, bad)
           b == stream_recv_handler(a, k, bad)
           old == Decoded(a, k)
           dec == Decoded(set, k)
           s == [a.rx EXCEPT !.pt = c]
<1>1. b = IF k \in Others THEN a
          ELSE IF NewPayloadType(a.rx, k) THEN IF set.err THEN set ELSE dec
          ELSE old
  BY DEF stream_recv_handler
<1>2. a = Devices(a.rx, a.tx, a.err)
      /\ a.rx = Aurx(a.rx.ac, a.rx.dec, a.rx.pt, a.rx.auplay, a.rx.aubuf, a.rx.resamp)
  BY DEF Works
<1>3. new = [a EXCEPT !.rx = s] BY <1>2 DEF Devices
<1> HIDE DEF new
<1>4. NewPayloadType(a.rx, k) => k \notin Others \cup {0} /\ c # a.rx.ac
  BY DEF NewPayloadType
<1> HIDE DEF c
<1>5. s = Aurx(a.rx.ac, a.rx.dec, c, a.rx.auplay, a.rx.aubuf, a.rx.resamp) BY <1>2 DEF Aurx
<1> HIDE DEF s
<1>6. new = Devices(s, a.tx, a.err) BY <1>2, <1>3 DEF Devices
<1>7. /\ s.ac = a.rx.ac /\ s.pt = c /\ s.auplay = a.rx.auplay /\ s.aubuf = a.rx.aubuf
      /\ s.resamp = a.rx.resamp
      /\ s = Aurx(s.ac, s.dec, s.pt, s.auplay, s.aubuf, s.resamp)
  BY <1>5 DEF Aurx
<1>8. new.rx = s /\ new.tx = a.tx /\ new.err = a.err BY <1>6 DEF Devices
<1>9. Works(new) /\ (AtRate(a) => AtRate(new)) BY <1>6, <1>7, <1>8 DEF Works, AtRate
<1>10. new.rx.pt = c /\ new.rx.ac = a.rx.ac /\ ~new.err BY <1>7, <1>8
<1> HIDE DEF set
<1>11. /\ Works(set) /\ set.rx.ac = c /\ set.rx.pt = c
       /\ AtRate(a) /\ bad # "decoder" => AtRate(set)
       /\ c # a.rx.ac /\ set.err => ~set.rx.dec \/ set.rx.auplay = 0
                                    \/ (set.tx.ac # None /\ set.tx.ausrc = 0)
  BY <1>9, <1>10, DecoderWorks DEF set
<1> HIDE DEF old, dec
<1>12. /\ Works(dec) /\ (AtRate(set) => AtRate(dec)) /\ dec.rx.ac = c /\ dec.rx.pt = c
       /\ k # 0 /\ cfg.dev <= SampMax => Buffered(dec.rx)
  BY <1>11, DecodedWorks DEF dec
<1>13. /\ Works(old) /\ (AtRate(a) => AtRate(old)) /\ old.rx.ac = a.rx.ac /\ old.rx.pt = a.rx.pt
       /\ k # 0 /\ cfg.dev <= SampMax => Buffered(old.rx)
  BY DecodedWorks DEF old
<1> HIDE DEF b
<1> DEFINE Done(x) == /\ Works(x) /\ x.rx.pt = x.rx.ac
                      /\ AtRate(a) /\ bad # "decoder" => AtRate(x)
                      /\ (/\ k \notin Others \cup {0} /\ cfg.dev <= SampMax
                          /\ x.tx.ac # None => x.tx.ausrc # 0) => Buffered(x.rx)
<1>14. k \in Others => Done(a) OBVIOUS
<1>15. k \notin Others /\ NewPayloadType(a.rx, k) /\ set.err => Done(set)
  <2> SUFFICES ASSUME k \notin Others, NewPayloadType(a.rx, k), set.err PROVE Done(set)
    OBVIOUS
  <2>1. ~Fresh(set.rx) \/ (set.tx.ac # None /\ set.tx.ausrc = 0)
    <3>1. DevSize(c) # 0 BY SizesPositive
    <3> QED BY <1>4, <1>11, <3>1 DEF Fresh
  <2> QED BY <1>11, <2>1 DEF Buffered
<1>16. k \notin Others /\ NewPayloadType(a.rx, k) /\ ~set.err => Done(dec)
  BY <1>11, <1>12
<1>17. k \notin Others /\ ~NewPayloadType(a.rx, k) => Done(old)
  BY <1>13
<1> HIDE DEF Done
<1>18. Done(b) BY <1>1, <1>14, <1>15, <1>16, <1>17
<1> QED BY <1>18 DEF Done, b

-----------------------------------------------------------------------------
(* Codecs, devices and the buffer between them, in every step.              *)

DInv ==
  /\ cfg.dev \in DevSizes /\ Works(Audio) /\ rx.pt = rx.ac
  /\ spent \in [updates : Nat, troubles : Nat]
  /\ spent.troubles = 0 => AtRate(Audio)

LEMMA DInvHolds ==
  ASSUME DInv
  PROVE  BufferSound /\ DevicesMatch
<1>1. Audio.rx = rx /\ Audio.tx = tx BY DEF Audio
<1> QED BY <1>1 DEF DInv, Works, AtRate, BufferCounts, BufferSound, DevicesMatch

LEMMA DInitInv ==
  ASSUME Init
  PROVE  DInv
<1>1. cfg.dev \in DevSizes
  <2>1. cfg \in [min : MinDelays, max : MaxDelays, dev : DevSizes] BY DEF Init
  <2> QED BY <2>1
<1>2. spent \in [updates : Nat, troubles : Nat] BY DEF Init
<1>3. /\ Audio.rx = rx /\ Audio.tx = tx
      /\ Audio = Devices(Audio.rx, Audio.tx, Audio.err)
  BY DEF Audio, Devices
<1>4. /\ rx = Aurx(rx.ac, rx.dec, rx.pt, rx.auplay, rx.aubuf, rx.resamp)
      /\ tx = Autx(tx.ac, tx.enc, tx.ausrc, tx.aubuf)
      /\ rx.ac = None /\ rx.pt = None /\ rx.auplay = 0 /\ rx.aubuf = NoBuffer /\ rx.resamp = 0
      /\ tx.ausrc = 0
  BY DEF Init, Aurx, Autx
<1> QED BY <1>1, <1>2, <1>3, <1>4, NewBufferCounts DEF DInv, Works, AtRate

(* The devices become a.                                                    *)
LEMMA WorksBecomes ==
  ASSUME NEW a, Works(a), Becomes(a), cfg' = cfg
  PROVE  Works(Audio)' /\ (AtRate(a) => AtRate(Audio)') /\ rx' = a.rx
<1>1. rx' = a.rx /\ tx' = a.tx BY DEF Becomes
<1>2. /\ Audio'.rx = rx' /\ Audio'.tx = tx'
      /\ Audio' = Devices(Audio'.rx, Audio'.tx, Audio'.err)
  BY DEF Audio, Devices
<1>3. Works(Audio') BY <1>1, <1>2 DEF Works
<1>4. Works(Audio)'
  <2> DEFINE x == Audio'
  <2>1. Works(x) BY <1>3
  <2> QED BY <1>3 DEF Works
<1>5. DevSize(tx.ac)' = DevSize(a.tx.ac) /\ DevSize(rx.ac)' = DevSize(a.rx.ac)
  BY <1>1 DEF DevSize
<1>6. AtRate(a) => AtRate(Audio)' BY <1>1, <1>2, <1>5 DEF AtRate, Audio, DevSize
<1> QED BY <1>1, <1>4, <1>6

LEMMA TroublesCount ==
  ASSUME spent \in [updates : Nat, troubles : Nat], NEW n \in Nat, Trouble(n)
  PROVE  /\ spent' \in [updates : Nat, troubles : Nat]
         /\ spent'.troubles = 0 => spent.troubles = 0 /\ n = 0
BY DEF Trouble

(* A frame the stream gives to the decoder reaches the audio buffer.        *)
LEMMA DeliveredWorks ==
  ASSUME DInv, heard \in Seq(Packets), NEW STATE st, NEW STATE seq, NEW STATE k, NEW bad,
         Deliver(st, seq, k, bad), cfg' = cfg
  PROVE  /\ Works(Audio)' /\ rx'.pt = rx'.ac
         /\ AtRate(Audio) /\ bad # "decoder" => AtRate(Audio)'
         /\ FramesFit => DecodedIsBuffered
<1> DEFINE lost == Decoded(Audio, 0)
           a == IF lostcalc(seq) > 0 THEN lost ELSE Audio
           b == stream_recv_handler(a, k, bad)
<1>1. heard' = (IF k = 0 THEN heard ELSE Append(heard, k)) /\ Becomes(b) BY DEF Deliver
<1>2. /\ Works(Audio) /\ Audio.rx.pt = Audio.rx.ac /\ ~Audio.err /\ cfg.dev \in Nat
      /\ FramesFit => cfg.dev <= SampMax
  <2>1. Audio.rx = rx /\ ~Audio.err BY DEF Audio
  <2>2. cfg.dev \in Nat /\ SampMax \in Nat BY AudioStreamAssumption DEF DInv
  <2> QED BY <2>1, <2>2 DEF DInv, FramesFit
<1>3. /\ Works(lost) /\ (AtRate(Audio) => AtRate(lost)) /\ ~lost.err
      /\ lost.rx.pt = lost.rx.ac
  BY <1>2, DecodedWorks
<1> HIDE DEF lost
<1>4. Works(a) /\ (AtRate(Audio) => AtRate(a)) /\ ~a.err /\ a.rx.pt = a.rx.ac
  BY <1>2, <1>3
<1> HIDE DEF a
<1>5. /\ Works(b) /\ b.rx.pt = b.rx.ac
      /\ AtRate(a) /\ bad # "decoder" => AtRate(b)
      /\ (/\ k \notin Others \cup {0} /\ cfg.dev <= SampMax
          /\ b.tx.ac # None => b.tx.ausrc # 0) => Buffered(b.rx)
  BY <1>2, <1>4, PacketWorks
<1> HIDE DEF b
<1>6. Works(Audio)' /\ (AtRate(b) => AtRate(Audio)') /\ rx' = b.rx /\ tx' = b.tx
  BY <1>1, <1>5, WorksBecomes DEF Becomes
<1>7. heard' # heard => k # 0 /\ Last(heard') = k
  <2> SUFFICES ASSUME k # 0 PROVE Last(Append(heard, k)) = k BY <1>1
  <2>1. heard \in Seq(Packets \cup {k}) OBVIOUS
  <2> QED BY <2>1 DEF Last
<1>8. FramesFit => DecodedIsBuffered BY <1>2, <1>5, <1>6, <1>7 DEF DecodedIsBuffered, Buffered
<1> QED BY <1>4, <1>5, <1>6, <1>8

LEMMA ReceiveWorks ==
  ASSUME DInv, heard \in Seq(Packets), NEW k \in Packets, Receive(k)
  PROVE  DInv' /\ (FramesFit => DecodedIsBuffered)
<1>1. PICK bad \in Troubles :
        /\ rtp_recv(k, bad)
        /\ Trouble((IF bad = "none" THEN 0 ELSE 1) + IF k \in net.arrived THEN 1 ELSE 0)
  BY DEF Receive
<1>2. cfg' = cfg BY DEF Receive
<1>3. /\ spent' \in [updates : Nat, troubles : Nat]
      /\ spent'.troubles = 0 => spent.troubles = 0 /\ bad = "none"
  <2> DEFINE n == (IF bad = "none" THEN 0 ELSE 1) + IF k \in net.arrived THEN 1 ELSE 0
  <2>1. n \in Nat /\ (n = 0 => bad = "none") OBVIOUS
  <2>2. Trouble(n) BY <1>1
  <2> HIDE DEF n
  <2> QED BY <2>1, <2>2, TroublesCount DEF DInv
<1> DEFINE old == IF strm.ssrc_rx \notin {0, Ssrc(k)} THEN jbuf_flush(jb) ELSE jb
           put == jbuf_put(old, [seq |-> Number(k), mem |-> k])
           s == [strm EXCEPT !.ssrc_rx = Ssrc(k)]
           started == [s EXCEPT !.started = TRUE]
<1>4. \/ UNCHANGED <<heard, rx, tx>>
      \/ Deliver(s, Number(k), k, bad)
      \/ Deliver(started, Head(put.framel).seq, Head(put.framel).mem, bad)
      \/ Deliver(started, 0, 0, bad)
  BY <1>1 DEF rtp_recv
<1> HIDE DEF s, started, put
<1>5. /\ Works(Audio)' /\ rx'.pt = rx'.ac
      /\ AtRate(Audio) /\ bad # "decoder" => AtRate(Audio)'
      /\ FramesFit => DecodedIsBuffered
  <2>1. CASE UNCHANGED <<heard, rx, tx>>
    BY <1>2, <2>1 DEF DInv, Works, AtRate, Audio, DevSize, DecodedIsBuffered
  <2>2. CASE Deliver(s, Number(k), k, bad) BY <1>2, <2>2, DeliveredWorks
  <2>3. CASE Deliver(started, Head(put.framel).seq, Head(put.framel).mem, bad)
    BY <1>2, <2>3, DeliveredWorks
  <2>4. CASE Deliver(started, 0, 0, bad) BY <1>2, <2>4, DeliveredWorks
  <2> QED BY <1>4, <2>1, <2>2, <2>3, <2>4
<1> QED BY <1>2, <1>3, <1>5 DEF DInv

(* A step whose devices become b.                                           *)
LEMMA StepWorks ==
  ASSUME DInv, NEW b, Works(b), Becomes(b), b.rx.pt = b.rx.ac, cfg' = cfg,
         spent' \in [updates : Nat, troubles : Nat],
         spent'.troubles = 0 => spent.troubles = 0 /\ AtRate(b)
  PROVE  DInv'
<1>1. Works(Audio)' /\ (AtRate(b) => AtRate(Audio)') /\ rx' = b.rx BY WorksBecomes
<1> QED BY <1>1 DEF DInv

LEMMA MainWorks ==
  ASSUME DInv, Main
  PROVE  DInv' /\ heard' = heard
<1>0. /\ Works(Audio) /\ Audio.rx = rx /\ Audio.tx = tx /\ rx.pt = rx.ac /\ cfg.dev \in Nat
      /\ spent \in [updates : Nat, troubles : Nat]
      /\ spent.troubles = 0 => AtRate(Audio)
      /\ rx = Aurx(rx.ac, rx.dec, rx.pt, rx.auplay, rx.aubuf, rx.resamp)
      /\ tx = Autx(tx.ac, tx.enc, tx.ausrc, tx.aubuf)
      /\ BufferCounts(rx.aubuf) /\ rx.auplay \in Nat /\ rx.resamp \in Nat
      /\ rx.auplay # 0 => rx.aubuf.alloc
  <2>1. Audio.rx = rx /\ Audio.tx = tx BY DEF Audio
  <2>2. cfg.dev \in Nat BY AudioStreamAssumption DEF DInv
  <2> QED BY <2>1, <2>2 DEF DInv, Works
<1>1. ASSUME SetEncoder PROVE DInv' /\ heard' = heard
  <2>1. PICK bad \in Troubles : /\ Becomes(audio_encoder_set(Audio, todo[1][2], bad))
                                /\ Trouble(IF bad = "none" THEN 0 ELSE 1)
    BY <1>1 DEF SetEncoder
  <2> DEFINE b == audio_encoder_set(Audio, todo[1][2], bad)
  <2>2. Works(b) /\ (AtRate(Audio) => AtRate(b)) /\ b.rx.pt = b.rx.ac BY <1>0, EncoderWorks
  <2>3. UNCHANGED <<cfg, heard>> BY <1>1 DEF SetEncoder
  <2>4. spent' \in [updates : Nat, troubles : Nat] /\ (spent'.troubles = 0 => spent.troubles = 0)
    BY <1>0, <2>1, TroublesCount
  <2> HIDE DEF b
  <2>5. Becomes(b) BY <2>1 DEF b
  <2> QED BY <1>0, <2>2, <2>3, <2>4, <2>5, StepWorks
<1>2. ASSUME SetDecoder PROVE DInv' /\ heard' = heard
  <2>1. PICK bad \in Troubles : /\ Becomes(audio_decoder_set(Audio, todo[1][2], bad))
                                /\ Trouble(IF bad = "none" THEN 0 ELSE 1)
    BY <1>2 DEF SetDecoder
  <2> DEFINE b == audio_decoder_set(Audio, todo[1][2], bad)
             n == IF bad = "none" THEN 0 ELSE 1
  <2>2. Works(b) /\ (AtRate(Audio) /\ bad # "decoder" => AtRate(b)) /\ b.rx.pt = b.rx.ac
    BY <1>0, DecoderWorks
  <2>3. UNCHANGED <<cfg, heard>> BY <1>2 DEF SetDecoder
  <2>4. spent' \in [updates : Nat, troubles : Nat]
        /\ (spent'.troubles = 0 => spent.troubles = 0 /\ bad = "none")
    <3>1. n \in Nat /\ (n = 0 => bad = "none") OBVIOUS
    <3>2. Trouble(n) BY <2>1
    <3> HIDE DEF n
    <3> QED BY <1>0, <3>1, <3>2, TroublesCount
  <2> HIDE DEF b
  <2>5. Becomes(b) BY <2>1 DEF b
  <2> QED BY <1>0, <2>2, <2>3, <2>4, <2>5, StepWorks
<1>3. ASSUME Start PROVE DInv' /\ heard' = heard
  <2>1. PICK bad \in Troubles : /\ Becomes(audio_start(Audio, bad))
                                /\ Trouble(IF bad = "none" THEN 0 ELSE 1)
    BY <1>3 DEF Start
  <2> DEFINE b == audio_start(Audio, bad)
  <2>2. Works(b) /\ (AtRate(Audio) => AtRate(b)) /\ b.rx.pt = b.rx.ac BY <1>0, StartWorks
  <2>3. UNCHANGED <<cfg, heard>> BY <1>3 DEF Start
  <2>4. spent' \in [updates : Nat, troubles : Nat] /\ (spent'.troubles = 0 => spent.troubles = 0)
    BY <1>0, <2>1, TroublesCount
  <2> HIDE DEF b
  <2>5. Becomes(b) BY <2>1 DEF b
  <2> QED BY <1>0, <2>2, <2>3, <2>4, <2>5, StepWorks
<1> DEFINE no == FALSE
<1>4. ASSUME stream_reset PROVE DInv' /\ heard' = heard
  <2>1. UNCHANGED <<cfg, heard, rx, tx, spent>> BY <1>4 DEF stream_reset
  <2> QED BY <2>1 DEF DInv, Works, AtRate, Audio, DevSize
<1>5. ASSUME stop_tx PROVE DInv' /\ heard' = heard
  <2> DEFINE m == [tx EXCEPT !.ausrc = 0]
             t == Autx(tx.ac, tx.enc, 0, no)
             b == Devices(rx, t, no)
  <2>1. tx' = [m EXCEPT !.aubuf = FALSE] /\ UNCHANGED <<cfg, heard, rx, spent>>
    BY <1>5 DEF stop_tx
  <2>2. m = Autx(tx.ac, tx.enc, 0, tx.aubuf) BY <1>0 DEF Autx
  <2> HIDE DEF m
  <2>3. tx' = t BY <2>1, <2>2 DEF Autx
  <2> HIDE DEF no
  <2>4. t.ac = tx.ac /\ t.ausrc = 0 /\ t = Autx(t.ac, t.enc, t.ausrc, t.aubuf) BY DEF Autx
  <2> HIDE DEF t
  <2>5. b.rx = rx /\ b.tx = t /\ b = Devices(b.rx, b.tx, b.err) BY DEF Devices
  <2> HIDE DEF b
  <2>6. Works(b) /\ (AtRate(Audio) => AtRate(b)) BY <1>0, <2>4, <2>5 DEF Works, AtRate
  <2>7. Becomes(b) BY <2>1, <2>3, <2>5 DEF Becomes
  <2> QED BY <1>0, <2>1, <2>5, <2>6, <2>7, StepWorks
<1>6. ASSUME stop_rx PROVE DInv' /\ heard' = heard
  <2> DEFINE m == [rx EXCEPT !.auplay = 0]
             r == Aurx(rx.ac, rx.dec, rx.pt, 0, NoBuffer, rx.resamp)
             b == Devices(r, tx, no)
  <2>1. rx' = [m EXCEPT !.aubuf = NoBuffer] /\ UNCHANGED <<cfg, heard, tx, spent>>
    BY <1>6 DEF stop_rx
  <2>2. m = Aurx(rx.ac, rx.dec, rx.pt, 0, rx.aubuf, rx.resamp) BY <1>0 DEF Aurx
  <2> HIDE DEF m
  <2>3. rx' = r BY <2>1, <2>2 DEF Aurx
  <2> HIDE DEF no
  <2>4. /\ r.ac = rx.ac /\ r.pt = rx.pt /\ r.auplay = 0 /\ r.aubuf = NoBuffer
        /\ r.resamp = rx.resamp
        /\ r = Aurx(r.ac, r.dec, r.pt, r.auplay, r.aubuf, r.resamp)
    BY DEF Aurx
  <2> HIDE DEF r
  <2>5. b.rx = r /\ b.tx = tx /\ b = Devices(b.rx, b.tx, b.err) BY DEF Devices
  <2> HIDE DEF b
  <2>6. Works(b) /\ (AtRate(Audio) => AtRate(b))
    BY <1>0, <2>4, <2>5, NewBufferCounts DEF Works, AtRate
  <2>7. Becomes(b) BY <2>1, <2>3, <2>5 DEF Becomes
  <2> QED BY <1>0, <2>1, <2>4, <2>5, <2>6, <2>7, StepWorks
<1> QED BY <1>1, <1>2, <1>3, <1>4, <1>5, <1>6 DEF Main

LEMMA ReadWorks ==
  ASSUME DInv, PlayerReads
  PROVE  DInv' /\ heard' = heard
<1> DEFINE no == FALSE
           read == aubuf_read(rx.aubuf, rx.auplay)
           r == Aurx(rx.ac, rx.dec, rx.pt, rx.auplay, read, rx.resamp)
           b == Devices(r, tx, no)
<1>0. /\ Works(Audio) /\ Audio.rx = rx /\ Audio.tx = tx /\ rx.pt = rx.ac
      /\ spent \in [updates : Nat, troubles : Nat]
      /\ spent.troubles = 0 => AtRate(Audio)
  BY DEF DInv, Audio
<1>1. /\ rx = Aurx(rx.ac, rx.dec, rx.pt, rx.auplay, rx.aubuf, rx.resamp)
      /\ tx = Autx(tx.ac, tx.enc, tx.ausrc, tx.aubuf)
      /\ BufferCounts(rx.aubuf) /\ rx.auplay \in Nat /\ rx.resamp \in Nat
      /\ rx.auplay # 0 => rx.aubuf.alloc
  BY <1>0 DEF Works
<1>2. rx' = [rx EXCEPT !.aubuf = read] /\ UNCHANGED <<cfg, heard, tx, spent>>
  BY <1>1 DEF PlayerReads, Aurx
<1>3. BufferCounts(read) /\ read.alloc = rx.aubuf.alloc BY <1>1, ReadCounts
<1> HIDE DEF read, no
<1>4. rx' = r BY <1>1, <1>2 DEF Aurx
<1>5. /\ r.ac = rx.ac /\ r.pt = rx.pt /\ r.auplay = rx.auplay /\ r.aubuf = read
      /\ r.resamp = rx.resamp
      /\ r = Aurx(r.ac, r.dec, r.pt, r.auplay, r.aubuf, r.resamp)
  BY DEF Aurx
<1> HIDE DEF r
<1>6. b.rx = r /\ b.tx = tx /\ b = Devices(b.rx, b.tx, b.err) BY DEF Devices
<1> HIDE DEF b
<1>7. Works(b) /\ (AtRate(Audio) => AtRate(b))
  BY <1>0, <1>1, <1>3, <1>5, <1>6 DEF Works, AtRate
<1>8. Becomes(b) BY <1>2, <1>4, <1>6 DEF Becomes
<1> QED BY <1>0, <1>2, <1>5, <1>6, <1>7, <1>8, StepWorks

LEMMA NextWorks ==
  ASSUME DInv, RInv, [Next]_vars
  PROVE  DInv' /\ (FramesFit => DecodedIsBuffered)
<1>1. heard' = heard => DecodedIsBuffered BY DEF DecodedIsBuffered
<1>2. ASSUME UNCHANGED <<cfg, rx, tx>>, spent' \in [updates : Nat, troubles : Nat],
             spent'.troubles = 0 => spent.troubles = 0
      PROVE  DInv'
  BY <1>2 DEF DInv, Works, AtRate, Audio, DevSize
<1>3. ASSUME NEW k \in Packets, Receive(k) PROVE DInv' /\ (FramesFit => DecodedIsBuffered)
  BY <1>3, ReceiveWorks DEF RInv, Types
<1>4. ASSUME NEW k \in Packets, Lose(k) PROVE DInv' /\ heard' = heard
  <2>1. UNCHANGED <<cfg, rx, tx, heard>> /\ Trouble(1) BY <1>4 DEF Lose
  <2>2. spent' \in [updates : Nat, troubles : Nat] /\ (spent'.troubles = 0 => spent.troubles = 0)
    BY <2>1, TroublesCount DEF DInv
  <2> QED BY <1>2, <2>1, <2>2
<1>5. ASSUME NEW ops, Begins(ops) PROVE DInv' /\ heard' = heard
  <2>1. UNCHANGED <<cfg, rx, tx, heard>> /\ spent' = [spent EXCEPT !.updates = @ + 1]
    BY <1>5 DEF Begins
  <2>2. spent' \in [updates : Nat, troubles : Nat] /\ spent'.troubles = spent.troubles
    BY <2>1 DEF DInv
  <2> QED BY <1>2, <2>1, <2>2
<1>6. ASSUME NEW c \in Codecs, call_stream_start(c) \/ update_media(c)
      PROVE  DInv' /\ heard' = heard
  BY <1>5, <1>6 DEF call_stream_start, update_media
<1>7. ASSUME call_stream_stop \/ stream_hold PROVE DInv' /\ heard' = heard
  BY <1>5, <1>7 DEF call_stream_stop, stream_hold
<1>8. ASSUME PlayerCallback \/ SourceEncodes \/ SourceReturns PROVE DInv' /\ heard' = heard
  BY <1>2, <1>8 DEF PlayerCallback, SourceEncodes, SourceReturns, DInv
<1>9. CASE UNCHANGED vars BY <1>1, <1>2, <1>9 DEF vars, DInv
<1> QED BY <1>1, <1>3, <1>4, <1>6, <1>7, <1>8, <1>9, MainWorks, ReadWorks DEF Next

-----------------------------------------------------------------------------
(* In a call nothing failed in, an open device works at the rate of its     *)
(* codec; the audio buffer always counts what it holds; and a packet that   *)
(* is decoded leaves a whole frame for the player to take, whichever codec  *)
(* it switched to, for every number and order of packets, every size of     *)
(* frame and every codec, provided the device's frames fit the array that   *)
(* is resampled into (audio_decoder_set, aurx_stream_decode, aubuf.c).      *)
THEOREM DecodedReachesPlayer ==
  ASSUME FramesFit
  PROVE  Spec => DecodedIsHeard
<1>1. Init => RInv /\ DInv BY RInitInv, DInitInv
<1>2. RInv /\ DInv /\ [Next]_vars => (RInv /\ DInv)' BY NextKnown, NextWorks
<1>3. RInv /\ DInv /\ (RInv /\ DInv)' /\ [Next]_vars
        => [DevicesMatch' /\ (rx' # rx => BufferSound' /\ DecodedIsBuffered)]_vars
  <2> SUFFICES ASSUME RInv, DInv, DInv', [Next]_vars
               PROVE  DevicesMatch' /\ (rx' # rx => BufferSound' /\ DecodedIsBuffered)
    OBVIOUS
  <2>1. DecodedIsBuffered BY NextWorks
  <2>2. BufferSound' /\ DevicesMatch' BY DInvHolds, PTL
  <2> QED BY <2>1, <2>2
<1> QED BY <1>1, <1>2, <1>3, PTL DEF Spec, DecodedIsHeard
=============================================================================
