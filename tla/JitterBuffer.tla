---------------------------- MODULE JitterBuffer ----------------------------
(****************************************************************************)
(* The jitter buffer (re jbuf/jbuf.c): at most max frames, sorted by their  *)
(* 16-bit sequence number, each from a pool of max.  A buffer is a record,  *)
(* an operation maps a buffer to the next one; AudioStream puts and gets.   *)
(****************************************************************************)
EXTENDS Integers, Sequences, SequencesExt

CONSTANTS
  Wrap,   \* sequence numbers: 2^16
  Packets   \* what a frame may hold

ASSUME WrapAssumption == Wrap \in Nat /\ Wrap > 0 /\ Wrap % 2 = 0

Seqs == 0..(Wrap - 1)

\* A frame in the buffer; those in the pool hold no packet.
Frame == [seq : Seqs, mem : Packets]

(* framel   the frames, pool: how many are free                             *)
(* n        how many are not, as the code counts them                       *)
(* seq_put  the number of the last frame put, once running                  *)
JitterBuffers ==
  [framel : Seq(Frame), pool : Nat, n : Int, min : Nat, max : Nat,
   seq_put : Seqs, running : BOOLEAN]

jbuf_alloc(min, max) ==
  [framel |-> <<>>, pool |-> max, n |-> 0, min |-> min, max |-> max,
   seq_put |-> 0, running |-> FALSE]

(* Fault: numbers are compared as they are.                                  *)
seq_less_plain(x, y) == x < y

(* (int16_t)(x - y) < 0                                                     *)
seq_less(x, y) == (x - y) % Wrap >= Wrap \div 2

\* A frame from the pool, or the oldest one in the buffer.
frame_alloc(jb) ==
  IF jb.pool > 0 THEN [jb EXCEPT !.pool = @ - 1, !.n = @ + 1]
                 ELSE [jb EXCEPT !.framel = Tail(@)]

\* Frames of list that are not after number seq, by position.
NotAfter(list, seq) ==
  {i \in DOMAIN list : seq_less(list[i].seq, seq) \/ list[i].seq = seq}

\* Where a search from the tail ends; 0 is before the head.
Place(list, seq) ==
  LET before == NotAfter(list, seq)
  IN IF before = {} THEN 0 ELSE CHOOSE i \in before : \A j \in before : j <= i

(* Fault: every number before the last is too late.                          *)
TooLate_any(jb, seq) == jb.running /\ seq_less(seq, jb.seq_put)

TooLate(jb, seq) == jb.running /\ seq_less((seq + jb.n) % Wrap, jb.seq_put)

(* Fault: a repeated packet is taken for another.                            *)
Duplicate_never(jb, seq) == FALSE

\* The frame is taken before it is known to be a duplicate, and put back then.
Duplicate(jb, seq) ==
  LET list == frame_alloc(jb).framel
      p == Place(list, seq)
  IN p > 0 /\ list[p].seq = seq

jbuf_put(jb, f) ==
  LET got == frame_alloc(jb)
  IN IF TooLate(jb, f.seq) THEN jb
     ELSE IF Duplicate(jb, f.seq) THEN [got EXCEPT !.pool = @ + 1, !.n = @ - 1]
     ELSE [got EXCEPT !.framel = InsertAt(@, Place(@, f.seq) + 1, f),
                      !.running = TRUE, !.seq_put = f.seq]

(* Fault: a frame is given out when there are min of them.                   *)
HasFrame_min(jb) == jb.n >= jb.min /\ jb.framel # <<>>

HasFrame(jb) == jb.n > jb.min /\ jb.framel # <<>>

\* jbuf_get() returns Head(jb.framel) when HasFrame(jb).
jbuf_get(jb) ==
  IF HasFrame(jb)
  THEN [jb EXCEPT !.framel = Tail(@), !.pool = @ + 1, !.n = @ - 1]
  ELSE jb

(* Fault: the flushed buffer still runs.                                     *)
jbuf_flush_running(jb) ==
  [jb EXCEPT !.framel = <<>>, !.pool = @ + Len(jb.framel), !.n = 0]

jbuf_flush(jb) ==
  [jb EXCEPT !.framel = <<>>, !.pool = @ + Len(jb.framel), !.n = 0,
             !.running = FALSE]

\* Each frame is in the pool or in the list, and n counts those in the list.
FramesCounted(jb) == jb.n = Len(jb.framel) /\ jb.pool + jb.n = jb.max

\* Every frame is before the one behind it, across the wrap of the numbers.
Sorted(jb) ==
  \A i \in 1..(Len(jb.framel) - 1) :
    seq_less(jb.framel[i].seq, jb.framel[i + 1].seq)

JitterBufferSound(jb) ==
  jb \in JitterBuffers /\ jb.max > 0 /\ FramesCounted(jb) /\ Sorted(jb)
=============================================================================
