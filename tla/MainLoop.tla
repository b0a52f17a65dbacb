------------------------------ MODULE MainLoop ------------------------------
(****************************************************************************)
(* The main loop of re (main/main.c), its timers (tmr/tmr.c) and the        *)
(* message queue other threads reach it by (mqueue/mqueue.c).  One thread   *)
(* runs re_main.  Workers enter the library with re_thread_enter, as its    *)
(* interface asks; bare threads call it without, as the demo's worker       *)
(* thread does (baresip_helper.c).  Times are relative to now: a step of    *)
(* the clock brings every timer nearer.                                     *)
(****************************************************************************)
EXTENDS Integers, Sequences, SequencesExt, FiniteSets

CONSTANTS
  Timers,      \* struct tmr
  Workers,     \* threads that use re_thread_enter and re_thread_leave
  Bare,        \* threads that do not
  Loop,        \* the thread that runs re_main
  None,
  DelayMax,    \* the longest delay of a timer
  IntSpan,     \* 2^32: the timeout given to the poll is an int
  Slack,       \* how long handlers run, the loop's MAX_BLOCKING
  Room,        \* messages the pipe of the queue holds
  MaxTroubles  \* signals, poll errors, steps of the clock and re_cancel

Others == Workers \cup Bare

ASSUME MainLoopAssumption ==
  /\ Workers \cap Bare = {} /\ Loop \notin Others /\ None \notin Others \cup {Loop}
  /\ DelayMax \in Nat /\ IntSpan \in Nat \ {0} /\ Slack \in Nat \ {0}
  /\ Room \in Nat \ {0} /\ MaxTroubles \in Nat

Forever == DelayMax + 1   \* poll with a negative timeout

VARIABLES
  due,       \* tmr.jfs, less the time it is
  tmrl,      \* the list of active timers (tmr.th is set)
  lock,      \* who holds re.mutex
  polling,   \* re.polling
  loop,      \* where re_main is, see Running
  thr,       \* where the other threads are
  pipe,      \* messages in the queue, by sender
  troubles

vars == <<due, tmrl, lock, polling, loop, thr, pipe, troubles>>

Sources == {"mqueue", "other"}   \* file descriptors the loop listens to

(* pc       its place in re_main                                            *)
(* left     what is left of the poll's timeout                              *)
(* ready    events the poll returned that are not yet handled               *)
(* now      the time tmr_poll was entered                                   *)
(* back     where the handler it runs was called from                       *)
(* full     the handler is blocked in mqueue_push                           *)
(* late     timers set, or brought nearer, while it slept in the poll       *)
(* wrapped  the timeout did not fit an int                                  *)
Running == [pc : {"out", "lock", "top", "sleep", "relock", "events", "handler", "timers"},
            left : 0..Forever, ready : SUBSET Sources, now : -Slack..0,
            back : {"events", "timers"}, full : BOOLEAN,
            late : SUBSET Timers, wrapped : BOOLEAN]

Init ==
  /\ due = [t \in Timers |-> 0] /\ tmrl = <<>>
  /\ lock = None /\ polling = FALSE
  /\ loop = [pc |-> "out", left |-> 0, ready |-> {}, now |-> 0, back |-> "events",
             full |-> FALSE, late |-> {}, wrapped |-> FALSE]
  /\ thr = [w \in Others |-> "out"]
  /\ pipe = <<>> /\ troubles = 0

Active(t) == \E i \in DOMAIN tmrl : tmrl[i] = t

Asleep == loop.pc = "sleep"

(* Threads that may touch the timers and file descriptors of the loop.      *)
Inside ==
  {w \in Others : thr[w] \in {"in", "full"}}
    \cup IF loop.pc \in {"top", "events", "handler", "timers"} THEN {Loop} ELSE {}

(* Two threads in the library at once.  What comes of it is undefined, and  *)
(* not modelled.                                                            *)
Raced == Cardinality(Inside) > 1

Trouble == troubles < MaxTroubles /\ troubles' = troubles + 1

-----------------------------------------------------------------------------
(* Timers.  An operator on the list gives its new value.                    *)

\* list_unlink(): a timer is in the list once.
Without(l, t) ==
  LET at == {i \in DOMAIN l : l[i] = t}
  IN IF at = {} THEN l ELSE RemoveAt(l, CHOOSE i \in at : TRUE)

(* The place in the list after which a timer goes that is due in d: delays  *)
(* are searched from the end of the list, a delay of 0 from its head.       *)
Place(l, d) ==
  IF d = 0
  THEN LET later == {i \in DOMAIN l : due[l[i]] > d}
       IN IF later = {} THEN Len(l)
          ELSE (CHOOSE i \in later : \A j \in later : i <= j) - 1
  ELSE LET before == {i \in DOMAIN l : due[l[i]] <= d}
       IN IF before = {} THEN 0
          ELSE CHOOSE i \in before : \A j \in before : j <= i

(* Fault: an active timer is not taken out of its place first.              *)
tmr_start_twice(t, d) ==
  /\ tmrl' = InsertAt(tmrl, Place(tmrl, d) + 1, t)
  /\ due' = [due EXCEPT ![t] = d]
  /\ loop' = [loop EXCEPT !.late = IF Asleep THEN @ \cup {t} ELSE @]
  /\ UNCHANGED <<polling, troubles>>

tmr_start(t, d) ==
  LET l == Without(tmrl, t)
  IN /\ tmrl' = InsertAt(l, Place(l, d) + 1, t)
     /\ due' = [due EXCEPT ![t] = d]
     /\ loop' = [loop EXCEPT !.late = IF Asleep THEN @ \cup {t} ELSE @]
     /\ UNCHANGED <<polling, troubles>>

tmr_cancel(t) ==
  /\ tmrl' = Without(tmrl, t) /\ due' = [due EXCEPT ![t] = 0]
  /\ loop' = [loop EXCEPT !.late = @ \ {t}]
  /\ UNCHANGED <<polling, troubles>>

re_cancel ==
  /\ Trouble /\ polling' = FALSE
  /\ UNCHANGED <<due, tmrl, loop>>

(* What any thread may call.                                                *)
Call ==
  /\ \/ \E t \in Timers : (\E d \in 0..DelayMax : tmr_start(t, d)) \/ tmr_cancel(t)
     \/ re_cancel
  /\ UNCHANGED <<lock, thr, pipe>>

(* The write to the pipe; it blocks while the pipe is full.  Each thread    *)
(* has one message under way.                                               *)
HasRoom == Len(pipe) < Room
Pushed(x) == pipe' = Append(pipe, x)
Sends(x) == \A i \in DOMAIN pipe : pipe[i] # x

-----------------------------------------------------------------------------
(* The thread of the loop.                                                  *)

Goes(to) == loop' = [loop EXCEPT !.pc = to]

re_main ==
  /\ loop.pc = "out" /\ ~polling
  /\ polling' = TRUE /\ Goes("lock")
  /\ UNCHANGED <<due, tmrl, lock, thr, pipe, troubles>>

re_lock ==
  /\ loop.pc \in {"lock", "relock"} /\ lock = None
  /\ lock' = Loop
  /\ Goes(IF loop.pc = "lock" THEN "top" ELSE "events")
  /\ UNCHANGED <<due, tmrl, polling, thr, pipe, troubles>>

(* Fault: a timer that is due already is taken for none.                    *)
tmr_next_timeout_none ==
  IF tmrl = <<>> THEN 0 ELSE IF due[Head(tmrl)] <= 0 THEN 0 ELSE due[Head(tmrl)]

(* The timeout in ms: 1 for a timer that is due already, 0 without timers,  *)
(* which the poll is told as -1, for ever.                                  *)
tmr_next_timeout ==
  IF tmrl = <<>> THEN 0 ELSE IF due[Head(tmrl)] <= 0 THEN 1 ELSE due[Head(tmrl)]

AsInt(n) == LET r == n % IntSpan IN IF 2 * r >= IntSpan THEN r - IntSpan ELSE r

(* re_main has been cancelled, or goes to sleep in the poll.                *)
Top ==
  /\ loop.pc = "top" /\ lock' = None
  /\ \/ /\ ~polling /\ Goes("out") /\ UNCHANGED polling
     \/ /\ polling /\ UNCHANGED polling
        /\ LET to == tmr_next_timeout
           IN loop' = [loop EXCEPT !.pc = "sleep",
                         !.wrapped = AsInt(to) < 0,
                         !.left = IF to = 0 \/ AsInt(to) < 0 THEN Forever ELSE AsInt(to)]
  /\ UNCHANGED <<due, tmrl, thr, pipe, troubles>>

(* Fault: the handlers run without the mutex.                               *)
Wake_unlocked ==
  /\ Asleep
  /\ \E ready \in SUBSET Sources :
       /\ ("mqueue" \in ready) = (pipe # <<>>)
       /\ ready # {} \/ loop.left = 0
       /\ loop' = [loop EXCEPT !.pc = "events", !.ready = ready, !.late = {},
                               !.wrapped = FALSE, !.left = 0]
  /\ UNCHANGED <<due, tmrl, lock, polling, thr, pipe, troubles>>

(* The poll returns: with events, or because its time is up.                *)
Wake ==
  /\ Asleep
  /\ \E ready \in SUBSET Sources :
       /\ ("mqueue" \in ready) = (pipe # <<>>)
       /\ ready # {} \/ loop.left = 0
       /\ loop' = [loop EXCEPT !.pc = "relock", !.ready = ready, !.late = {},
                               !.wrapped = FALSE, !.left = 0]
  /\ UNCHANGED <<due, tmrl, lock, polling, thr, pipe, troubles>>

(* It returns with an error.  A signal (EINTR) takes the loop to its next   *)
(* turn, past tmr_poll; any other ends it.                                  *)
PollFails ==
  /\ Asleep /\ Trouble
  /\ loop' = [loop EXCEPT !.pc = "lock", !.late = {}, !.wrapped = FALSE, !.left = 0]
  /\ polling' \in {polling, FALSE}
  /\ UNCHANGED <<due, tmrl, lock, thr, pipe>>

(* The handler of the queue reads one message.                              *)
event_handler(e) == pipe' = IF e = "mqueue" THEN Tail(pipe) ELSE pipe

(* The handler of the next event; when there is none, tmr_poll.             *)
fd_poll ==
  /\ loop.pc = "events"
  /\ \/ /\ loop.ready = {}
        /\ loop' = [loop EXCEPT !.pc = "timers", !.now = 0] /\ UNCHANGED pipe
     \/ \E e \in loop.ready :
          /\ loop' = [loop EXCEPT !.pc = "handler", !.back = "events", !.ready = @ \ {e}]
          /\ event_handler(e)
  /\ UNCHANGED <<due, tmrl, lock, polling, thr, troubles>>

(* Fault: the time is read again for every timer.                           *)
tmr_poll_now ==
  /\ loop.pc = "timers"
  /\ IF tmrl = <<>> \/ due[Head(tmrl)] > 0
     THEN loop' = [loop EXCEPT !.pc = "top", !.now = 0] /\ UNCHANGED <<due, tmrl>>
     ELSE /\ tmrl' = Tail(tmrl) /\ due' = [due EXCEPT ![Head(tmrl)] = 0]
          /\ loop' = [loop EXCEPT !.pc = "handler", !.back = "timers", !.now = 0]
  /\ UNCHANGED <<lock, polling, thr, pipe, troubles>>

(* The timers that were due when it was called, until one is not; handlers  *)
(* may start others meanwhile.                                              *)
tmr_poll ==
  /\ loop.pc = "timers"
  /\ IF tmrl = <<>> \/ due[Head(tmrl)] > loop.now
     THEN loop' = [loop EXCEPT !.pc = "top", !.now = 0] /\ UNCHANGED <<due, tmrl>>
     ELSE /\ tmrl' = Tail(tmrl) /\ due' = [due EXCEPT ![Head(tmrl)] = 0]
          /\ loop' = [loop EXCEPT !.pc = "handler", !.back = "timers"]
  /\ UNCHANGED <<lock, polling, thr, pipe, troubles>>

(* A handler calls the library, sends a message, returns.                   *)
HandlerCall == loop.pc = "handler" /\ ~loop.full /\ Call

HandlerPush ==
  /\ loop.pc = "handler" /\ Sends(Loop)
  /\ IF HasRoom THEN Pushed(Loop) /\ loop' = [loop EXCEPT !.full = FALSE]
     ELSE ~loop.full /\ loop' = [loop EXCEPT !.full = TRUE] /\ UNCHANGED pipe
  /\ UNCHANGED <<due, tmrl, lock, polling, thr, troubles>>

HandlerReturn ==
  /\ loop.pc = "handler" /\ ~loop.full
  /\ Goes(loop.back)
  /\ UNCHANGED <<due, tmrl, lock, polling, thr, pipe, troubles>>

-----------------------------------------------------------------------------
(* The other threads.                                                       *)

Moves(w, to) == thr' = [thr EXCEPT ![w] = to]

re_thread_enter(w) ==
  /\ w \in Workers /\ thr[w] = "out" /\ lock = None
  /\ lock' = w /\ Moves(w, "in")
  /\ UNCHANGED <<due, tmrl, polling, loop, pipe, troubles>>

re_thread_leave(w) ==
  /\ w \in Workers /\ thr[w] = "in"
  /\ lock' = None /\ Moves(w, "out")
  /\ UNCHANGED <<due, tmrl, polling, loop, pipe, troubles>>

(* A thread of the demo calls the library, and returns from the call.       *)
BareBegins(w) ==
  /\ w \in Bare /\ thr[w] = "out" /\ Moves(w, "in")
  /\ UNCHANGED <<due, tmrl, lock, polling, loop, pipe, troubles>>

BareEnds(w) ==
  /\ w \in Bare /\ thr[w] = "in" /\ Moves(w, "out")
  /\ UNCHANGED <<due, tmrl, lock, polling, loop, pipe, troubles>>

ThreadCall(w) == thr[w] = "in" /\ Call

(* "The sender thread can be any thread": one that has entered, or not.     *)
mqueue_push(w) ==
  /\ Sends(w) /\ (thr[w] = "in" => w \in Workers)
  /\ LET entered == thr[w] \in {"in", "full"}
     IN IF HasRoom
        THEN Pushed(w) /\ Moves(w, IF entered THEN "in" ELSE "out")
        ELSE thr[w] \in {"in", "out"} /\ UNCHANGED pipe
             /\ Moves(w, IF entered THEN "full" ELSE "waits")
  /\ UNCHANGED <<due, tmrl, lock, polling, loop, troubles>>

-----------------------------------------------------------------------------
(* Time passes; what is overdue stays so.                                   *)
Later(n, low) == IF n > low THEN n - 1 ELSE low

Tick ==
  /\ loop.now > -Slack
  /\ due' = [t \in Timers |-> IF Active(t) THEN Later(due[t], -Slack) ELSE 0]
  /\ loop' = [loop EXCEPT
       !.left = IF Asleep /\ @ # Forever THEN Later(@, 0) ELSE @,
       !.now = IF loop.pc = "timers" \/ (loop.pc = "handler" /\ loop.back = "timers")
               THEN @ - 1 ELSE 0]
  /\ UNCHANGED <<tmrl, lock, polling, thr, pipe, troubles>>

(* tmr_jiffies is the time of day (gettimeofday): it is set forward or back *)
(* under the timers, while the poll keeps its own time.                     *)
SetClock ==
  /\ Trouble /\ Asleep
  /\ \/ /\ due' = [t \in Timers |-> IF Active(t) THEN Later(due[t], -Slack) ELSE 0]
        /\ loop' = [loop EXCEPT !.late = {t \in Timers : Active(t)}]
     \/ /\ \A t \in Timers : due[t] < DelayMax
        /\ due' = [t \in Timers |-> IF Active(t) THEN due[t] + 1 ELSE 0]
        /\ UNCHANGED loop
  /\ UNCHANGED <<tmrl, lock, polling, thr, pipe>>

-----------------------------------------------------------------------------
TheLoop ==
  \/ re_main \/ re_lock \/ Top \/ Wake \/ PollFails \/ fd_poll \/ tmr_poll
  \/ HandlerCall \/ HandlerPush \/ HandlerReturn

Thread(w) ==
  \/ re_thread_enter(w) \/ re_thread_leave(w) \/ BareBegins(w) \/ BareEnds(w)
  \/ ThreadCall(w) \/ mqueue_push(w)

Next == ~Raced /\ (TheLoop \/ (\E w \in Others : Thread(w)) \/ Tick \/ SetClock)

Spec == Init /\ [][Next]_vars

(* Handlers return, calls of the library too, the mutex is not kept from    *)
(* the loop for ever by threads that take it again and again, and time      *)
(* passes.                                                                  *)
Fairness ==
  /\ WF_vars(~Raced /\ re_main) /\ SF_vars(~Raced /\ re_lock)
  /\ WF_vars(~Raced /\ (Top \/ Wake \/ fd_poll \/ tmr_poll)) /\ WF_vars(~Raced /\ HandlerReturn)
  /\ WF_vars(~Raced /\ Tick)
  /\ \A w \in Others : WF_vars(~Raced /\ (re_thread_leave(w) \/ BareEnds(w)))

FairSpec == Spec /\ Fairness

-----------------------------------------------------------------------------
TypeOK ==
  /\ due \in [Timers -> -Slack..DelayMax] /\ tmrl \in Seq(Timers)
  /\ lock \in Workers \cup {Loop, None} /\ polling \in BOOLEAN
  /\ loop \in Running
  /\ thr \in [Others -> {"out", "in", "full", "waits"}]
  /\ pipe \in Seq(Others \cup {Loop}) /\ Len(pipe) <= Room
  /\ troubles \in 0..MaxTroubles

(* Threads that enter are never in the library together, nor with the loop, *)
(* through sleeping, waking, signals, errors and the end of re_main.        *)
Exclusion == Cardinality(Inside \ Bare) <= 1

(* The list of timers is in the order they are due, each in it once,        *)
(* whoever starts, restarts or cancels them and whatever the clock does:    *)
(* tmr_poll and the timeout of the poll look at its head only.              *)
InOrder ==
  \A i, j \in DOMAIN tmrl :
    i < j => tmrl[i] # tmrl[j] /\ due[tmrl[i]] <= due[tmrl[j]]

ListSound == Exclusion /\ InOrder

(* The poll sleeps no longer than until the next timer.  The exceptions are *)
(* timers set by another thread, or brought nearer by the clock, while it   *)
(* sleeps, and a delay that does not fit an int.                            *)
WakesInTime ==
  Asleep /\ ~loop.wrapped =>
    \A t \in Timers : Active(t) /\ t \notin loop.late =>
      loop.left <= IF due[t] > 1 THEN due[t] ELSE 1

(* A thread that has the mutex, or a handler, waits for room in the queue,  *)
(* which only the loop can make.                                            *)
Wedged == loop.full \/ \E w \in Workers : thr[w] = "full"

(* Liveness: an overdue timer is run, unless it is restarted or the loop    *)
(* sleeps for ever, without knowing of it.                                  *)
TimersRun ==
  \A t \in Timers : Active(t) /\ due[t] < 0
    ~> Raced \/ Wedged \/ ~Active(t) \/ due[t] >= 0 \/ (Asleep /\ loop.left = Forever)

(* Liveness: a message wakes the loop and is handled.                       *)
MessagesArrive ==
  \A x \in Others \cup {Loop} : ~Sends(x) ~> Raced \/ Wedged \/ Sends(x)

LoopServes == TimersRun /\ MessagesArrive
=============================================================================
