---------------------------- MODULE SipNotifier ----------------------------
(***************************************************************************)
(* One notifier (struct sipnot) of re/src/sipevent/notify.c, with the       *)
(* SUBSCRIBE handler of listen.c, its application and its subscriber.       *)
(*                                                                          *)
(* The application sets a state, which is sent in a NOTIFY, or after the    *)
(* one in flight is answered.  The subscription ends by expiry, by a NOTIFY *)
(* that is refused, or by the application, and the subscriber is told so in *)
(* a final NOTIFY, for which the notifier outlives its application.         *)
(***************************************************************************)
EXTENDS Integers

CONSTANT LoopMax  \* refusals in a row before sip_request_loops gives up: 16

ASSUME LoopMaxAssumption == LoopMax \in Nat \ {0}

VARIABLE not  \* the notifier

Answers == {"2xx", "401", "refused", "timeout", "error"}

Notifier ==
  [ life       : {"none", "live", "freed", "corrupt"},
    refs       : 0..2,
    app        : BOOLEAN,   \* the application holds it
    req        : {"none", "one", "several"},   \* the NOTIFY outstanding
    tmr        : BOOLEAN,   \* the expiry timer is armed
    expires    : BOOLEAN,   \* not->expires is not zero
    loops      : 0..LoopMax,   \* not->ls
    subscribed : BOOLEAN,
    terminated : BOOLEAN,
    termsent   : BOOLEAN,
    notify_pending : BOOLEAN,
    byapp      : BOOLEAN,   \* history: its application has ended it
    told       : {"no", "once", "again", "late"},   \* calls of closeh
    accepted   : BOOLEAN,   \* history: the subscriber was told it is accepted
    final      : BOOLEAN,   \* history: the last NOTIFY said terminated
    news       : {"none", "unsent", "failed"},   \* history: the state set last
    trouble    : BOOLEAN ]  \* history: a NOTIFY that ends it, or should, failed

(* What a step finds outside: whether a message can be sent, and whether    *)
(* there are credentials for a challenge.                                   *)
Env == [send : BOOLEAN, usable : BOOLEAN]

Unused ==
  [life |-> "none", refs |-> 0, app |-> FALSE, req |-> "none", tmr |-> FALSE,
   expires |-> FALSE, loops |-> 0, subscribed |-> FALSE, terminated |-> FALSE,
   termsent |-> FALSE, notify_pending |-> FALSE, byapp |-> FALSE, told |-> "no",
   accepted |-> FALSE, final |-> FALSE, news |-> "none", trouble |-> FALSE]

Init == not = Unused

-----------------------------------------------------------------------------
(* The functions of notify.c, on the value of a notifier.                   *)

Reset(o) == [o EXCEPT !.loops = 0]   \* sip_loopstate_reset
Fail(o)  == [o EXCEPT !.loops = @ + 1]

Loops(o) == o.loops = LoopMax

Held(o)  == [o EXCEPT !.refs = @ + 1]
Freed(o) == [o EXCEPT !.life = "freed", !.req = "none"]

NotSent(o) == [o EXCEPT !.news = IF @ = "unsent" THEN "failed" ELSE @]

(* The NOTIFY says what the state is when it is sent.                       *)
notify_request(o, e) ==
  LET x == [o EXCEPT !.termsent = @ \/ o.terminated, !.notify_pending = FALSE]
  IN IF ~e.send THEN [NotSent(x) EXCEPT !.trouble = @ \/ o.terminated]
     ELSE [x EXCEPT !.req = IF @ = "none" THEN "one" ELSE "several",
                    !.final = o.terminated, !.news = "none"]

(* Faults: the final NOTIFY does not wait for the one in flight; it is not  *)
(* waited for.                                                              *)
terminate_crossing(o, e) ==
  LET t == [o EXCEPT !.terminated = TRUE]
      r == notify_request(Reset(t), e)
  IN IF ~o.subscribed THEN t ELSE IF e.send THEN Held(r) ELSE r

terminate_unheld(o, e) ==
  LET t == [o EXCEPT !.terminated = TRUE]
      r == notify_request(Reset(t), e)
  IN IF o.req # "none" THEN Held(t) ELSE IF ~o.subscribed THEN t ELSE r

(* The NOTIFY in flight, or the final one sent now, holds one reference.    *)
terminate(o, e) ==
  LET t == [o EXCEPT !.terminated = TRUE]
      r == notify_request(Reset(t), e)
  IN IF o.req # "none" THEN Held(t)
     ELSE IF ~o.subscribed THEN t
     ELSE IF e.send THEN Held(r) ELSE r

(* Fault: a notifier that is dropped goes without a word.                   *)
destructor_silent(o, e) ==
  LET c == [o EXCEPT !.tmr = FALSE]
  IN IF o.terminated \/ o.req = "none" THEN Freed(c) ELSE terminate(c, e)

destructor(o, e) ==
  LET c == [o EXCEPT !.tmr = FALSE]
      t == terminate(c, e)
  IN IF o.terminated THEN Freed(c) ELSE IF t.refs = 0 THEN Freed(t) ELSE t

mem_deref(o, e) ==
  LET d == [o EXCEPT !.refs = @ - 1]
  IN IF o.life # "live" THEN [o EXCEPT !.life = "corrupt"]
     ELSE IF d.refs = 0 THEN destructor(d, e) ELSE d

(* The close handler is the application's until the notifier ends.          *)
Told(o) ==
  IF o.terminated THEN o.told
  ELSE IF ~o.app THEN "late" ELSE IF o.told = "no" THEN "once" ELSE "again"

sipnot_terminate(o, e) ==
  [terminate([o EXCEPT !.tmr = FALSE], e) EXCEPT !.told = Told(o)]

sipnot_refresh(o, expires) == [o EXCEPT !.expires = expires, !.tmr = TRUE]

(* Fault: what waits is not marked as pending.                              *)
sipnot_notify_lost(o, e) ==
  IF ~o.expires \/ o.req # "none" THEN o ELSE notify_request(Reset(o), e)

(* An expiry of zero has started the timer that sends the final NOTIFY.     *)
sipnot_notify(o, e) ==
  IF ~o.expires THEN o
  ELSE IF o.req # "none" THEN [o EXCEPT !.notify_pending = TRUE]
  ELSE notify_request(Reset(o), e)

(* Fault: a notifier that has nothing to say any more is kept.              *)
Settle_leak(o, e) ==
  LET r == notify_request(Reset(o), e)
  IN IF o.termsent THEN mem_deref(o, e)
     ELSE IF o.terminated
     THEN IF ~o.subscribed THEN o ELSE IF e.send THEN r ELSE mem_deref(r, e)
     ELSE IF ~o.subscribed THEN sipnot_terminate(o, e)
     ELSE IF o.notify_pending THEN r ELSE o

(* The end of response_handler ("out:").                                    *)
Settle(o, e) ==
  LET r == notify_request(Reset(o), e)
  IN IF o.termsent THEN mem_deref(o, e)
     ELSE IF o.terminated
     THEN IF ~o.subscribed THEN mem_deref(o, e)
          ELSE IF e.send THEN r ELSE mem_deref(r, e)
     ELSE IF ~o.subscribed THEN sipnot_terminate(o, e)
     ELSE IF o.notify_pending THEN r ELSE o

(* A NOTIFY that timed out or was refused is the end of the subscription;   *)
(* one that could not be delivered for another reason is not.               *)
response_handler(o, a, e) ==
  LET d == [o EXCEPT !.req = "none"]
      f == Fail(d)
      r == notify_request(f, e)
      gone(x) == [NotSent(x) EXCEPT !.subscribed = FALSE, !.trouble = TRUE]
  IN CASE a = "2xx"     -> Settle(Reset(d), e)
       [] a = "error"   -> Settle(d, e)
       [] a = "timeout" -> Settle(gone(d), e)
       [] a = "refused" -> Settle(gone(f), e)
       [] a = "401"     -> IF Loops(f) \/ ~e.usable THEN Settle(gone(f), e)
                           ELSE IF e.send THEN r ELSE Settle(gone(r), e)

-----------------------------------------------------------------------------
(* The steps.                                                               *)

(* A subscription is accepted for some time, or for none (expires: FALSE).  *)
(* If the reply cannot be sent there is no notifier.                        *)
sipevent_accept ==
  /\ not.life = "none"
  /\ \E e \in Env, expires \in BOOLEAN :
       LET o == sipnot_refresh([Unused EXCEPT !.life = "live", !.refs = 1], expires)
       IN not' = IF e.send
                 THEN [o EXCEPT !.subscribed = TRUE, !.accepted = TRUE, !.app = TRUE]
                 ELSE mem_deref(o, e)

(* The application sets the state, or ends the subscription, with a last    *)
(* state or without one.                                                    *)
sipevent_notify ==
  /\ not.app /\ ~not.terminated
  /\ \E e \in Env, last, mb \in BOOLEAN :
       LET o == [not EXCEPT !.news = IF mb \/ ~last THEN "unsent" ELSE @]
       IN not' = IF ~last THEN sipnot_notify(o, e)
                 ELSE terminate([o EXCEPT !.tmr = FALSE, !.byapp = TRUE], e)

(* The application lets go of it.                                           *)
Release ==
  /\ not.app
  /\ \E e \in Env : not' = mem_deref([not EXCEPT !.app = FALSE], e)

(* Fault: the application is not told.                                      *)
tmr_handler_silent ==
  /\ not.tmr
  /\ \E e \in Env :
       LET o == [not EXCEPT !.tmr = FALSE]
       IN not' = IF o.terminated THEN o ELSE terminate(o, e)

(* The subscription has expired.                                            *)
tmr_handler ==
  /\ not.tmr
  /\ \E e \in Env :
       LET o == [not EXCEPT !.tmr = FALSE]
       IN not' = IF o.terminated THEN o ELSE sipnot_terminate(o, e)

Answered ==
  /\ not.life = "live" /\ not.req # "none"
  /\ \E e \in Env, a \in Answers : not' = response_handler(not, a, e)

(* Fault: a subscription that has ended is refreshed.                       *)
subscribe_handler_ended ==
  /\ not.life = "live"
  /\ \E e \in Env, expires \in BOOLEAN :
       not' = sipnot_notify(sipnot_refresh(not, expires), e)

(* The subscriber renews its subscription, or (expires: FALSE) ends it: the *)
(* timer then fires at once.                                                *)
subscribe_handler ==
  /\ not.life = "live" /\ ~not.terminated
  /\ \E e \in Env, expires \in BOOLEAN :
       not' = sipnot_notify(sipnot_refresh(not, expires), e)

Next ==
  \/ sipevent_accept \/ sipevent_notify \/ Release
  \/ tmr_handler \/ Answered \/ subscribe_handler

Spec == Init /\ [][Next]_not

(* Transactions end (SipTransaction!Ends).                                  *)
FairSpec == Spec /\ WF_not(Answered)

-----------------------------------------------------------------------------
TypeOK == not \in Notifier

(* The count is what its holders add up to: the application, and once it    *)
(* has ended the NOTIFY whose answer it waits for.                          *)
RefBalance ==
  not.life = "live" =>
    not.refs = (IF not.app THEN 1 ELSE 0)
               + (IF not.terminated /\ not.req # "none" THEN 1 ELSE 0)

(* Nothing that arrives, fires or is released finds it freed.               *)
NoUseAfterFree ==
  /\ not.life # "corrupt"
  /\ not.life = "freed" => ~not.app /\ not.req = "none" /\ ~not.tmr

(* The life of the object as a whole.                                       *)
MemorySafety == RefBalance /\ NoUseAfterFree

(* NOTIFYs go one at a time, and a subscription that has not ended has its  *)
(* expiry running; one that has ended has no timer left.                    *)
OneNotifyAndItsExpiry ==
  not.life = "live" => not.req # "several" /\ not.tmr = ~not.terminated

(* The state the application set last has been sent, or will be: after the  *)
(* answer to the NOTIFY in flight, or by the timer of a subscription that   *)
(* is at its end.  Only a NOTIFY that fails takes it along.                 *)
NoLostUpdate ==
  not.news = "unsent" =>
    \/ not.req # "none" /\ (not.notify_pending \/ (not.terminated /\ ~not.termsent))
    \/ not.tmr /\ ~not.expires

(* A subscriber whose subscription was accepted is told of its end before   *)
(* the notifier goes, unless that NOTIFY failed or an earlier one ended it. *)
EndIsSent == not.life = "freed" /\ not.accepted => not.final \/ not.trouble

(* An application that still holds a notifier that has ended was told so,   *)
(* once, unless it ended it itself; one that dropped it hears nothing.      *)
ToldOnce ==
  /\ not.told \notin {"again", "late"}
  /\ not.app => (not.told = "once") = (not.terminated /\ ~not.byapp)

(* The end of a notifier is known on both sides of it.                      *)
EndIsSettled == EndIsSent /\ ToldOnce

(* No NOTIFY follows the final one, but for the answer to a challenge.      *)
FinalIsLast ==
  [][not.final /\ not.req = "none" => not'.req = "none"]_not

(* Liveness: a notifier that was dropped is freed.                          *)
ReleasedIsFreed == not.life = "live" /\ ~not.app ~> not.life = "freed"
=============================================================================
