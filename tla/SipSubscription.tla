-------------------------- MODULE SipSubscription ---------------------------
(***************************************************************************)
(* One subscription (struct sipsub) of re/src/sipevent/subscribe.c, with    *)
(* the NOTIFY handler of listen.c, its application and its notifier.        *)
(*                                                                          *)
(* A subscription is made by a SUBSCRIBE or a REFER, refreshed by a timer   *)
(* and ended by either side.  The same timer serves a second purpose: after *)
(* an un-SUBSCRIBE it waits for the last NOTIFY.  NOTIFYs and responses     *)
(* cross, the application drops the subscription at any time, also from     *)
(* inside its NOTIFY handler, and a dropped one lives on until what it      *)
(* waits for has come.                                                      *)
(***************************************************************************)
EXTENDS Integers

CONSTANTS
  FailMax,  \* RESUB_FAILC_MAX: failures in a row that end it: 7
  LoopMax   \* refusals in a row before sip_request_loops gives up: 16

ASSUME BoundsAssumption == FailMax \in Nat \ {0} /\ LoopMax \in Nat \ {0}

VARIABLES
  sub,    \* the subscription
  peer,   \* the notifier: it has none yet, has one, or has ended it
  notes   \* the NOTIFYs in flight

vars == <<sub, peer, notes>>

Answers == {"2xx", "401", "423", "481", "fail"}

Subscription ==
  [ life       : {"none", "live", "freed", "corrupt"},
    refs       : 0..3,
    app        : BOOLEAN,   \* the application holds it
    req        : {"none", "REFER", "SUBSCRIBE", "unSUBSCRIBE", "several"},
    fresh      : BOOLEAN,   \* req was sent before there was a dialog
    answer     : Answers \cup {"none"},   \* the notifier's, to req
    tmr        : {"off", "refresh", "notify"},   \* the handler it is armed with
    expires    : BOOLEAN,   \* sub->expires is not zero
    failc      : 0..FailMax,
    loops      : 0..LoopMax,   \* sub->ls
    subscribed : BOOLEAN,
    terminated : BOOLEAN,
    termconf   : BOOLEAN,
    termwait   : BOOLEAN,
    refer      : BOOLEAN,   \* the next request is the REFER
    cseq       : BOOLEAN,   \* sub->refer_cseq >= 0: it was made by a REFER
    dlg        : BOOLEAN,   \* its dialog is established
    told       : {"no", "once", "again", "late"},   \* calls of closeh
    stray      : BOOLEAN,   \* history: a 2xx of another dialog came
    trouble    : BOOLEAN ]  \* history: a request was not granted

(* What a step finds outside: whether requests can be sent (the first and   *)
(* the second of a step), whether what arrived can be used (a challenge, a  *)
(* Min-Expires, the Contact of a dialog), and whether the application drops *)
(* the subscription in its NOTIFY handler.                                  *)
Env == [send : BOOLEAN, again : BOOLEAN, usable : BOOLEAN, release : BOOLEAN]

Second(e) == [e EXCEPT !.send = e.again]

Unused ==
  [life |-> "none", refs |-> 0, app |-> FALSE, req |-> "none", fresh |-> FALSE,
   answer |-> "none", tmr |-> "off", expires |-> FALSE, failc |-> 0, loops |-> 0,
   subscribed |-> FALSE, terminated |-> FALSE, termconf |-> FALSE,
   termwait |-> FALSE, refer |-> FALSE, cseq |-> FALSE, dlg |-> FALSE,
   told |-> "no", stray |-> FALSE, trouble |-> FALSE]

Init == sub = Unused /\ peer = "none" /\ notes = {}

-----------------------------------------------------------------------------
(* The functions of subscribe.c, on the value of a subscription.            *)

Sent(o, method) ==
  [o EXCEPT !.req = IF @ = "none" THEN method ELSE "several",
            !.fresh = ~o.dlg, !.answer = "none"]

(* Once it has ended, all it asks for is an expiry of zero.                 *)
request(o, e) ==
  LET x == [o EXCEPT !.cseq = @ \/ o.refer,
                     !.expires = @ /\ (o.refer \/ ~o.terminated)]
  IN IF ~e.send THEN [x EXCEPT !.trouble = TRUE]
     ELSE Sent(x, IF x.refer THEN "REFER"
                  ELSE IF x.expires THEN "SUBSCRIBE" ELSE "unSUBSCRIBE")

Reset(o) == [o EXCEPT !.loops = 0]   \* sip_loopstate_reset
Fail(o)  == [o EXCEPT !.loops = @ + 1]

(* Fault: the limit is noticed one refusal late.                            *)
Loops_late(o) == o.loops > LoopMax

Loops(o) == o.loops = LoopMax

Held(o)             == [o EXCEPT !.refs = @ + 1]
Freed(o)            == [o EXCEPT !.life = "freed", !.tmr = "off", !.req = "none"]
sipsub_reschedule(o) == [o EXCEPT !.tmr = "refresh"]

(* Fault: no reference is taken for the outstanding request.                *)
terminate_unheld(o, e) ==
  LET t == [o EXCEPT !.terminated = TRUE]
      c == [t EXCEPT !.tmr = "off"]
      r == request(Reset(c), e)
  IN IF t.termwait THEN Held(t)
     ELSE IF t.req # "none" THEN c
     ELSE IF ~t.expires \/ ~t.subscribed THEN c
     ELSE IF e.send THEN Held(r) ELSE r

(* What it still waits for holds one reference: the last NOTIFY, the        *)
(* outstanding request, or the un-SUBSCRIBE it sends now.                   *)
terminate(o, e) ==
  LET t == [o EXCEPT !.terminated = TRUE]
      c == [t EXCEPT !.tmr = "off"]
      r == request(Reset(c), e)
  IN IF t.termwait THEN Held(t)
     ELSE IF t.req # "none" THEN Held(c)
     ELSE IF ~t.expires \/ ~t.subscribed THEN c
     ELSE IF e.send THEN Held(r) ELSE r

destructor(o, e) ==
  LET t == terminate(o, e)
  IN IF o.terminated THEN Freed(o) ELSE IF t.refs = 0 THEN Freed(t) ELSE t

mem_deref(o, e) ==
  LET d == [o EXCEPT !.refs = @ - 1]
  IN IF o.life # "live" THEN [o EXCEPT !.life = "corrupt"]
     ELSE IF d.refs = 0 THEN destructor(d, e) ELSE d

(* The close handler is the application's until the subscription ends.      *)
Told(o) ==
  IF o.terminated THEN o.told
  ELSE IF ~o.app THEN "late" ELSE IF o.told = "no" THEN "once" ELSE "again"

sipsub_terminate(o, e) ==
  IF o.life # "live" THEN [o EXCEPT !.life = "corrupt"]
  ELSE [terminate(o, e) EXCEPT !.told = Told(o)]

(* Fault: the retries are not counted.                                      *)
Out_forever(o, e) ==
  LET x == [o EXCEPT !.refer = FALSE]
      r == request(Reset(x), e)
  IN IF x.terminated
     THEN IF ~x.expires \/ ~x.subscribed THEN mem_deref(x, e)
          ELSE IF e.send THEN r ELSE mem_deref(r, e)
     ELSE IF x.subscribed THEN sipsub_reschedule(x) ELSE sipsub_terminate(x, e)

(* Fault: one that has ended goes without an un-SUBSCRIBE.                  *)
Out_gone(o, e) ==
  LET x == [o EXCEPT !.refer = FALSE]
      f == [x EXCEPT !.failc = @ + 1]
  IN IF x.terminated THEN mem_deref(x, e)
     ELSE IF ~x.subscribed THEN sipsub_terminate(x, e)
     ELSE IF f.failc < FailMax THEN sipsub_reschedule(f) ELSE sipsub_terminate(f, e)

(* The end of response_handler ("out:").                                    *)
Out(o, e) ==
  LET x == [o EXCEPT !.refer = FALSE]
      r == request(Reset(x), e)
      f == [x EXCEPT !.failc = @ + 1]
  IN IF x.terminated
     THEN IF ~x.expires \/ ~x.subscribed THEN mem_deref(x, e)
          ELSE IF e.send THEN r ELSE mem_deref(r, e)
     ELSE IF ~x.subscribed THEN sipsub_terminate(x, e)
     ELSE IF f.failc < FailMax THEN sipsub_reschedule(f) ELSE sipsub_terminate(f, e)

(* Fault: a subscription that ended while its request was out is forgotten. *)
Accepted_leak(o, e) ==
  LET s == [Reset(o) EXCEPT !.dlg = TRUE, !.subscribed = @ \/ ~o.termconf, !.failc = 0]
  IN IF ~s.expires /\ ~s.termconf
     THEN [s EXCEPT !.tmr = "notify", !.termwait = TRUE]
     ELSE IF s.terminated THEN s
     ELSE IF s.refer THEN [s EXCEPT !.refer = FALSE]
     ELSE sipsub_reschedule(s)

(* A 2xx in the dialog.  One that grants no time waits for the NOTIFY that  *)
(* ends it, unless that has come already.                                   *)
Accepted(o, e) ==
  LET s == [Reset(o) EXCEPT !.dlg = TRUE, !.subscribed = @ \/ ~o.termconf, !.failc = 0]
  IN IF ~s.expires /\ ~s.termconf
     THEN [s EXCEPT !.tmr = "notify", !.termwait = TRUE]
     ELSE IF s.terminated THEN Out(s, e)
     ELSE IF s.refer THEN [s EXCEPT !.refer = FALSE]
     ELSE sipsub_reschedule(s)

(* A 401 or a 423 is tried again, unless it has ended with nothing to undo. *)
Retries(o, a, e) ==
  /\ a \in {"401", "423"} /\ e.usable
  /\ ~Loops(Fail(o)) /\ (o.terminated => o.subscribed)
  /\ a = "423" => o.expires

Refused(o, a, e) ==
  LET f == Fail(o)
      r == request(f, e)
  IN IF Retries(o, a, e) THEN IF e.send THEN r ELSE Out(r, Second(e))
     ELSE IF a = "481" /\ ~Loops(f) THEN Out([f EXCEPT !.subscribed = FALSE], e)
     ELSE Out([f EXCEPT !.trouble = TRUE], e)

(* The final response a; "fail" is also a request that had none.  "2xxbad"  *)
(* is one no dialog can be made from, "2xxother" one of another dialog than *)
(* the NOTIFY that came before it.                                          *)
response_handler(o, a, e) ==
  LET d == [o EXCEPT !.req = "none", !.answer = "none"]
  IN CASE a = "2xx"      -> Accepted(d, e)
       [] a = "2xxbad"   ->
            Out([Reset(d) EXCEPT !.subscribed = FALSE, !.trouble = TRUE], e)
       [] a = "2xxother" -> [Reset(d) EXCEPT !.stray = TRUE]
       [] OTHER          -> Refused(d, a, e)

-----------------------------------------------------------------------------
(* The steps of the subscription and its application.                       *)

Becomes(o) == sub' = o /\ UNCHANGED <<peer, notes>>

(* sipevent_subscribe, sipevent_refer and their variants in a dialog: a     *)
(* SUBSCRIBE, with an expiry of zero for a single NOTIFY, or a REFER.       *)
sipsub_alloc ==
  /\ sub.life = "none"
  /\ \E e \in Env, refer, expires, dlg \in BOOLEAN :
       LET o == [Unused EXCEPT !.life = "live", !.refs = 1, !.refer = refer,
                               !.expires = expires \/ refer, !.dlg = dlg]
           r == request(o, e)
       IN Becomes(IF e.send THEN [r EXCEPT !.app = TRUE] ELSE mem_deref(r, e))

(* Fault: a refresh that cannot be sent is not tried again.                 *)
tmr_handler_once ==
  /\ sub.tmr = "refresh"
  /\ \E e \in Env :
       LET o == [sub EXCEPT !.tmr = "off"]
       IN Becomes(IF o.req # "none" \/ o.terminated THEN o ELSE request(Reset(o), e))

(* A refresh, or a retry.                                                   *)
tmr_handler ==
  /\ sub.tmr = "refresh"
  /\ \E e \in Env :
       LET o == [sub EXCEPT !.tmr = "off"]
           r == request(Reset(o), e)
           f == [r EXCEPT !.failc = @ + 1]
       IN Becomes(IF o.req # "none" \/ o.terminated THEN o
                  ELSE IF e.send THEN r
                  ELSE IF f.failc < FailMax THEN sipsub_reschedule(f)
                  ELSE sipsub_terminate(f, Second(e)))

(* Fault: the end is taken for granted, and the application not told.       *)
notify_timeout_handler_silent ==
  /\ sub.tmr = "notify"
  /\ \E e \in Env :
       LET o == [sub EXCEPT !.tmr = "off", !.termwait = FALSE]
       IN Becomes(IF o.terminated THEN mem_deref(o, e) ELSE terminate(o, e))

(* The last NOTIFY has not come.                                            *)
notify_timeout_handler ==
  /\ sub.tmr = "notify"
  /\ \E e \in Env :
       LET o == [sub EXCEPT !.tmr = "off", !.termwait = FALSE]
       IN Becomes(IF o.terminated THEN mem_deref(o, e) ELSE sipsub_terminate(o, e))

(* The response arrives, or (a = "fail") the transaction ends without one.  *)
Answered ==
  /\ sub.life = "live" /\ sub.req # "none"
  /\ \E e \in Env, a \in {sub.answer, "fail", "2xxbad", "2xxother"} \ {"none"} :
       /\ a = "2xxbad" => sub.answer = "2xx" /\ ~sub.dlg
       /\ a = "2xxother" => sub.answer = "2xx" /\ sub.dlg /\ sub.fresh
       /\ Becomes(response_handler(sub, a, e))

(* The application lets go of it.                                           *)
Release ==
  /\ sub.app
  /\ \E e \in Env : Becomes(mem_deref([sub EXCEPT !.app = FALSE], e))

(* The NOTIFY of state n, with an expiry or not, and what it has set.       *)
Noted(n, expiry) ==
  LET active == n = "active"
  IN [sub EXCEPT
        !.dlg        = TRUE,
        !.subscribed = active /\ (@ \/ ~sub.termconf),
        !.termconf   = @ \/ ~active,
        !.tmr        = IF active /\ expiry /\ ~sub.terminated /\ ~sub.termwait
                       THEN "refresh" ELSE @]

(* The application's handler is called with a reference held.               *)
notifyh(o, e) ==
  IF e.release /\ o.app /\ ~o.terminated
  THEN mem_deref([Held(o) EXCEPT !.app = FALSE], e) ELSE Held(o)

(* The NOTIFY said that the subscription has ended.                         *)
Over(o, e) ==
  LET u == [o EXCEPT !.termwait = FALSE]
  IN IF o.life # "live" THEN [o EXCEPT !.life = "corrupt"]
     ELSE IF ~o.terminated THEN sipsub_terminate(u, e)
     ELSE IF o.termwait THEN mem_deref([u EXCEPT !.tmr = "off"], e)
     ELSE o

Arrived(n) == notes' = IF n = "active" THEN notes \ {n} ELSE {}

(* Fault: whether the application dropped it is not asked.                  *)
notify_handler_unasked(n) ==
  /\ n \in notes /\ Arrived(n) /\ peer' = peer
  /\ \E e \in Env, expiry \in BOOLEAN :
       LET o == mem_deref(notifyh(Noted(n, expiry), e), e)
       IN sub' = IF sub.life # "live" \/ (~sub.dlg /\ ~e.usable) THEN sub
                 ELSE IF n = "active" THEN o ELSE Over(o, e)

(* A NOTIFY arrives.  If the count is one after the application's handler,  *)
(* it has dropped the subscription, and that is all.                        *)
notify_handler(n) ==
  /\ n \in notes /\ Arrived(n) /\ peer' = peer
  /\ \E e \in Env, expiry \in BOOLEAN :
       LET h == notifyh(Noted(n, expiry), e)
           o == mem_deref(h, e)
       IN sub' = IF sub.life # "live" \/ (~sub.dlg /\ ~e.usable) THEN sub
                 ELSE IF h.refs = 1 \/ n = "active" THEN o ELSE Over(o, e)

-----------------------------------------------------------------------------
(* The notifier.  What it has ended stays ended in this dialog.             *)
Notifier ==
  /\ sub.req # "none" /\ sub.answer = "none"
  /\ \E a \in Answers :
       /\ a = "2xx" => peer # "ended"
       /\ a = "481" => peer = "ended"
       /\ sub' = [sub EXCEPT !.answer = a]
       /\ peer' = IF a # "2xx" THEN peer
                  ELSE IF sub.req = "unSUBSCRIBE" THEN "ended" ELSE "has"
       /\ notes' = IF peer' = "ended" /\ peer # "ended"
                   THEN notes \cup {"terminated"} ELSE notes

Notifies ==
  /\ peer = "has"
  /\ \E n \in {"active", "terminated"} :
       /\ notes' = notes \cup {n}
       /\ peer' = IF n = "active" THEN peer ELSE "ended"
  /\ UNCHANGED sub

Lost == \E n \in notes : notes' = notes \ {n} /\ UNCHANGED <<sub, peer>>

Next ==
  \/ sipsub_alloc \/ tmr_handler \/ notify_timeout_handler \/ Answered \/ Release
  \/ \E n \in {"active", "terminated"} : notify_handler(n)
  \/ Notifier \/ Notifies \/ Lost

Spec == Init /\ [][Next]_vars

(* Timers fire and transactions end (SipTransaction!Ends).  Nothing is      *)
(* assumed of the notifier or the network.                                  *)
FairSpec ==
  Spec /\ WF_vars(tmr_handler) /\ WF_vars(notify_timeout_handler) /\ WF_vars(Answered)

-----------------------------------------------------------------------------
TypeOK ==
  /\ sub \in Subscription
  /\ peer \in {"none", "has", "ended"}
  /\ notes \subseteq {"active", "terminated"}

Waits == sub.terminated /\ (sub.req # "none" \/ sub.termwait)

(* The count is what its holders add up to: the application, and once it    *)
(* has ended the one thing it still waits for.  A 2xx that was ignored      *)
(* because of its dialog (subscribe.c:203) is the exception.                *)
RefBalance ==
  sub.life = "live" /\ ~sub.stray =>
    sub.refs = (IF sub.app THEN 1 ELSE 0) + (IF Waits THEN 1 ELSE 0)

(* Nothing that arrives, fires or is released finds it freed.               *)
NoUseAfterFree ==
  /\ sub.life # "corrupt"
  /\ sub.life = "freed" => ~sub.app /\ sub.req = "none" /\ sub.tmr = "off"

(* The life of the object as a whole; its count and the state of its loop   *)
(* detection never leave their range.                                       *)
MemorySafety == TypeOK /\ RefBalance /\ NoUseAfterFree

(* A subscription in use asks one thing at a time, never stops being        *)
(* refreshed, and its timer waits for the last NOTIFY when it should.  One  *)
(* made by a REFER may rest: its notifier ends it.                          *)
NeverDormant ==
  sub.life = "live" =>
    /\ sub.req # "several"
    /\ sub.termwait = (sub.tmr = "notify")
    /\ sub.terminated => sub.tmr # "refresh"
    /\ ~sub.terminated /\ ~sub.cseq /\ ~sub.stray => sub.req # "none" \/ sub.tmr # "off"

(* An application that still holds a subscription that has ended was told   *)
(* so, once; one that dropped it hears nothing any more.                    *)
ToldOnce ==
  /\ sub.told \notin {"again", "late"}
  /\ sub.app => (sub.told = "once") = sub.terminated

(* A subscription that is freed has left none with its notifier, unless one *)
(* of its requests failed.                                                  *)
LeavesNoSubscription == sub.life = "freed" /\ peer = "has" => sub.trouble

(* The end of a subscription is known on both sides of it.                  *)
EndIsSettled == ToldOnce /\ LeavesNoSubscription

(* Liveness: a subscription that was dropped is freed, whatever the         *)
(* notifier and the network do.                                             *)
ReleasedIsFreed ==
  sub.life = "live" /\ ~sub.app ~> sub.life = "freed" \/ sub.stray

(* Liveness: an application learns that its notifier has ended the          *)
(* subscription, though every NOTIFY that says so may be lost.              *)
EndIsLearnt ==
  sub.app /\ peer = "ended" /\ ~sub.cseq
    ~> sub.told = "once" \/ ~sub.app \/ sub.stray
=============================================================================
