------------------------- MODULE SipNotifierProofs -------------------------
(***************************************************************************)
(* Theorems about SipNotifier, for any loop limit.                          *)
(***************************************************************************)
EXTENDS SipNotifier, TLAPS

One(b) == IF b THEN 1 ELSE 0

(* What was set last is on its way out, or has failed.                      *)
OnItsWay(o, flight) ==
  o.news = "unsent" =>
    IF o.terminated THEN flight /\ ~o.termsent
    ELSE (flight /\ o.notify_pending) \/ ~o.expires

(* A notifier that has not ended, whatever its NOTIFY in flight does.       *)
Open(o) ==
  /\ o.app /\ o.accepted /\ o.told = "no"
  /\ ~o.byapp /\ ~o.final /\ ~o.termsent

(* The application of one that has ended was told, unless it ended it.      *)
WasTold(o) == o.app => (o.told = "once") = ~o.byapp

(* A notifier between two steps.                                            *)
Live(o) ==
  /\ o.refs = One(o.app) + One(o.terminated /\ o.req # "none")
  /\ o.req # "several" /\ o.tmr = ~o.terminated
  /\ o.told \in {"no", "once"}
  /\ o.req # "none" => o.loops # LoopMax /\ o.subscribed
  /\ ~o.terminated => Open(o) /\ o.subscribed
  /\ o.terminated =>
       /\ WasTold(o)
       /\ o.req = "none" => o.app /\ (o.final \/ o.trouble)
       /\ o.req # "none" /\ o.termsent => o.final
  /\ OnItsWay(o, o.req # "none")

Inert(o) ==
  /\ o.life # "corrupt" /\ ~o.app /\ o.req = "none" /\ ~o.tmr
  /\ o.told \in {"no", "once"} /\ o.news # "unsent"
  /\ o.life = "freed" /\ o.accepted => o.final \/ o.trouble
  /\ o.life = "none" => o = Unused

Steady(o) ==
  /\ o \in Notifier
  /\ o.life = "live" => Live(o)
  /\ o.life # "live" => Inert(o)

(* A notifier inside a handler, its NOTIFY being over.                      *)
Handling(o) ==
  /\ o \in Notifier /\ o.life = "live" /\ o.req = "none"
  /\ o.refs = One(o.app) + One(o.terminated)
  /\ o.tmr = ~o.terminated
  /\ o.told \in {"no", "once"}
  /\ ~o.terminated => Open(o)
  /\ o.terminated => /\ WasTold(o)
                     /\ o.termsent => o.final \/ o.trouble
  /\ ~o.subscribed => o.trouble /\ o.news # "unsent"
  /\ OnItsWay(o, TRUE)

(* One whose last NOTIFY is over.                                           *)
Over(o) ==
  /\ o.life = "live" /\ o.terminated /\ o.req = "none" /\ ~o.tmr
  /\ o.told \in {"no", "once"} /\ WasTold(o)
  /\ o.refs = One(o.app) + 1
  /\ o.final \/ o.trouble
  /\ o.news # "unsent"

(* One that has not ended, with a new state or a new expiry.                *)
Running(o) ==
  /\ o.life = "live" /\ ~o.terminated /\ o.subscribed /\ o.refs = 1 /\ o.tmr
  /\ o.req # "several" /\ (o.req # "none" => o.loops # LoopMax)
  /\ Open(o)

(* A notifier about to end.                                                 *)
Ending(o) ==
  /\ o \in Notifier /\ o.life = "live" /\ ~o.terminated
  /\ ~o.termsent /\ ~o.final /\ ~o.tmr
  /\ o.refs = One(o.app) /\ o.req # "several"
  /\ o.req # "none" => o.loops # LoopMax /\ o.subscribed
  /\ ~o.subscribed => (o.accepted => o.trouble) /\ o.news # "unsent"

(* A notifier that has just ended.                                          *)
Ended(x, o) ==
  /\ x \in Notifier /\ x.life = "live" /\ x.terminated /\ ~x.tmr
  /\ x.app = o.app /\ x.byapp = o.byapp /\ x.told = o.told /\ x.accepted = o.accepted
  /\ x.refs = One(x.app) + One(x.req # "none") /\ x.req # "several"
  /\ x.req = "none" => (x.accepted => x.trouble) /\ x.news # "unsent"
  /\ x.req # "none" => /\ x.loops # LoopMax
                       /\ x.subscribed /\ (x.termsent => x.final)
                       /\ x.news = "unsent" => ~x.termsent

IInv == Steady(not)

Typed(o) ==
  /\ o.app \in BOOLEAN /\ o.tmr \in BOOLEAN /\ o.expires \in BOOLEAN
  /\ o.subscribed \in BOOLEAN /\ o.terminated \in BOOLEAN
  /\ o.termsent \in BOOLEAN /\ o.notify_pending \in BOOLEAN
  /\ o.byapp \in BOOLEAN /\ o.accepted \in BOOLEAN
  /\ o.final \in BOOLEAN /\ o.trouble \in BOOLEAN

-----------------------------------------------------------------------------
(* The operations on a notifier.                                            *)

LEMMA UnusedLemma ==
  /\ Unused \in Notifier /\ Unused.life = "none" /\ Unused.refs = 0
  /\ Unused.req = "none" /\ Unused.loops = 0
  /\ Unused.told = "no" /\ Unused.news = "none"
  /\ ~Unused.app /\ ~Unused.tmr /\ ~Unused.subscribed /\ ~Unused.terminated
  /\ ~Unused.termsent /\ ~Unused.notify_pending /\ ~Unused.byapp
  /\ ~Unused.accepted /\ ~Unused.final /\ ~Unused.trouble
  BY LoopMaxAssumption DEF Unused, Notifier

LEMMA TypedLemma ==
  ASSUME NEW o \in Notifier
  PROVE  Typed(o)
  BY DEF Notifier, Typed

(* Field by field: the loop state, references, news, the end.               *)
LEMMA ResetLemma ==
  ASSUME NEW o \in Notifier, NEW x, x = Reset(o)
  PROVE  /\ x \in Notifier
         /\ x.life = o.life /\ x.refs = o.refs /\ x.app = o.app
         /\ x.req = o.req /\ x.tmr = o.tmr /\ x.expires = o.expires
         /\ x.subscribed = o.subscribed /\ x.terminated = o.terminated
         /\ x.termsent = o.termsent /\ x.notify_pending = o.notify_pending
         /\ x.byapp = o.byapp /\ x.told = o.told /\ x.accepted = o.accepted
         /\ x.final = o.final /\ x.news = o.news /\ x.trouble = o.trouble
         /\ x.loops = 0 /\ x.loops # LoopMax
  <1>1. 0 \in 0..LoopMax /\ 0 # LoopMax
    BY LoopMaxAssumption
  <1>2. x \in Notifier
    BY <1>1, Zenon DEF Reset, Notifier
  <1> QED BY <1>1, <1>2 DEF Reset, Notifier

LEMMA FailLemma ==
  ASSUME NEW o \in Notifier, o.loops # LoopMax, NEW x, x = Fail(o)
  PROVE  /\ x \in Notifier
         /\ x.life = o.life /\ x.refs = o.refs /\ x.app = o.app
         /\ x.req = o.req /\ x.tmr = o.tmr /\ x.expires = o.expires
         /\ x.subscribed = o.subscribed /\ x.terminated = o.terminated
         /\ x.termsent = o.termsent /\ x.notify_pending = o.notify_pending
         /\ x.byapp = o.byapp /\ x.told = o.told /\ x.accepted = o.accepted
         /\ x.final = o.final /\ x.news = o.news /\ x.trouble = o.trouble
  <1>1. o.loops + 1 \in 0..LoopMax
    BY LoopMaxAssumption DEF Notifier
  <1>2. x \in Notifier
    BY <1>1, Zenon DEF Fail, Notifier
  <1> QED BY <1>2 DEF Fail, Notifier

LEMMA HeldLemma ==
  ASSUME NEW o \in Notifier, o.refs # 2, NEW x, x = Held(o)
  PROVE  /\ x \in Notifier
         /\ x.life = o.life /\ x.app = o.app /\ x.req = o.req /\ x.tmr = o.tmr
         /\ x.expires = o.expires /\ x.loops = o.loops
         /\ x.subscribed = o.subscribed /\ x.terminated = o.terminated
         /\ x.termsent = o.termsent /\ x.notify_pending = o.notify_pending
         /\ x.byapp = o.byapp /\ x.told = o.told /\ x.accepted = o.accepted
         /\ x.final = o.final /\ x.news = o.news /\ x.trouble = o.trouble
         /\ x.refs = o.refs + 1
  <1>1. o.refs + 1 \in 0..2
    BY DEF Notifier
  <1>2. x \in Notifier
    BY <1>1, Zenon DEF Held, Notifier
  <1> QED BY <1>2 DEF Held, Notifier

LEMMA NotSentLemma ==
  ASSUME NEW o \in Notifier, NEW x, x = NotSent(o)
  PROVE  /\ x \in Notifier
         /\ x.life = o.life /\ x.refs = o.refs /\ x.app = o.app
         /\ x.req = o.req /\ x.tmr = o.tmr /\ x.expires = o.expires
         /\ x.loops = o.loops /\ x.subscribed = o.subscribed
         /\ x.terminated = o.terminated /\ x.termsent = o.termsent
         /\ x.notify_pending = o.notify_pending /\ x.byapp = o.byapp
         /\ x.told = o.told /\ x.accepted = o.accepted /\ x.final = o.final
         /\ x.trouble = o.trouble
         /\ x.news # "unsent"
  <1>1. PICK n : n = IF o.news = "unsent" THEN "failed" ELSE o.news
    OBVIOUS
  <1>2. n \in {"none", "unsent", "failed"} /\ n # "unsent"
    BY <1>1 DEF Notifier
  <1>3. x = [o EXCEPT !.news = n]
    BY <1>1, Zenon DEF NotSent
  <1>4. x \in Notifier
    BY <1>2, <1>3, Zenon DEF Notifier
  <1> QED BY <1>2, <1>3, <1>4 DEF Notifier

LEMMA FreedLemma ==
  ASSUME NEW o \in Notifier, NEW x, x = Freed(o)
  PROVE  /\ x \in Notifier
         /\ x.refs = o.refs /\ x.app = o.app /\ x.tmr = o.tmr
         /\ x.expires = o.expires /\ x.loops = o.loops
         /\ x.subscribed = o.subscribed /\ x.terminated = o.terminated
         /\ x.termsent = o.termsent /\ x.notify_pending = o.notify_pending
         /\ x.byapp = o.byapp /\ x.told = o.told /\ x.accepted = o.accepted
         /\ x.final = o.final /\ x.news = o.news /\ x.trouble = o.trouble
         /\ x.life = "freed" /\ x.req = "none"
  <1>1. x \in Notifier
    BY Zenon DEF Freed, Notifier
  <1> QED BY <1>1 DEF Freed, Notifier

(* Sending a NOTIFY, or failing to.                                         *)
LEMMA RequestLemma ==
  ASSUME NEW o \in Notifier, o.req = "none", NEW e \in Env, NEW x, x = notify_request(o, e)
  PROVE  /\ x \in Notifier
         /\ x.life = o.life /\ x.refs = o.refs /\ x.app = o.app
         /\ x.tmr = o.tmr /\ x.expires = o.expires /\ x.loops = o.loops
         /\ x.subscribed = o.subscribed /\ x.terminated = o.terminated
         /\ x.byapp = o.byapp /\ x.told = o.told /\ x.accepted = o.accepted
         /\ ~x.notify_pending /\ x.termsent = (o.termsent \/ o.terminated)
         /\ e.send => /\ x.req = "one" /\ x.final = o.terminated /\ x.news = "none"
                      /\ x.trouble = o.trouble
         /\ ~e.send => /\ x.req = "none" /\ x.final = o.final /\ x.news # "unsent"
                       /\ x.trouble = (o.trouble \/ o.terminated)
  <1>1. PICK t \in BOOLEAN : t = (o.termsent \/ o.terminated)
    BY DEF Notifier
  <1>2. PICK n \in BOOLEAN : n = FALSE
    OBVIOUS
  <1>3. PICK y : y = [o EXCEPT !.termsent = t, !.notify_pending = n]
    OBVIOUS
  <1>4. y = [o EXCEPT !.termsent = @ \/ o.terminated, !.notify_pending = FALSE]
    BY <1>1, <1>2, <1>3, Zenon
  <1>5. y \in Notifier
    BY <1>3, Zenon DEF Notifier
  <1>6.
         /\ y.life = o.life /\ y.refs = o.refs /\ y.app = o.app
         /\ y.req = o.req /\ y.tmr = o.tmr /\ y.expires = o.expires
         /\ y.loops = o.loops /\ y.subscribed = o.subscribed
         /\ y.terminated = o.terminated /\ y.byapp = o.byapp /\ y.told = o.told
         /\ y.accepted = o.accepted /\ y.final = o.final /\ y.news = o.news
         /\ y.trouble = o.trouble
         /\ y.termsent = t /\ y.notify_pending = n
    BY <1>3 DEF Notifier
  <1>7. CASE e.send
    <2>1. PICK f \in BOOLEAN : f = o.terminated
      BY DEF Notifier
    <2>2. x = [y EXCEPT !.req = "one", !.final = f, !.news = "none"]
      BY <1>4, <1>6, <1>7, <2>1 DEF notify_request
    <2>3. x \in Notifier
      BY <1>5, <2>2, Zenon DEF Notifier
    <2>4.
         /\ x.life = y.life /\ x.refs = y.refs /\ x.app = y.app
         /\ x.tmr = y.tmr /\ x.expires = y.expires /\ x.loops = y.loops
         /\ x.subscribed = y.subscribed /\ x.terminated = y.terminated
         /\ x.termsent = y.termsent /\ x.notify_pending = y.notify_pending
         /\ x.byapp = y.byapp /\ x.told = y.told /\ x.accepted = y.accepted
         /\ x.trouble = y.trouble
         /\ x.req = "one" /\ x.final = f /\ x.news = "none"
      BY <1>5, <2>2 DEF Notifier
    <2> QED BY <1>1, <1>2, <1>6, <1>7, <2>1, <2>3, <2>4
  <1>8. CASE ~e.send
    <2>1. PICK z : z = NotSent(y)
      OBVIOUS
    <2>2. /\ z \in Notifier
          /\ z.life = y.life /\ z.refs = y.refs /\ z.app = y.app
          /\ z.req = y.req /\ z.tmr = y.tmr /\ z.expires = y.expires
          /\ z.loops = y.loops /\ z.subscribed = y.subscribed
          /\ z.terminated = y.terminated /\ z.termsent = y.termsent
          /\ z.notify_pending = y.notify_pending /\ z.byapp = y.byapp
          /\ z.told = y.told /\ z.accepted = y.accepted /\ z.final = y.final
          /\ z.trouble = y.trouble
          /\ z.news # "unsent"
      BY <1>5, <2>1, NotSentLemma
    <2>3. PICK b \in BOOLEAN : b = (o.trouble \/ o.terminated)
      BY DEF Notifier
    <2>4. x = [z EXCEPT !.trouble = @ \/ o.terminated]
      BY <1>4, <1>8, <2>1, Zenon DEF notify_request
    <2>5. z.trouble = o.trouble
      BY <1>6, <2>2
    <2>6. x = [z EXCEPT !.trouble = b]
      BY <2>3, <2>4, <2>5
    <2>7. x \in Notifier
      BY <2>2, <2>6, Zenon DEF Notifier
    <2>8.
         /\ x.life = z.life /\ x.refs = z.refs /\ x.app = z.app
         /\ x.req = z.req /\ x.tmr = z.tmr /\ x.expires = z.expires
         /\ x.loops = z.loops /\ x.subscribed = z.subscribed
         /\ x.terminated = z.terminated /\ x.termsent = z.termsent
         /\ x.notify_pending = z.notify_pending /\ x.byapp = z.byapp
         /\ x.told = z.told /\ x.accepted = z.accepted /\ x.final = z.final
         /\ x.news = z.news
         /\ x.trouble = b
      BY <2>2, <2>6 DEF Notifier
    <2> QED BY <1>1, <1>2, <1>6, <1>8, <2>2, <2>3, <2>7, <2>8
  <1> QED BY <1>7, <1>8

(* What terminate makes of a notifier.                                      *)
LEMMA TerminateLemma ==
  ASSUME NEW o, Ending(o), NEW e \in Env, NEW x, x = terminate(o, e)
  PROVE  Ended(x, o)
  <1>1. o \in Notifier
    BY DEF Ending
  <1>0. Typed(o)
    BY <1>1, TypedLemma
  <1>2. PICK b \in BOOLEAN : b = TRUE
    OBVIOUS
  <1>3. PICK t : t = [o EXCEPT !.terminated = b]
    OBVIOUS
  <1>4. t = [o EXCEPT !.terminated = TRUE]
    BY <1>2, <1>3
  <1>5. t \in Notifier
    BY <1>1, <1>3, Zenon DEF Notifier
  <1>6.
         /\ t.life = o.life /\ t.refs = o.refs /\ t.app = o.app
         /\ t.req = o.req /\ t.tmr = o.tmr /\ t.expires = o.expires
         /\ t.loops = o.loops /\ t.subscribed = o.subscribed
         /\ t.termsent = o.termsent /\ t.notify_pending = o.notify_pending
         /\ t.byapp = o.byapp /\ t.told = o.told /\ t.accepted = o.accepted
         /\ t.final = o.final /\ t.news = o.news /\ t.trouble = o.trouble
         /\ t.terminated = b
    BY <1>1, <1>3 DEF Notifier
  <1>7. t.refs # 2
    BY <1>6 DEF Ending, One
  <1>8. CASE o.req # "none"
    <2>1. x = Held(t)
      BY <1>4, <1>8 DEF terminate
    <2>2. /\ x \in Notifier
          /\ x.life = t.life /\ x.app = t.app /\ x.req = t.req /\ x.tmr = t.tmr
          /\ x.expires = t.expires /\ x.loops = t.loops
          /\ x.subscribed = t.subscribed /\ x.terminated = t.terminated
          /\ x.termsent = t.termsent /\ x.notify_pending = t.notify_pending
          /\ x.byapp = t.byapp /\ x.told = t.told /\ x.accepted = t.accepted
          /\ x.final = t.final /\ x.news = t.news /\ x.trouble = t.trouble
          /\ x.refs = t.refs + 1
      BY <1>5, <1>7, <2>1, HeldLemma
    <2> QED BY <1>0, <1>2, <1>6, <1>8, <2>2 DEF Typed, Ending, Ended, One
  <1>9. CASE o.req = "none" /\ ~o.subscribed
    <2>1. x = t
      BY <1>4, <1>9 DEF terminate
    <2>2. x \in Notifier /\ x.life = "live" /\ x.terminated /\ ~x.tmr
      BY <1>0, <1>2, <1>5, <1>6, <1>9, <2>1 DEF Typed, Ending
    <2>3. x.app = o.app /\ x.byapp = o.byapp /\ x.told = o.told /\ x.accepted = o.accepted
      BY <1>0, <1>2, <1>5, <1>6, <1>9, <2>1 DEF Typed, Ending
    <2>4. x.refs = One(x.app) + One(x.req # "none") /\ x.req # "several"
      BY <1>0, <1>2, <1>5, <1>6, <1>9, <2>1 DEF Typed, Ending, One
    <2>5. x.req = "none"
      BY <1>0, <1>2, <1>5, <1>6, <1>9, <2>1 DEF Typed, Ending
    <2>6. (x.accepted => x.trouble) /\ x.news # "unsent"
      BY <1>0, <1>2, <1>5, <1>6, <1>9, <2>1 DEF Typed, Ending
    <2> QED BY <2>2, <2>3, <2>4, <2>5, <2>6 DEF Ended
  <1>10. CASE o.req = "none" /\ o.subscribed
    <2>1. PICK s : s = Reset(t)
      OBVIOUS
    <2>2. /\ s \in Notifier
          /\ s.life = t.life /\ s.refs = t.refs /\ s.app = t.app
          /\ s.req = t.req /\ s.tmr = t.tmr /\ s.expires = t.expires
          /\ s.subscribed = t.subscribed /\ s.terminated = t.terminated
          /\ s.termsent = t.termsent /\ s.notify_pending = t.notify_pending
          /\ s.byapp = t.byapp /\ s.told = t.told /\ s.accepted = t.accepted
          /\ s.final = t.final /\ s.news = t.news /\ s.trouble = t.trouble
          /\ s.loops # LoopMax
      BY <1>5, <2>1, ResetLemma
    <2>3. PICK r : r = notify_request(s, e)
      OBVIOUS
    <2>4. /\ r \in Notifier
          /\ r.life = s.life /\ r.refs = s.refs /\ r.app = s.app
          /\ r.tmr = s.tmr /\ r.expires = s.expires /\ r.loops = s.loops
          /\ r.subscribed = s.subscribed /\ r.terminated = s.terminated
          /\ r.byapp = s.byapp /\ r.told = s.told /\ r.accepted = s.accepted
          /\ ~r.notify_pending /\ r.termsent = (s.termsent \/ s.terminated)
          /\ e.send => /\ r.req = "one" /\ r.final = s.terminated /\ r.news = "none"
                       /\ r.trouble = s.trouble
          /\ ~e.send => /\ r.req = "none" /\ r.final = s.final /\ r.news # "unsent"
                        /\ r.trouble = (s.trouble \/ s.terminated)
      <3>1. s.req = "none"
        BY <1>6, <1>10, <2>2
      <3> QED BY <2>2, <2>3, <3>1, RequestLemma
    <2>5. CASE e.send
      <3>1. x = Held(r)
        BY <1>4, <1>10, <2>1, <2>3, <2>5 DEF terminate
      <3>2. r.refs # 2
        BY <1>6, <1>7, <2>2, <2>4
      <3>3. /\ x \in Notifier
            /\ x.life = r.life /\ x.app = r.app /\ x.req = r.req
            /\ x.tmr = r.tmr /\ x.expires = r.expires /\ x.loops = r.loops
            /\ x.subscribed = r.subscribed /\ x.terminated = r.terminated
            /\ x.termsent = r.termsent /\ x.notify_pending = r.notify_pending
            /\ x.byapp = r.byapp /\ x.told = r.told /\ x.accepted = r.accepted
            /\ x.final = r.final /\ x.news = r.news /\ x.trouble = r.trouble
            /\ x.refs = r.refs + 1
        BY <2>4, <3>1, <3>2, HeldLemma
      <3>4. x \in Notifier /\ x.life = "live" /\ x.terminated /\ ~x.tmr
        BY <1>0, <1>2, <1>6, <1>10, <2>2, <2>4, <2>5, <3>3 DEF Typed, Ending
      <3>5. x.app = o.app /\ x.byapp = o.byapp /\ x.told = o.told /\ x.accepted = o.accepted
        BY <1>0, <1>2, <1>6, <1>10, <2>2, <2>4, <2>5, <3>3 DEF Typed, Ending
      <3>6. x.refs = One(x.app) + One(x.req # "none") /\ x.req # "several"
        BY <1>0, <1>2, <1>6, <1>10, <2>2, <2>4, <2>5, <3>3 DEF Typed, Ending, One
      <3>7. x.req # "none" /\ x.loops # LoopMax
        BY <1>0, <1>2, <1>6, <1>10, <2>2, <2>4, <2>5, <3>3 DEF Typed, Ending
      <3>8. x.subscribed /\ (x.termsent => x.final) /\ (x.news = "unsent" => ~x.termsent)
        BY <1>0, <1>2, <1>6, <1>10, <2>2, <2>4, <2>5, <3>3 DEF Typed, Ending
      <3> QED BY <3>4, <3>5, <3>6, <3>7, <3>8 DEF Ended
    <2>6. CASE ~e.send
      <3>1. x = r
        BY <1>4, <1>10, <2>1, <2>3, <2>6 DEF terminate
      <3>2. x \in Notifier /\ x.life = "live" /\ x.terminated /\ ~x.tmr
        BY <1>0, <1>2, <1>6, <1>10, <2>2, <2>4, <2>6, <3>1 DEF Typed, Ending
      <3>3. x.app = o.app /\ x.byapp = o.byapp /\ x.told = o.told /\ x.accepted = o.accepted
        BY <1>0, <1>2, <1>6, <1>10, <2>2, <2>4, <2>6, <3>1 DEF Typed, Ending
      <3>4. x.refs = One(x.app) + One(x.req # "none") /\ x.req # "several"
        BY <1>0, <1>2, <1>6, <1>10, <2>2, <2>4, <2>6, <3>1 DEF Typed, Ending, One
      <3>5. x.req = "none"
        BY <1>0, <1>2, <1>6, <1>10, <2>2, <2>4, <2>6, <3>1 DEF Typed, Ending
      <3>6. (x.accepted => x.trouble) /\ x.news # "unsent"
        BY <1>0, <1>2, <1>6, <1>10, <2>2, <2>4, <2>6, <3>1 DEF Typed, Ending
      <3> QED BY <3>2, <3>3, <3>4, <3>5, <3>6 DEF Ended
    <2> QED BY <2>5, <2>6
  <1> QED BY <1>8, <1>9, <1>10

(* A notifier that has ended, and that its application or a NOTIFY holds.   *)
LEMMA EndedLemma ==
  ASSUME NEW o, NEW x, Ended(x, o), x.told \in {"no", "once"},
         WasTold(x),
         x.req = "none" => x.app /\ x.accepted
  PROVE  Steady(x)
  <1>1. Typed(x) /\ x \in Notifier
    BY TypedLemma DEF Ended
  <1>2. x.refs = One(x.app) + One(x.terminated /\ x.req # "none")
    BY <1>1 DEF Ended, One, Typed
  <1>3. OnItsWay(x, x.req # "none")
    BY <1>1 DEF Ended, OnItsWay, Typed
  <1>4. Live(x)
    BY <1>1, <1>2, <1>3 DEF Ended, Live, WasTold, Typed
  <1> QED BY <1>1, <1>4 DEF Ended, Steady

(* Freeing a notifier.                                                      *)
LEMMA LastLemma ==
  ASSUME NEW o \in Notifier, ~o.app, ~o.tmr, o.told \in {"no", "once"},
         o.news # "unsent", o.accepted => o.final \/ o.trouble,
         NEW x, x = Freed(o)
  PROVE  Steady(x)
  <1>1. /\ x \in Notifier
        /\ x.refs = o.refs /\ x.app = o.app /\ x.tmr = o.tmr
        /\ x.expires = o.expires /\ x.loops = o.loops
        /\ x.subscribed = o.subscribed /\ x.terminated = o.terminated
        /\ x.termsent = o.termsent /\ x.notify_pending = o.notify_pending
        /\ x.byapp = o.byapp /\ x.told = o.told /\ x.accepted = o.accepted
        /\ x.final = o.final /\ x.news = o.news /\ x.trouble = o.trouble
        /\ x.life = "freed" /\ x.req = "none"
    BY FreedLemma
  <1>2. Inert(x)
    BY <1>1, TypedLemma DEF Inert, Typed
  <1> QED BY <1>1, <1>2 DEF Steady

(* Field by field: the timer cancelled, a reference given back.             *)
LEMMA QuietLemma ==
  ASSUME NEW o \in Notifier, NEW x, x = [o EXCEPT !.tmr = FALSE]
  PROVE  /\ x \in Notifier
         /\ x.life = o.life /\ x.refs = o.refs /\ x.app = o.app
         /\ x.req = o.req /\ x.expires = o.expires /\ x.loops = o.loops
         /\ x.subscribed = o.subscribed /\ x.terminated = o.terminated
         /\ x.termsent = o.termsent /\ x.notify_pending = o.notify_pending
         /\ x.byapp = o.byapp /\ x.told = o.told /\ x.accepted = o.accepted
         /\ x.final = o.final /\ x.news = o.news /\ x.trouble = o.trouble
         /\ ~x.tmr
  <1>1. PICK b \in BOOLEAN : b = FALSE
    OBVIOUS
  <1>2. x = [o EXCEPT !.tmr = b]
    BY <1>1
  <1>3. x \in Notifier
    BY <1>2, Zenon DEF Notifier
  <1> QED BY <1>1, <1>2, <1>3 DEF Notifier

LEMMA LessLemma ==
  ASSUME NEW o \in Notifier, o.refs # 0, NEW x, x = [o EXCEPT !.refs = @ - 1]
  PROVE  /\ x \in Notifier
         /\ x.life = o.life /\ x.app = o.app /\ x.req = o.req /\ x.tmr = o.tmr
         /\ x.expires = o.expires /\ x.loops = o.loops
         /\ x.subscribed = o.subscribed /\ x.terminated = o.terminated
         /\ x.termsent = o.termsent /\ x.notify_pending = o.notify_pending
         /\ x.byapp = o.byapp /\ x.told = o.told /\ x.accepted = o.accepted
         /\ x.final = o.final /\ x.news = o.news /\ x.trouble = o.trouble
         /\ x.refs = o.refs - 1
  <1>1. o.refs - 1 \in 0..2
    BY DEF Notifier
  <1>2. x \in Notifier
    BY <1>1, Zenon DEF Notifier
  <1> QED BY <1>2 DEF Notifier

(* A NOTIFY of a notifier that has ended gives its reference back.          *)
LEMMA GivenBackLemma ==
  ASSUME NEW o \in Notifier, Over(o), NEW e \in Env, NEW x, x = mem_deref(o, e)
  PROVE  Steady(x) /\ x.req = "none"
  <1>1. PICK d : d = [o EXCEPT !.refs = @ - 1]
    OBVIOUS
  <1>2. Typed(o)
    BY TypedLemma
  <1>3. /\ d \in Notifier
        /\ d.life = o.life /\ d.app = o.app /\ d.req = o.req /\ d.tmr = o.tmr
        /\ d.expires = o.expires /\ d.loops = o.loops
        /\ d.subscribed = o.subscribed /\ d.terminated = o.terminated
        /\ d.termsent = o.termsent /\ d.notify_pending = o.notify_pending
        /\ d.byapp = o.byapp /\ d.told = o.told /\ d.accepted = o.accepted
        /\ d.final = o.final /\ d.news = o.news /\ d.trouble = o.trouble
        /\ d.refs = o.refs - 1
    <2>1. o.refs # 0
      BY <1>2 DEF Over, One, Typed
    <2> QED BY <1>1, <2>1, LessLemma
  <1>4. Typed(d)
    BY <1>3, TypedLemma
  <1>5. CASE o.app
    <2>1. d.refs = 1
      BY <1>3, <1>5, <1>2 DEF Over, One, Typed
    <2>2. x = d
      BY <1>1, <2>1 DEF Over, mem_deref
    <2>3. d.refs = One(d.app) + One(d.terminated /\ d.req # "none")
      BY <1>2, <1>3, <1>4, <1>5, <2>1 DEF Over, One, Typed
    <2>4. Live(d)
      BY <1>2, <1>3, <1>4, <1>5, <2>3 DEF Over, Live, WasTold, OnItsWay, Typed
    <2> QED BY <1>3, <2>2, <2>4 DEF Over, Steady
  <1>6. CASE ~o.app
    <2>1. d.refs = 0
      BY <1>3, <1>6, <1>2 DEF Over, One, Typed
    <2>2. PICK c : c = [d EXCEPT !.tmr = FALSE]
      OBVIOUS
    <2>3. /\ c \in Notifier
          /\ c.life = d.life /\ c.refs = d.refs /\ c.app = d.app
          /\ c.req = d.req /\ c.expires = d.expires /\ c.loops = d.loops
          /\ c.subscribed = d.subscribed /\ c.terminated = d.terminated
          /\ c.termsent = d.termsent /\ c.notify_pending = d.notify_pending
          /\ c.byapp = d.byapp /\ c.told = d.told /\ c.accepted = d.accepted
          /\ c.final = d.final /\ c.news = d.news /\ c.trouble = d.trouble
          /\ ~c.tmr
      <3>1. d \in Notifier
        BY <1>3
      <3> QED BY <2>2, <3>1, QuietLemma
    <2>4. d.terminated
      BY <1>2, <1>3, <1>4 DEF Over, Typed
    <2>5. x = Freed(c)
      BY <1>1, <2>1, <2>2, <2>4 DEF Over, mem_deref, destructor
    <2>6. Typed(c)
      BY <2>3, TypedLemma
    <2>7. ~c.app /\ c.told \in {"no", "once"} /\ c.news # "unsent"
      BY <1>2, <1>3, <1>4, <1>6, <2>3, <2>6 DEF Over, Typed
    <2>8. c.final \/ c.trouble
      BY <1>2, <1>3, <1>4, <2>3, <2>6 DEF Over, Typed
    <2>9. Steady(x)
      BY <2>3, <2>5, <2>7, <2>8, LastLemma
    <2>10. x.req = "none"
      BY <2>3, <2>5, FreedLemma
    <2> QED BY <2>9, <2>10
  <1> QED BY <1>2, <1>5, <1>6 DEF Typed

(* The application drops a notifier that has not ended.                     *)
LEMMA DropLemma ==
  ASSUME NEW o \in Notifier, o.life = "live", ~o.terminated, ~o.app, o.refs = 1,
         ~o.termsent, ~o.final, o.told \in {"no", "once"}, o.req # "several",
         o.req # "none" => o.loops # LoopMax /\ o.subscribed,
         ~o.subscribed => ~o.accepted /\ o.news # "unsent",
         NEW e \in Env, NEW x, x = mem_deref(o, e)
  PROVE  Steady(x)
  <1>1. PICK d : d = [o EXCEPT !.refs = @ - 1]
    OBVIOUS
  <1>2. Typed(o)
    BY TypedLemma
  <1>3. /\ d \in Notifier
        /\ d.life = o.life /\ d.app = o.app /\ d.req = o.req /\ d.tmr = o.tmr
        /\ d.expires = o.expires /\ d.loops = o.loops
        /\ d.subscribed = o.subscribed /\ d.terminated = o.terminated
        /\ d.termsent = o.termsent /\ d.notify_pending = o.notify_pending
        /\ d.byapp = o.byapp /\ d.told = o.told /\ d.accepted = o.accepted
        /\ d.final = o.final /\ d.news = o.news /\ d.trouble = o.trouble
        /\ d.refs = o.refs - 1
    BY <1>1, LessLemma
  <1>4. PICK c : c = [d EXCEPT !.tmr = FALSE]
    OBVIOUS
  <1>5. /\ c \in Notifier
        /\ c.life = d.life /\ c.refs = d.refs /\ c.app = d.app /\ c.req = d.req
        /\ c.expires = d.expires /\ c.loops = d.loops
        /\ c.subscribed = d.subscribed /\ c.terminated = d.terminated
        /\ c.termsent = d.termsent /\ c.notify_pending = d.notify_pending
        /\ c.byapp = d.byapp /\ c.told = d.told /\ c.accepted = d.accepted
        /\ c.final = d.final /\ c.news = d.news /\ c.trouble = d.trouble
        /\ ~c.tmr
    BY <1>3, <1>4, QuietLemma
  <1>6. Typed(c) /\ Typed(d)
    BY <1>3, <1>5, TypedLemma
  <1>7. c.refs = One(c.app)
    BY <1>2, <1>3, <1>5, <1>6 DEF One, Typed
  <1>8. Ending(c)
    BY <1>2, <1>3, <1>5, <1>6, <1>7 DEF Ending, Typed
  <1>9. PICK t : t = terminate(c, e)
    OBVIOUS
  <1>10. Ended(t, c)
    BY <1>8, <1>9, TerminateLemma
  <1>11. ~d.terminated /\ d.refs = 0
    BY <1>2, <1>3, <1>6 DEF Typed
  <1>12. x = IF t.refs = 0 THEN Freed(t) ELSE t
    BY <1>1, <1>4, <1>9, <1>11 DEF mem_deref, destructor
  <1>13. Typed(t) /\ t \in Notifier
    BY <1>10, TypedLemma DEF Ended
  <1>14. ~t.app /\ t.told \in {"no", "once"} /\ ~t.tmr
    BY <1>2, <1>3, <1>5, <1>6, <1>10, <1>13 DEF Ended, Typed
  <1>15. CASE t.req = "none"
    <2>1. t.refs = 0 /\ t.news # "unsent" /\ (t.accepted => t.trouble)
      BY <1>10, <1>13, <1>14, <1>15 DEF Ended, One, Typed
    <2> QED BY <1>12, <1>13, <1>14, <2>1, LastLemma
  <1>16. CASE t.req # "none"
    <2>1. t.refs # 0
      BY <1>10, <1>13, <1>14, <1>16 DEF Ended, One, Typed
    <2>2. WasTold(t)
      BY <1>14, <1>13 DEF WasTold, Typed
    <2> QED BY <1>10, <1>12, <1>14, <1>16, <2>1, <2>2, EndedLemma
  <1> QED BY <1>15, <1>16

(* The notifier ends, and its application is told.                          *)
LEMMA CloseLemma ==
  ASSUME NEW o \in Notifier, o.life = "live", ~o.terminated, Open(o), o.refs = 1,
         o.req # "several", o.req # "none" => o.loops # LoopMax /\ o.subscribed,
         ~o.subscribed => o.trouble /\ o.news # "unsent",
         NEW e \in Env, NEW x, x = sipnot_terminate(o, e)
  PROVE  Steady(x)
  <1>1. PICK c : c = [o EXCEPT !.tmr = FALSE]
    OBVIOUS
  <1>2. /\ c \in Notifier
        /\ c.life = o.life /\ c.refs = o.refs /\ c.app = o.app /\ c.req = o.req
        /\ c.expires = o.expires /\ c.loops = o.loops
        /\ c.subscribed = o.subscribed /\ c.terminated = o.terminated
        /\ c.termsent = o.termsent /\ c.notify_pending = o.notify_pending
        /\ c.byapp = o.byapp /\ c.told = o.told /\ c.accepted = o.accepted
        /\ c.final = o.final /\ c.news = o.news /\ c.trouble = o.trouble
        /\ ~c.tmr
    BY <1>1, QuietLemma
  <1>3. Typed(o) /\ Typed(c)
    BY <1>2, TypedLemma
  <1>4. c.refs = One(c.app)
    BY <1>2, <1>3 DEF Open, One, Typed
  <1>5. Ending(c)
    BY <1>2, <1>3, <1>4 DEF Ending, Open, Typed
  <1>6. PICK t : t = terminate(c, e)
    OBVIOUS
  <1>7. Ended(t, c)
    BY <1>5, <1>6, TerminateLemma
  <1>8. x = [t EXCEPT !.told = "once"]
    BY <1>1, <1>3, <1>6 DEF sipnot_terminate, Told, Open, Typed
  <1>9. t \in Notifier /\ Typed(t)
    BY <1>7, TypedLemma DEF Ended
  <1>10. x \in Notifier
    BY <1>8, <1>9, Zenon DEF Notifier
  <1>11.
         /\ x.life = t.life /\ x.refs = t.refs /\ x.app = t.app
         /\ x.req = t.req /\ x.tmr = t.tmr /\ x.expires = t.expires
         /\ x.loops = t.loops /\ x.subscribed = t.subscribed
         /\ x.terminated = t.terminated /\ x.termsent = t.termsent
         /\ x.notify_pending = t.notify_pending /\ x.byapp = t.byapp
         /\ x.accepted = t.accepted /\ x.final = t.final /\ x.news = t.news
         /\ x.trouble = t.trouble
         /\ x.told = "once"
    BY <1>8, <1>9 DEF Notifier
  <1>12. Typed(x)
    BY <1>10, TypedLemma
  <1>13. x.app /\ WasTold(x) /\ x.accepted
    BY <1>2, <1>3, <1>7, <1>9, <1>11, <1>12 DEF Ended, Open, WasTold, Typed
  <1>14. Ended(x, x)
    <2>1. x.life = "live" /\ x.terminated /\ ~x.tmr /\ x.req # "several"
      BY <1>7, <1>9, <1>11, <1>12 DEF Ended, Typed
    <2>2. x.refs = One(x.app) + One(x.req # "none")
      BY <1>7, <1>9, <1>11, <1>12 DEF Ended, Typed
    <2>3. x.req = "none" => (x.accepted => x.trouble) /\ x.news # "unsent"
      BY <1>7, <1>9, <1>11, <1>12 DEF Ended, Typed
    <2>4. x.req # "none" => /\ x.loops # LoopMax
                            /\ x.subscribed /\ (x.termsent => x.final)
                            /\ x.news = "unsent" => ~x.termsent
      BY <1>7, <1>9, <1>11, <1>12 DEF Ended, Typed
    <2> QED BY <1>10, <2>1, <2>2, <2>3, <2>4 DEF Ended
  <1> QED BY <1>11, <1>13, <1>14, EndedLemma

(* The end of the response handler leaves a notifier that is steady.        *)
LEMMA SettleLemma ==
  ASSUME NEW o, Handling(o), NEW e \in Env, NEW x, x = Settle(o, e)
  PROVE  Steady(x)
  <1>1. o \in Notifier /\ o.life = "live" /\ o.req = "none"
    BY DEF Handling
  <1>2. Typed(o)
    BY <1>1, TypedLemma
  <1>3. PICK s : s = Reset(o)
    OBVIOUS
  <1>4. /\ s \in Notifier
        /\ s.life = o.life /\ s.refs = o.refs /\ s.app = o.app /\ s.req = o.req
        /\ s.tmr = o.tmr /\ s.expires = o.expires
        /\ s.subscribed = o.subscribed /\ s.terminated = o.terminated
        /\ s.termsent = o.termsent /\ s.notify_pending = o.notify_pending
        /\ s.byapp = o.byapp /\ s.told = o.told /\ s.accepted = o.accepted
        /\ s.final = o.final /\ s.news = o.news /\ s.trouble = o.trouble
        /\ s.loops # LoopMax
    BY <1>1, <1>3, ResetLemma
  <1>5. PICK r : r = notify_request(s, e)
    OBVIOUS
  <1>6. s.req = "none"
    BY <1>1, <1>4
  <1>7.
        /\ r \in Notifier
        /\ r.life = s.life /\ r.refs = s.refs /\ r.app = s.app
        /\ r.tmr = s.tmr /\ r.expires = s.expires /\ r.loops = s.loops
        /\ r.subscribed = s.subscribed /\ r.terminated = s.terminated
        /\ r.byapp = s.byapp /\ r.told = s.told /\ r.accepted = s.accepted
        /\ ~r.notify_pending /\ r.termsent = (s.termsent \/ s.terminated)
        /\ e.send => /\ r.req = "one" /\ r.final = s.terminated /\ r.news = "none"
                     /\ r.trouble = s.trouble
        /\ ~e.send => /\ r.req = "none" /\ r.final = s.final /\ r.news # "unsent"
                      /\ r.trouble = (s.trouble \/ s.terminated)
    BY <1>4, <1>5, <1>6, RequestLemma
  <1>8. Typed(s) /\ Typed(r)
    BY <1>4, <1>7, TypedLemma
  <1>9. CASE o.termsent \/ (o.terminated /\ ~o.subscribed)
    <2>1. Over(o)
      BY <1>1, <1>2, <1>9 DEF Handling, Over, OnItsWay, Open, One, Typed
    <2>2. x = mem_deref(o, e)
      BY <1>2, <1>9 DEF Settle, Typed
    <2> QED BY <1>1, <2>1, <2>2, GivenBackLemma
  <1>10. CASE ~o.termsent /\ o.terminated /\ o.subscribed /\ e.send
    <2>1. x = r
      BY <1>2, <1>3, <1>5, <1>10 DEF Settle, Typed
    <2>2. r.refs = One(r.app) + One(r.terminated /\ r.req # "none")
      BY <1>2, <1>4, <1>7, <1>8, <1>10 DEF Handling, One, Typed
    <2>3. WasTold(r)
      BY <1>2, <1>4, <1>7, <1>8, <1>10 DEF Handling, WasTold, Typed
    <2>4. Live(r)
      BY <1>2, <1>4, <1>7, <1>8, <1>10, <2>2, <2>3 DEF Handling, Live, OnItsWay, Typed
    <2> QED BY <1>1, <1>4, <1>7, <2>1, <2>4 DEF Steady
  <1>11. CASE ~o.termsent /\ o.terminated /\ o.subscribed /\ ~e.send
    <2>1. x = mem_deref(r, e)
      BY <1>2, <1>3, <1>5, <1>11 DEF Settle, Typed
    <2>2. WasTold(r)
      BY <1>2, <1>4, <1>7, <1>8, <1>11 DEF Handling, WasTold, Typed
    <2>3. r.refs = One(r.app) + 1
      BY <1>2, <1>4, <1>7, <1>8, <1>11 DEF Handling, One, Typed
    <2>4. Over(r)
      BY <1>1, <1>2, <1>4, <1>7, <1>8, <1>11, <2>2, <2>3 DEF Handling, Over, Typed
    <2> QED BY <1>7, <2>1, <2>4, GivenBackLemma
  <1>12. CASE ~o.terminated /\ ~o.subscribed
    <2>1. x = sipnot_terminate(o, e)
      BY <1>2, <1>12 DEF Settle, Handling, Open, Typed
    <2>2. Open(o) /\ o.refs = 1 /\ o.trouble /\ o.news # "unsent"
      BY <1>2, <1>12 DEF Handling, Open, One, Typed
    <2> QED BY <1>1, <1>12, <2>1, <2>2, CloseLemma
  <1>13. CASE ~o.terminated /\ o.subscribed /\ o.notify_pending
    <2>1. x = r
      BY <1>2, <1>3, <1>5, <1>13 DEF Settle, Handling, Open, Typed
    <2>2. r.refs = One(r.app) + One(r.terminated /\ r.req # "none")
      BY <1>2, <1>4, <1>7, <1>8, <1>13 DEF Handling, One, Typed
    <2>3. Open(r)
      BY <1>2, <1>4, <1>7, <1>8, <1>13 DEF Handling, Open, Typed
    <2>4. Live(r)
      BY <1>2, <1>4, <1>7, <1>8, <1>13, <2>2, <2>3 DEF Handling, Live, OnItsWay, Typed
    <2> QED BY <1>1, <1>4, <1>7, <2>1, <2>4 DEF Steady
  <1>14. CASE ~o.terminated /\ o.subscribed /\ ~o.notify_pending
    <2>1. x = o
      BY <1>2, <1>14 DEF Settle, Handling, Open, Typed
    <2>2. o.refs = One(o.app) + One(o.terminated /\ o.req # "none")
      BY <1>1, <1>2, <1>14 DEF Handling, One, Typed
    <2>3. Live(o)
      BY <1>1, <1>2, <1>14, <2>2 DEF Handling, Live, OnItsWay, Typed
    <2> QED BY <1>1, <2>1, <2>3 DEF Steady
  <1> QED BY <1>2, <1>9, <1>10, <1>11, <1>12, <1>13, <1>14 DEF Typed

(* A notifier whose NOTIFY was the last.                                    *)
Gone(o) == [NotSent(o) EXCEPT !.subscribed = FALSE, !.trouble = TRUE]

(* The subscriber is given up.                                              *)
LEMMA GoneLemma ==
  ASSUME NEW o \in Notifier,
         NEW x, x = Gone(o)
  PROVE  /\ x \in Notifier
         /\ x.life = o.life /\ x.refs = o.refs /\ x.app = o.app
         /\ x.req = o.req /\ x.tmr = o.tmr /\ x.expires = o.expires
         /\ x.loops = o.loops /\ x.terminated = o.terminated
         /\ x.termsent = o.termsent /\ x.notify_pending = o.notify_pending
         /\ x.byapp = o.byapp /\ x.told = o.told /\ x.accepted = o.accepted
         /\ x.final = o.final
         /\ ~x.subscribed /\ x.trouble /\ x.news # "unsent"
  <1>1. PICK n : n = NotSent(o)
    OBVIOUS
  <1>2. /\ n \in Notifier
        /\ n.life = o.life /\ n.refs = o.refs /\ n.app = o.app /\ n.req = o.req
        /\ n.tmr = o.tmr /\ n.expires = o.expires /\ n.loops = o.loops
        /\ n.subscribed = o.subscribed /\ n.terminated = o.terminated
        /\ n.termsent = o.termsent /\ n.notify_pending = o.notify_pending
        /\ n.byapp = o.byapp /\ n.told = o.told /\ n.accepted = o.accepted
        /\ n.final = o.final /\ n.trouble = o.trouble
        /\ n.news # "unsent"
    BY <1>1, NotSentLemma
  <1>3. PICK s \in BOOLEAN : s = FALSE
    OBVIOUS
  <1>4. PICK t \in BOOLEAN : t = TRUE
    OBVIOUS
  <1>5. x = [n EXCEPT !.subscribed = s, !.trouble = t]
    BY <1>1, <1>3, <1>4 DEF Gone
  <1>6. x \in Notifier
    BY <1>2, <1>5, Zenon DEF Notifier
  <1>7.
         /\ x.life = n.life /\ x.refs = n.refs /\ x.app = n.app
         /\ x.req = n.req /\ x.tmr = n.tmr /\ x.expires = n.expires
         /\ x.loops = n.loops /\ x.terminated = n.terminated
         /\ x.termsent = n.termsent /\ x.notify_pending = n.notify_pending
         /\ x.byapp = n.byapp /\ x.told = n.told /\ x.accepted = n.accepted
         /\ x.final = n.final
         /\ x.subscribed = s /\ x.trouble = t /\ x.news = n.news
    BY <1>2, <1>5 DEF Notifier
  <1> QED BY <1>2, <1>3, <1>4, <1>6, <1>7

(* The response handler, on the answer to a NOTIFY.                         *)
LEMMA ResponseLemma ==
  ASSUME NEW o \in Notifier, o.life = "live", o.req # "none", Live(o),
         NEW e \in Env, NEW a \in Answers, NEW x, x = response_handler(o, a, e)
  PROVE  Steady(x)
  <1>1. PICK d : d = [o EXCEPT !.req = "none"]
    OBVIOUS
  <1>2. d \in Notifier
    BY <1>1, Zenon DEF Notifier
  <1>3.
         /\ d.life = o.life /\ d.refs = o.refs /\ d.app = o.app
         /\ d.tmr = o.tmr /\ d.expires = o.expires /\ d.loops = o.loops
         /\ d.subscribed = o.subscribed /\ d.terminated = o.terminated
         /\ d.termsent = o.termsent /\ d.notify_pending = o.notify_pending
         /\ d.byapp = o.byapp /\ d.told = o.told /\ d.accepted = o.accepted
         /\ d.final = o.final /\ d.news = o.news /\ d.trouble = o.trouble
         /\ d.req = "none"
    BY <1>1 DEF Notifier
  <1>4. Typed(o) /\ Typed(d)
    BY <1>2, TypedLemma
  <1>5. Handling(d) /\ d.subscribed /\ d.loops # LoopMax
    <2>1. d.refs = One(d.app) + One(d.terminated)
      BY <1>3, <1>4 DEF Live, One, Typed
    <2>2. ~d.terminated => Open(d)
      BY <1>3, <1>4 DEF Live, Open, Typed
    <2>3. d.terminated => WasTold(d)
      BY <1>3, <1>4 DEF Live, WasTold, Typed
    <2>4. OnItsWay(d, TRUE)
      BY <1>3, <1>4 DEF Live, OnItsWay, Typed
    <2>5. /\ d.tmr = ~d.terminated /\ d.told \in {"no", "once"}
          /\ d.subscribed /\ d.loops # LoopMax
          /\ d.terminated /\ d.termsent => d.final
      BY <1>3, <1>4 DEF Live, Typed
    <2> QED BY <1>2, <1>3, <1>4, <2>1, <2>2, <2>3, <2>4, <2>5 DEF Handling, Typed
  <1>6. PICK f : f = Fail(d)
    OBVIOUS
  <1>7. /\ f \in Notifier
        /\ f.life = d.life /\ f.refs = d.refs /\ f.app = d.app /\ f.req = d.req
        /\ f.tmr = d.tmr /\ f.expires = d.expires
        /\ f.subscribed = d.subscribed /\ f.terminated = d.terminated
        /\ f.termsent = d.termsent /\ f.notify_pending = d.notify_pending
        /\ f.byapp = d.byapp /\ f.told = d.told /\ f.accepted = d.accepted
        /\ f.final = d.final /\ f.news = d.news /\ f.trouble = d.trouble
    <2>1. d \in Notifier /\ d.loops # LoopMax
      BY <1>2, <1>5
    <2> QED BY <1>6, <2>1, FailLemma
  <1>8. PICK r : r = notify_request(f, e)
    OBVIOUS
  <1>9. f.req = "none"
    BY <1>3, <1>7
  <1>10.
         /\ r \in Notifier
         /\ r.life = f.life /\ r.refs = f.refs /\ r.app = f.app
         /\ r.tmr = f.tmr /\ r.expires = f.expires /\ r.loops = f.loops
         /\ r.subscribed = f.subscribed /\ r.terminated = f.terminated
         /\ r.byapp = f.byapp /\ r.told = f.told /\ r.accepted = f.accepted
         /\ ~r.notify_pending /\ r.termsent = (f.termsent \/ f.terminated)
         /\ e.send => /\ r.req = "one" /\ r.final = f.terminated /\ r.news = "none"
                      /\ r.trouble = f.trouble
         /\ ~e.send => /\ r.req = "none" /\ r.final = f.final /\ r.news # "unsent"
                       /\ r.trouble = (f.trouble \/ f.terminated)
    BY <1>7, <1>8, <1>9, RequestLemma
  <1>11. Typed(f) /\ Typed(r)
    BY <1>7, <1>10, TypedLemma
  <1>12. ASSUME NEW y \in Notifier, y.req = "none", y.life = "live",
                y.refs = d.refs, y.app = d.app, y.tmr = d.tmr, y.told = d.told,
                y.terminated = d.terminated, y.byapp = d.byapp,
                y.accepted = d.accepted, y.final = d.final,
                ~y.terminated => y.termsent = d.termsent,
                NEW g, g = Gone(y)
         PROVE  Handling(g)
    <2>1. /\ g \in Notifier
          /\ g.life = y.life /\ g.refs = y.refs /\ g.app = y.app
          /\ g.req = y.req /\ g.tmr = y.tmr /\ g.expires = y.expires
          /\ g.loops = y.loops /\ g.terminated = y.terminated
          /\ g.termsent = y.termsent /\ g.notify_pending = y.notify_pending
          /\ g.byapp = y.byapp /\ g.told = y.told /\ g.accepted = y.accepted
          /\ g.final = y.final
          /\ ~g.subscribed /\ g.trouble /\ g.news # "unsent"
      <3>1. y \in Notifier /\ g = Gone(y)
        BY <1>12
      <3> HIDE <1>12
      <3> QED BY <3>1, GoneLemma
    <2>2. Typed(g) /\ Typed(y)
      BY <1>12, <2>1, TypedLemma
    <2>3. g.refs = One(g.app) + One(g.terminated)
      BY <1>4, <1>5, <1>12, <2>1, <2>2 DEF Handling, One, Typed
    <2>4. ~g.terminated => Open(g)
      BY <1>4, <1>5, <1>12, <2>1, <2>2 DEF Handling, Open, Typed
    <2>5. g.terminated => WasTold(g)
      BY <1>4, <1>5, <1>12, <2>1, <2>2 DEF Handling, WasTold, Typed
    <2>6. g.tmr = ~g.terminated /\ g.told \in {"no", "once"}
      BY <1>4, <1>5, <1>12, <2>1, <2>2 DEF Handling, Typed
    <2>7. g.life = "live" /\ g.req = "none"
      BY <1>12, <2>1
    <2>8. OnItsWay(g, TRUE)
      BY <2>1 DEF OnItsWay
    <2> QED BY <2>1, <2>2, <2>3, <2>4, <2>5, <2>6, <2>7, <2>8 DEF Handling, Typed
  <1>13. CASE a = "2xx"
    <2>1. PICK s : s = Reset(d)
      OBVIOUS
    <2>2. /\ s \in Notifier
          /\ s.life = d.life /\ s.refs = d.refs /\ s.app = d.app
          /\ s.req = d.req /\ s.tmr = d.tmr /\ s.expires = d.expires
          /\ s.subscribed = d.subscribed /\ s.terminated = d.terminated
          /\ s.termsent = d.termsent /\ s.notify_pending = d.notify_pending
          /\ s.byapp = d.byapp /\ s.told = d.told /\ s.accepted = d.accepted
          /\ s.final = d.final /\ s.news = d.news /\ s.trouble = d.trouble
          /\ s.loops # LoopMax
      BY <1>2, <2>1, ResetLemma
    <2>3. Typed(s)
      BY <2>2, TypedLemma
    <2>4. s.refs = One(s.app) + One(s.terminated)
      BY <1>4, <1>5, <2>2, <2>3 DEF Handling, One, Typed
    <2>5. ~s.terminated => Open(s)
      BY <1>4, <1>5, <2>2, <2>3 DEF Handling, Open, Typed
    <2>6. s.terminated => WasTold(s)
      BY <1>4, <1>5, <2>2, <2>3 DEF Handling, WasTold, Typed
    <2>7. OnItsWay(s, TRUE)
      BY <1>4, <1>5, <2>2, <2>3 DEF Handling, OnItsWay, Typed
    <2>8. Handling(s)
      BY <1>4, <1>5, <2>2, <2>3, <2>4, <2>5, <2>6, <2>7 DEF Handling, Typed
    <2>9. x = Settle(s, e)
      BY <1>1, <1>13, <2>1 DEF response_handler
    <2> QED BY <2>8, <2>9, SettleLemma
  <1>14. CASE a = "error"
    <2>1. x = Settle(d, e)
      BY <1>1, <1>14 DEF response_handler
    <2> QED BY <1>5, <2>1, SettleLemma
  <1>15. PICK gd : gd = Gone(d)
    OBVIOUS
  <1>16. Handling(gd)
    BY <1>2, <1>3, <1>12, <1>15
  <1>17. PICK gf : gf = Gone(f)
    OBVIOUS
  <1>18. Handling(gf)
    BY <1>3, <1>7, <1>12, <1>17
  <1>19. CASE a = "timeout"
    <2>1. x = Settle(gd, e)
      BY <1>1, <1>15, <1>19 DEF response_handler, Gone
    <2> QED BY <1>16, <2>1, SettleLemma
  <1>20. CASE a = "refused"
    <2>1. x = Settle(gf, e)
      BY <1>1, <1>6, <1>17, <1>20 DEF response_handler, Gone
    <2> QED BY <1>18, <2>1, SettleLemma
  <1>21. CASE a = "401" /\ (Loops(f) \/ ~e.usable)
    <2>1. x = Settle(gf, e)
      BY <1>1, <1>6, <1>17, <1>21 DEF response_handler, Gone
    <2> QED BY <1>18, <2>1, SettleLemma
  <1>22. CASE a = "401" /\ ~(Loops(f) \/ ~e.usable) /\ e.send
    <2>1. x = r
      BY <1>1, <1>6, <1>8, <1>22 DEF response_handler
    <2>2. r.refs = One(r.app) + One(r.terminated /\ r.req # "none")
      BY <1>4, <1>5, <1>7, <1>10, <1>11, <1>22 DEF Handling, One, Typed
    <2>3. ~r.terminated => Open(r)
      BY <1>4, <1>5, <1>7, <1>10, <1>11, <1>22 DEF Handling, Open, Typed
    <2>4. r.terminated => WasTold(r)
      BY <1>4, <1>5, <1>7, <1>10, <1>11, <1>22 DEF Handling, WasTold, Typed
    <2>5. r.loops # LoopMax
      BY <1>10, <1>22 DEF Loops
    <2>6. /\ r.req = "one" /\ r.tmr = ~r.terminated /\ r.told \in {"no", "once"}
          /\ r.subscribed /\ (r.terminated => r.final) /\ r.news = "none"
      BY <1>4, <1>5, <1>7, <1>10, <1>11, <1>22 DEF Handling, Typed
    <2>7. Live(r)
      BY <1>11, <2>2, <2>3, <2>4, <2>5, <2>6 DEF Live, OnItsWay, Typed
    <2> QED BY <1>3, <1>7, <1>10, <2>1, <2>7 DEF Steady
  <1>23. CASE a = "401" /\ ~(Loops(f) \/ ~e.usable) /\ ~e.send
    <2>1. PICK g : g = Gone(r)
      OBVIOUS
    <2>2. x = Settle(g, e)
      BY <1>1, <1>6, <1>8, <1>23, <2>1 DEF response_handler, Gone
    <2>3. /\ r.req = "none" /\ r.life = "live" /\ r.refs = d.refs /\ r.app = d.app
          /\ r.tmr = d.tmr /\ r.told = d.told /\ r.terminated = d.terminated
          /\ r.byapp = d.byapp /\ r.accepted = d.accepted /\ r.final = d.final
          /\ ~r.terminated => r.termsent = d.termsent
      BY <1>3, <1>4, <1>7, <1>10, <1>11, <1>23 DEF Typed
    <2>4. Handling(g)
      BY <1>10, <1>12, <2>1, <2>3
    <2> QED BY <2>2, <2>4, SettleLemma
  <1> QED BY <1>13, <1>14, <1>19, <1>20, <1>21, <1>22, <1>23 DEF Answers

(* A new state, or a refresh, of a notifier that has not ended.             *)
LEMMA NotifyLemma ==
  ASSUME NEW o \in Notifier, Running(o), NEW e \in Env, NEW x, x = sipnot_notify(o, e)
  PROVE  Steady(x)
  <1>1. Typed(o)
    BY TypedLemma
  <1>2. CASE ~o.expires
    <2>1. x = o
      BY <1>2 DEF sipnot_notify
    <2>2. o.refs = One(o.app) + One(o.terminated /\ o.req # "none")
      BY <1>1 DEF Running, Open, One, Typed
    <2>3. Live(o)
      BY <1>1, <1>2, <2>2 DEF Running, Live, Open, OnItsWay, Typed
    <2> QED BY <2>1, <2>3 DEF Running, Steady
  <1>3. CASE o.expires /\ o.req # "none"
    <2>1. PICK b \in BOOLEAN : b = TRUE
      OBVIOUS
    <2>2. x = [o EXCEPT !.notify_pending = b]
      BY <1>3, <2>1 DEF sipnot_notify
    <2>3. x \in Notifier
      BY <2>2, Zenon DEF Notifier
    <2>4.
         /\ x.life = o.life /\ x.refs = o.refs /\ x.app = o.app
         /\ x.req = o.req /\ x.tmr = o.tmr /\ x.expires = o.expires
         /\ x.loops = o.loops /\ x.subscribed = o.subscribed
         /\ x.terminated = o.terminated /\ x.termsent = o.termsent
         /\ x.byapp = o.byapp /\ x.told = o.told /\ x.accepted = o.accepted
         /\ x.final = o.final /\ x.news = o.news /\ x.trouble = o.trouble
         /\ x.notify_pending = b
      BY <2>2 DEF Notifier
    <2>5. Typed(x)
      BY <2>3, TypedLemma
    <2>6. x.refs = One(x.app) + One(x.terminated /\ x.req # "none")
      BY <1>1, <2>4, <2>5 DEF Running, Open, One, Typed
    <2>7. Open(x)
      BY <1>1, <2>4, <2>5 DEF Running, Open, Typed
    <2>8. Live(x)
      BY <1>1, <1>3, <2>1, <2>4, <2>5, <2>6, <2>7 DEF Running, Live, Open, OnItsWay, Typed
    <2> QED BY <2>3, <2>4, <2>8 DEF Running, Steady
  <1>4. CASE o.expires /\ o.req = "none"
    <2>1. PICK s : s = Reset(o)
      OBVIOUS
    <2>2. /\ s \in Notifier
          /\ s.life = o.life /\ s.refs = o.refs /\ s.app = o.app
          /\ s.req = o.req /\ s.tmr = o.tmr /\ s.expires = o.expires
          /\ s.subscribed = o.subscribed /\ s.terminated = o.terminated
          /\ s.termsent = o.termsent /\ s.notify_pending = o.notify_pending
          /\ s.byapp = o.byapp /\ s.told = o.told /\ s.accepted = o.accepted
          /\ s.final = o.final /\ s.news = o.news /\ s.trouble = o.trouble
          /\ s.loops # LoopMax
      BY <2>1, ResetLemma
    <2>3. s.req = "none"
      BY <1>4, <2>2
    <2>4. x = notify_request(s, e)
      BY <1>4, <2>1 DEF sipnot_notify
    <2>5.
         /\ x \in Notifier
         /\ x.life = s.life /\ x.refs = s.refs /\ x.app = s.app
         /\ x.tmr = s.tmr /\ x.expires = s.expires /\ x.loops = s.loops
         /\ x.subscribed = s.subscribed /\ x.terminated = s.terminated
         /\ x.byapp = s.byapp /\ x.told = s.told /\ x.accepted = s.accepted
         /\ ~x.notify_pending /\ x.termsent = (s.termsent \/ s.terminated)
         /\ e.send => /\ x.req = "one" /\ x.final = s.terminated /\ x.news = "none"
                      /\ x.trouble = s.trouble
         /\ ~e.send => /\ x.req = "none" /\ x.final = s.final /\ x.news # "unsent"
                       /\ x.trouble = (s.trouble \/ s.terminated)
      BY <2>2, <2>3, <2>4, RequestLemma
    <2>6. Typed(s) /\ Typed(x)
      BY <2>2, <2>5, TypedLemma
    <2>7. x.refs = One(x.app) + One(x.terminated /\ x.req # "none")
      BY <1>1, <2>2, <2>5, <2>6 DEF Running, Open, One, Typed
    <2>8. Open(x)
      BY <1>1, <2>2, <2>5, <2>6 DEF Running, Open, Typed
    <2>9. x.news # "unsent" /\ x.req # "several" /\ x.loops # LoopMax
      BY <1>4, <2>2, <2>5 DEF Running
    <2>10. Live(x)
      BY <1>1, <2>2, <2>5, <2>6, <2>7, <2>8, <2>9 DEF Running, Live, Open, OnItsWay, Typed
    <2> QED BY <2>2, <2>5, <2>10 DEF Running, Steady
  <1> QED BY <1>1, <1>2, <1>3, <1>4 DEF Typed

-----------------------------------------------------------------------------
(* The steps, from a steady notifier to a steady one.                       *)

LEMMA InitLemma ==
  ASSUME Init
  PROVE  IInv
  BY UnusedLemma DEF Init, IInv, Steady, Inert

LEMMA AcceptStep ==
  ASSUME IInv, sipevent_accept
  PROVE  IInv'
  <1>1. not = Unused
    BY DEF IInv, Steady, Inert, sipevent_accept
  <1>2. PICK e \in Env, expires \in BOOLEAN :
          LET o == sipnot_refresh([Unused EXCEPT !.life = "live", !.refs = 1], expires)
          IN not' = IF e.send
                    THEN [o EXCEPT !.subscribed = TRUE, !.accepted = TRUE, !.app = TRUE]
                    ELSE mem_deref(o, e)
    BY DEF sipevent_accept
  <1>3. PICK t \in BOOLEAN : t = TRUE
    OBVIOUS
  <1>4. PICK o : o = [Unused EXCEPT !.life = "live", !.refs = 1,
                                    !.expires = expires, !.tmr = t]
    OBVIOUS
  <1>5. o = sipnot_refresh([Unused EXCEPT !.life = "live", !.refs = 1], expires)
    BY <1>3, <1>4, UnusedLemma DEF sipnot_refresh, Notifier
  <1>6. 1 \in 0..2
    OBVIOUS
  <1>7. o \in Notifier
    BY <1>4, <1>6, UnusedLemma, Zenon DEF Notifier
  <1>8.
         /\ o.app = Unused.app /\ o.req = Unused.req /\ o.loops = Unused.loops
         /\ o.subscribed = Unused.subscribed
         /\ o.terminated = Unused.terminated /\ o.termsent = Unused.termsent
         /\ o.notify_pending = Unused.notify_pending /\ o.byapp = Unused.byapp
         /\ o.told = Unused.told /\ o.accepted = Unused.accepted
         /\ o.final = Unused.final /\ o.news = Unused.news
         /\ o.trouble = Unused.trouble
         /\ o.life = "live" /\ o.refs = 1 /\ o.expires = expires /\ o.tmr = t
    BY <1>4, UnusedLemma DEF Notifier
  <1>9. Typed(o)
    BY <1>7, TypedLemma
  <1>10. CASE e.send
    <2>1. PICK x : x = [o EXCEPT !.subscribed = t, !.accepted = t, !.app = t]
      OBVIOUS
    <2>2. x = [o EXCEPT !.subscribed = TRUE, !.accepted = TRUE, !.app = TRUE]
      BY <1>3, <2>1
    <2>3. not' = x
      BY <1>2, <1>5, <1>10, <2>2
    <2>4. x \in Notifier
      BY <1>7, <2>1, Zenon DEF Notifier
    <2>5.
         /\ x.life = o.life /\ x.refs = o.refs /\ x.req = o.req
         /\ x.tmr = o.tmr /\ x.expires = o.expires /\ x.loops = o.loops
         /\ x.terminated = o.terminated /\ x.termsent = o.termsent
         /\ x.notify_pending = o.notify_pending /\ x.byapp = o.byapp
         /\ x.told = o.told /\ x.final = o.final /\ x.news = o.news
         /\ x.trouble = o.trouble
         /\ x.subscribed = t /\ x.accepted = t /\ x.app = t
      BY <1>7, <2>1 DEF Notifier
    <2>6. Typed(x)
      BY <2>4, TypedLemma
    <2>7. /\ x.life = "live" /\ x.refs = 1 /\ x.app /\ x.accepted /\ x.subscribed
          /\ x.tmr /\ ~x.terminated /\ x.told = "no" /\ ~x.byapp /\ ~x.final
          /\ ~x.termsent /\ x.req = "none" /\ x.news = "none"
      BY <1>3, <1>8, <1>9, <2>5, <2>6, UnusedLemma DEF Typed
    <2>8. x.refs = One(x.app) + One(x.terminated /\ x.req # "none")
      BY <2>6, <2>7 DEF One, Typed
    <2>9. Live(x)
      BY <2>6, <2>7, <2>8 DEF Live, Open, OnItsWay, Typed
    <2>10. Steady(x)
      BY <2>4, <2>7, <2>9 DEF Steady
    <2> QED BY <2>3, <2>10 DEF IInv, Steady, Live, Inert, Open, OnItsWay, WasTold
  <1>11. CASE ~e.send
    <2>1. not' = mem_deref(o, e)
      BY <1>2, <1>5, <1>11
    <2>2. /\ o.life = "live" /\ ~o.terminated /\ ~o.app /\ o.refs = 1
          /\ ~o.termsent /\ ~o.final /\ o.told = "no" /\ o.req = "none"
          /\ ~o.accepted /\ o.news = "none"
      BY <1>8, <1>9, UnusedLemma DEF Typed
    <2>3. Steady(not')
      BY <1>7, <2>1, <2>2, DropLemma
    <2> QED BY <2>3 DEF IInv, Steady, Live, Inert, Open, OnItsWay, WasTold
  <1> QED BY <1>10, <1>11

LEMMA StateStep ==
  ASSUME IInv, sipevent_notify
  PROVE  IInv'
  <1>1. /\ not \in Notifier /\ not.life = "live" /\ Live(not)
        /\ not.app /\ ~not.terminated
    BY DEF IInv, Steady, Inert, sipevent_notify
  <1>2. PICK e \in Env, last \in BOOLEAN, mb \in BOOLEAN :
          LET o == [not EXCEPT !.news = IF mb \/ ~last THEN "unsent" ELSE @]
          IN not' = IF ~last THEN sipnot_notify(o, e)
                    ELSE terminate([o EXCEPT !.tmr = FALSE, !.byapp = TRUE], e)
    BY DEF sipevent_notify
  <1>3. PICK n : n = IF mb \/ ~last THEN "unsent" ELSE not.news
    OBVIOUS
  <1>4. n \in {"none", "unsent", "failed"}
    BY <1>1, <1>3 DEF Notifier
  <1>5. PICK o : o = [not EXCEPT !.news = n]
    OBVIOUS
  <1>6. o = [not EXCEPT !.news = IF mb \/ ~last THEN "unsent" ELSE @]
    BY <1>3, <1>5
  <1>7. o \in Notifier
    BY <1>1, <1>4, <1>5, Zenon DEF Notifier
  <1>8.
         /\ o.life = not.life /\ o.refs = not.refs /\ o.app = not.app
         /\ o.req = not.req /\ o.tmr = not.tmr /\ o.expires = not.expires
         /\ o.loops = not.loops /\ o.subscribed = not.subscribed
         /\ o.terminated = not.terminated /\ o.termsent = not.termsent
         /\ o.notify_pending = not.notify_pending /\ o.byapp = not.byapp
         /\ o.told = not.told /\ o.accepted = not.accepted
         /\ o.final = not.final /\ o.trouble = not.trouble
         /\ o.news = n
    BY <1>1, <1>5 DEF Notifier
  <1>9. Typed(o) /\ Typed(not)
    BY <1>1, <1>7, TypedLemma
  <1>10. Open(o)
    BY <1>1, <1>8, <1>9 DEF Live, Open, Typed
  <1>11. /\ o.life = "live" /\ ~o.terminated /\ o.subscribed /\ o.refs = 1 /\ o.tmr
         /\ o.req # "several" /\ (o.req # "none" => o.loops # LoopMax)
    BY <1>1, <1>8, <1>9 DEF Live, One, Typed
  <1>12. CASE ~last
    <2>1. not' = sipnot_notify(o, e)
      BY <1>2, <1>6, <1>12
    <2>2. Steady(not')
      BY <1>7, <1>10, <1>11, <2>1, NotifyLemma DEF Running
    <2> QED BY <2>2 DEF IInv, Steady, Live, Inert, Open, OnItsWay, WasTold
  <1>13. CASE last
    <2>1. PICK b \in BOOLEAN : b = TRUE
      OBVIOUS
    <2>2. PICK f \in BOOLEAN : f = FALSE
      OBVIOUS
    <2>3. PICK c : c = [o EXCEPT !.tmr = f, !.byapp = b]
      OBVIOUS
    <2>4. c = [o EXCEPT !.tmr = FALSE, !.byapp = TRUE]
      BY <2>1, <2>2, <2>3
    <2>5. c \in Notifier
      BY <1>7, <2>3, Zenon DEF Notifier
    <2>6.
         /\ c.life = o.life /\ c.refs = o.refs /\ c.app = o.app
         /\ c.req = o.req /\ c.expires = o.expires /\ c.loops = o.loops
         /\ c.subscribed = o.subscribed /\ c.terminated = o.terminated
         /\ c.termsent = o.termsent /\ c.notify_pending = o.notify_pending
         /\ c.told = o.told /\ c.accepted = o.accepted /\ c.final = o.final
         /\ c.news = o.news /\ c.trouble = o.trouble
         /\ c.tmr = f /\ c.byapp = b
      BY <1>7, <2>3 DEF Notifier
    <2>7. Typed(c)
      BY <2>5, TypedLemma
    <2>8. /\ c.app /\ c.byapp /\ c.accepted /\ c.told = "no" /\ ~c.tmr
          /\ c.life = "live" /\ ~c.terminated /\ ~c.termsent /\ ~c.final
          /\ c.refs = 1 /\ c.req # "several" /\ c.subscribed
          /\ c.req # "none" => c.loops # LoopMax
      BY <1>9, <1>10, <1>11, <2>1, <2>2, <2>6, <2>7 DEF Open, Typed
    <2>9. Ending(c)
      BY <2>5, <2>8 DEF Ending, One
    <2>10. not' = terminate(c, e)
      BY <1>2, <1>6, <1>13, <2>4
    <2>11. Ended(not', c)
      BY <2>9, <2>10, TerminateLemma
    <2>12. not' \in Notifier
      BY <2>11 DEF Ended
    <2>13. Typed(not')
      BY <2>12, TypedLemma
    <2>14. WasTold(not') /\ not'.told = "no" /\ not'.app /\ not'.accepted
      BY <2>7, <2>8, <2>11, <2>13 DEF Ended, WasTold, Typed
    <2>15. Steady(not')
      BY <2>11, <2>14, EndedLemma
    <2> QED BY <2>15 DEF IInv, Steady, Live, Inert, Open, OnItsWay, WasTold
  <1> QED BY <1>12, <1>13

LEMMA ReleaseStep ==
  ASSUME IInv, Release
  PROVE  IInv' /\ (not.terminated /\ not.req = "none" => not'.req = "none")
  <1>1. not \in Notifier /\ not.life = "live" /\ Live(not) /\ not.app
    BY DEF IInv, Steady, Inert, Release
  <1>2. PICK e \in Env : not' = mem_deref([not EXCEPT !.app = FALSE], e)
    BY DEF Release
  <1>3. PICK f \in BOOLEAN : f = FALSE
    OBVIOUS
  <1>4. PICK o : o = [not EXCEPT !.app = f]
    OBVIOUS
  <1>5. not' = mem_deref(o, e)
    BY <1>2, <1>3, <1>4
  <1>6. o \in Notifier
    BY <1>1, <1>4, Zenon DEF Notifier
  <1>7.
         /\ o.life = not.life /\ o.refs = not.refs /\ o.req = not.req
         /\ o.tmr = not.tmr /\ o.expires = not.expires /\ o.loops = not.loops
         /\ o.subscribed = not.subscribed /\ o.terminated = not.terminated
         /\ o.termsent = not.termsent /\ o.notify_pending = not.notify_pending
         /\ o.byapp = not.byapp /\ o.told = not.told
         /\ o.accepted = not.accepted /\ o.final = not.final
         /\ o.news = not.news /\ o.trouble = not.trouble
         /\ o.app = f
    BY <1>1, <1>4 DEF Notifier
  <1>8. Typed(o) /\ Typed(not)
    BY <1>1, <1>6, TypedLemma
  <1>9. CASE ~not.terminated
    <2>1. /\ o.life = "live" /\ ~o.terminated /\ ~o.app /\ o.refs = 1
          /\ ~o.termsent /\ ~o.final /\ o.told = "no" /\ o.subscribed
          /\ o.req # "several" /\ (o.req # "none" => o.loops # LoopMax)
      BY <1>1, <1>3, <1>7, <1>8, <1>9 DEF Live, Open, One, Typed
    <2>2. Steady(not')
      BY <1>5, <1>6, <2>1, DropLemma
    <2> QED BY <1>9, <2>2 DEF IInv, Steady, Live, Inert, Open, OnItsWay, WasTold
  <1>10. CASE not.terminated /\ not.req = "none"
    <2>1. o.refs = One(o.app) + 1
      BY <1>1, <1>3, <1>7, <1>8, <1>10 DEF Live, One, Typed
    <2>2. WasTold(o)
      BY <1>3, <1>7, <1>8 DEF WasTold, Typed
    <2>3. Over(o)
      BY <1>1, <1>7, <1>8, <1>10, <2>1, <2>2 DEF Live, OnItsWay, Over, Typed
    <2>4. Steady(not') /\ not'.req = "none"
      BY <1>5, <1>6, <2>3, GivenBackLemma
    <2> QED BY <2>4 DEF IInv, Steady, Live, Inert, Open, OnItsWay, WasTold
  <1>11. CASE not.terminated /\ not.req # "none"
    <2>1. o.refs = 2
      BY <1>1, <1>7, <1>8, <1>11 DEF Live, One, Typed
    <2>2. PICK d : d = [o EXCEPT !.refs = @ - 1]
      OBVIOUS
    <2>3. /\ d \in Notifier
          /\ d.life = o.life /\ d.app = o.app /\ d.req = o.req /\ d.tmr = o.tmr
          /\ d.expires = o.expires /\ d.loops = o.loops
          /\ d.subscribed = o.subscribed /\ d.terminated = o.terminated
          /\ d.termsent = o.termsent /\ d.notify_pending = o.notify_pending
          /\ d.byapp = o.byapp /\ d.told = o.told /\ d.accepted = o.accepted
          /\ d.final = o.final /\ d.news = o.news /\ d.trouble = o.trouble
          /\ d.refs = o.refs - 1
      BY <1>6, <2>1, <2>2, LessLemma
    <2>4. not' = d
      BY <1>1, <1>5, <1>7, <2>1, <2>2, <2>3 DEF mem_deref
    <2>5. Typed(d)
      BY <2>3, TypedLemma
    <2>6. d.refs = One(d.app) + One(d.terminated /\ d.req # "none")
      BY <1>3, <1>7, <1>8, <1>11, <2>1, <2>3, <2>5 DEF One, Typed
    <2>7. WasTold(d)
      BY <1>3, <1>7, <1>8, <2>3, <2>5 DEF WasTold, Typed
    <2>8. Live(d)
      BY <1>1, <1>7, <1>8, <1>11, <2>3, <2>5, <2>6, <2>7 DEF Live, OnItsWay, Typed
    <2>9. Steady(d)
      BY <1>1, <1>7, <2>3, <2>8 DEF Steady
    <2> QED BY <1>11, <2>4, <2>9 DEF IInv, Steady, Live, Inert, Open, OnItsWay, WasTold
  <1> QED BY <1>8, <1>9, <1>10, <1>11 DEF Typed

LEMMA TimerStep ==
  ASSUME IInv, tmr_handler
  PROVE  IInv'
  <1>1. not \in Notifier /\ not.life = "live" /\ Live(not) /\ not.tmr
    BY DEF IInv, Steady, Inert, tmr_handler
  <1>2. PICK e \in Env :
          LET o == [not EXCEPT !.tmr = FALSE]
          IN not' = IF o.terminated THEN o ELSE sipnot_terminate(o, e)
    BY DEF tmr_handler
  <1>3. PICK o : o = [not EXCEPT !.tmr = FALSE]
    OBVIOUS
  <1>4. /\ o \in Notifier
        /\ o.life = not.life /\ o.refs = not.refs /\ o.app = not.app
        /\ o.req = not.req /\ o.expires = not.expires /\ o.loops = not.loops
        /\ o.subscribed = not.subscribed /\ o.terminated = not.terminated
        /\ o.termsent = not.termsent /\ o.notify_pending = not.notify_pending
        /\ o.byapp = not.byapp /\ o.told = not.told
        /\ o.accepted = not.accepted /\ o.final = not.final
        /\ o.news = not.news /\ o.trouble = not.trouble
        /\ ~o.tmr
    BY <1>1, <1>3, QuietLemma
  <1>5. Typed(o) /\ Typed(not)
    BY <1>1, <1>4, TypedLemma
  <1>6. /\ ~o.terminated /\ o.life = "live" /\ o.refs = 1 /\ o.subscribed
        /\ o.req # "several" /\ (o.req # "none" => o.loops # LoopMax)
    BY <1>1, <1>4, <1>5 DEF Live, Open, One, Typed
  <1>7. Open(o)
    BY <1>1, <1>4, <1>5, <1>6 DEF Live, Open, Typed
  <1>8. not' = sipnot_terminate(o, e)
    BY <1>2, <1>3, <1>6
  <1>9. Steady(not')
    BY <1>4, <1>6, <1>7, <1>8, CloseLemma
  <1> QED BY <1>9 DEF IInv, Steady, Live, Inert, Open, OnItsWay, WasTold

LEMMA AnsweredStep ==
  ASSUME IInv, Answered
  PROVE  IInv'
  <1>1. not \in Notifier /\ not.life = "live" /\ Live(not) /\ not.req # "none"
    BY DEF IInv, Steady, Answered
  <1>2. PICK e \in Env, a \in Answers : not' = response_handler(not, a, e)
    BY DEF Answered
  <1>3. Steady(not')
    BY <1>1, <1>2, ResponseLemma
  <1> QED BY <1>3 DEF IInv, Steady, Live, Inert, Open, OnItsWay, WasTold

LEMMA SubscribeStep ==
  ASSUME IInv, subscribe_handler
  PROVE  IInv'
  <1>1. not \in Notifier /\ not.life = "live" /\ Live(not) /\ ~not.terminated
    BY DEF IInv, Steady, subscribe_handler
  <1>2. PICK e \in Env, expires \in BOOLEAN :
          not' = sipnot_notify(sipnot_refresh(not, expires), e)
    BY DEF subscribe_handler
  <1>3. PICK t \in BOOLEAN : t = TRUE
    OBVIOUS
  <1>4. PICK o : o = [not EXCEPT !.expires = expires, !.tmr = t]
    OBVIOUS
  <1>5. o = sipnot_refresh(not, expires)
    BY <1>3, <1>4 DEF sipnot_refresh
  <1>6. o \in Notifier
    BY <1>1, <1>4, Zenon DEF Notifier
  <1>7.
         /\ o.life = not.life /\ o.refs = not.refs /\ o.app = not.app
         /\ o.req = not.req /\ o.loops = not.loops
         /\ o.subscribed = not.subscribed /\ o.terminated = not.terminated
         /\ o.termsent = not.termsent /\ o.notify_pending = not.notify_pending
         /\ o.byapp = not.byapp /\ o.told = not.told
         /\ o.accepted = not.accepted /\ o.final = not.final
         /\ o.news = not.news /\ o.trouble = not.trouble
         /\ o.expires = expires /\ o.tmr = t
    BY <1>1, <1>4 DEF Notifier
  <1>8. Typed(o) /\ Typed(not)
    BY <1>1, <1>6, TypedLemma
  <1>9. Open(o)
    BY <1>1, <1>7, <1>8 DEF Live, Open, Typed
  <1>10. /\ o.life = "live" /\ ~o.terminated /\ o.subscribed /\ o.refs = 1 /\ o.tmr
         /\ o.req # "several" /\ (o.req # "none" => o.loops # LoopMax)
    BY <1>1, <1>3, <1>7, <1>8 DEF Live, Open, One, Typed
  <1>11. Steady(not')
    BY <1>2, <1>5, <1>6, <1>9, <1>10, NotifyLemma DEF Running
  <1> QED BY <1>11 DEF IInv, Steady, Live, Inert, Open, OnItsWay, WasTold

LEMMA StepLemma ==
  ASSUME IInv, [Next]_not
  PROVE  IInv'
  <1>1. CASE Next
    BY <1>1, AcceptStep, StateStep, ReleaseStep, TimerStep, AnsweredStep,
       SubscribeStep DEF Next
  <1>2. CASE UNCHANGED not
    BY <1>2 DEF IInv, Steady, Live, Inert, Open, OnItsWay, WasTold
  <1> QED BY <1>1, <1>2

-----------------------------------------------------------------------------
(* The theorems.                                                            *)

(* The inductive invariant: the notifier is steady between two steps, that  *)
(* is, what it holds, what it waits for, what it has told and what is still *)
(* to be sent agree.                                                        *)
THEOREM Invariance == Spec => []IInv
  <1>1. Init => IInv
    BY InitLemma
  <1>2. IInv /\ [Next]_not => IInv'
    BY StepLemma
  <1> QED BY <1>1, <1>2, PTL DEF Spec

(* The notifier keeps its type; the loop state never passes its limit.      *)
THEOREM TypeCorrect == Spec => []TypeOK
  <1>1. IInv => TypeOK
    BY DEF IInv, Steady, TypeOK
  <1> QED BY <1>1, Invariance, PTL

(* The reference count of sipnot is what its holders add up to.             *)
THEOREM Balanced == Spec => []RefBalance
  <1>1. IInv => RefBalance
    BY DEF IInv, Steady, Live, One, RefBalance
  <1> QED BY <1>1, Invariance, PTL

(* Nothing that arrives, fires or is released finds the notifier freed.     *)
THEOREM NeverUsedFreed == Spec => []NoUseAfterFree
  <1>1. IInv => NoUseAfterFree
    <2> SUFFICES ASSUME IInv PROVE NoUseAfterFree
      OBVIOUS
    <2>1. Typed(not)
      BY TypedLemma DEF IInv, Steady
    <2> QED BY <2>1 DEF IInv, Steady, Inert, NoUseAfterFree, Typed
  <1> QED BY <1>1, Invariance, PTL

(* The life of the notifier: its references are accounted for, and nothing *)
(* touches it once it is freed.                                             *)
THEOREM MemorySafe == Spec => []MemorySafety
  <1>1. RefBalance /\ NoUseAfterFree => MemorySafety
    BY DEF MemorySafety
  <1> QED BY <1>1, Balanced, NeverUsedFreed, PTL

(* NOTIFYs go one at a time; a subscription that has not ended is running   *)
(* towards its expiry, one that has ended is not.                           *)
THEOREM ExpiryRuns == Spec => []OneNotifyAndItsExpiry
  <1>1. IInv => OneNotifyAndItsExpiry
    BY DEF IInv, Steady, Live, OneNotifyAndItsExpiry
  <1> QED BY <1>1, Invariance, PTL

(* No state the application has set is forgotten.                           *)
THEOREM UpdatesGoOut == Spec => []NoLostUpdate
  <1>1. IInv => NoLostUpdate
    <2> SUFFICES ASSUME IInv PROVE NoLostUpdate
      OBVIOUS
    <2>1. Typed(not)
      BY TypedLemma DEF IInv, Steady
    <2> QED BY <2>1 DEF IInv, Steady, Live, Inert, OnItsWay, NoLostUpdate, Typed
  <1> QED BY <1>1, Invariance, PTL

(* A notifier is freed after its subscriber was told of the end, unless a   *)
(* NOTIFY that ended it, or should have, failed.                            *)
THEOREM SaysGoodbye == Spec => []EndIsSent
  <1>1. IInv => EndIsSent
    BY DEF IInv, Steady, Inert, EndIsSent
  <1> QED BY <1>1, Invariance, PTL

(* The application is told of an end it did not ask for, once, and not      *)
(* after it let go.                                                         *)
THEOREM EndToldOnce == Spec => []ToldOnce
  <1>1. IInv => ToldOnce
    <2> SUFFICES ASSUME IInv PROVE ToldOnce
      OBVIOUS
    <2>1. Typed(not)
      BY TypedLemma DEF IInv, Steady
    <2> QED BY <2>1 DEF IInv, Steady, Live, Inert, Open, WasTold, ToldOnce, Typed
  <1> QED BY <1>1, Invariance, PTL

(* Both the subscriber and the application learn of the end.                *)
THEOREM EndKnownToBoth == Spec => []EndIsSettled
  <1>1. EndIsSent /\ ToldOnce => EndIsSettled
    BY DEF EndIsSettled
  <1> QED BY <1>1, SaysGoodbye, EndToldOnce, PTL

(* Once the final NOTIFY is answered, nothing makes the notifier send more. *)
THEOREM NothingAfterFinal == Spec => FinalIsLast
  <1>1. IInv /\ [Next]_not => (not.final /\ not.req = "none" => not'.req = "none")
    <2> SUFFICES ASSUME IInv, [Next]_not, not.final, not.req = "none"
                 PROVE  not'.req = "none"
      OBVIOUS
    <2>1. Typed(not) /\ not \in Notifier
      BY TypedLemma DEF IInv, Steady
    <2>2. CASE not.life = "none"
      BY <2>2, UnusedLemma DEF IInv, Steady, Inert
    <2>3. CASE not.life = "live"
      <3>1. not.terminated /\ ~not.tmr
        BY <2>1, <2>3 DEF IInv, Steady, Live, Open, Typed
      <3>2. CASE Release
        BY <3>1, <3>2, ReleaseStep
      <3>3. CASE UNCHANGED not
        BY <3>3
      <3> QED BY <2>3, <3>1, <3>2, <3>3
              DEF Next, sipevent_accept, sipevent_notify, tmr_handler, Answered,
                  subscribe_handler
    <2>4. CASE not.life = "freed"
      <3>1. ~not.app /\ ~not.tmr
        BY <2>4 DEF IInv, Steady, Inert
      <3> QED BY <2>4, <3>1
              DEF Next, sipevent_accept, sipevent_notify, Release, tmr_handler,
                  Answered, subscribe_handler
    <2>5. not.life \in {"none", "live", "freed"}
      BY <2>1 DEF IInv, Steady, Inert, Notifier
    <2> QED BY <2>2, <2>3, <2>4, <2>5
  <1> QED BY <1>1, Invariance, PTL DEF Spec, FinalIsLast
=============================================================================
