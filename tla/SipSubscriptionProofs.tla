----------------------- MODULE SipSubscriptionProofs ------------------------
(***************************************************************************)
(* Theorems about SipSubscription, for any limits of failures and refusals. *)
(***************************************************************************)
EXTENDS SipSubscription, TLAPS

One(b) == IF b THEN 1 ELSE 0

Ended      == peer = "ended"
Settled(o) == o.trouble \/ peer # "has"

(* What a subscription has asked for and what it was answered.              *)
Asks(o) ==
  /\ o.req \in {"none", "REFER", "SUBSCRIBE", "unSUBSCRIBE"}
  /\ o.req \in {"REFER", "SUBSCRIBE"} => o.expires
  /\ o.req = "unSUBSCRIBE" => ~o.expires
  /\ o.refer => o.expires /\ o.cseq
  /\ o.req # "none" => o.loops # LoopMax
  /\ o.req # "none" /\ o.answer = "481" => Ended
  /\ o.req = "unSUBSCRIBE" /\ o.answer = "2xx" => Ended
  /\ o.termwait => o.req = "none"
  /\ o.termconf \/ o.termwait => Ended

(* One that has not ended, and whose application is going to be asked.      *)
Open(o) == o.app /\ o.refs = 1 /\ o.told = "no" /\ ~o.termconf /\ o.failc # FailMax

(* The application of one that has ended was told, or has let go.           *)
WasTold(o) == o.told \in {"no", "once"} /\ (o.app => o.told = "once")

Waiting(o) == o.req # "none" \/ o.termwait

(* A subscription between two steps.                                        *)
Live(o) ==
  /\ o.life = "live" /\ Asks(o)
  /\ o.termwait = (o.tmr = "notify")
  /\ o.terminated => o.tmr # "refresh"
  /\ ~o.terminated =>
       /\ Open(o)
       /\ o.req = "none" \/ (o.fresh /\ o.dlg) => o.subscribed
       /\ o.req = "none" /\ ~o.expires => Settled(o)
       /\ o.req = "none" /\ ~o.cseq /\ ~o.stray => o.tmr # "off"
  /\ o.terminated =>
       /\ WasTold(o)
       /\ Waiting(o) => o.refs = One(o.app) + 1
       /\ ~Waiting(o) => \/ o.refs = 1 /\ o.app /\ Settled(o)
                         \/ o.stray /\ o.refs = One(o.app) + 1

(* One that was freed.                                                      *)
Gone(o) ==
  /\ o.life = "freed" /\ ~o.app /\ o.req = "none" /\ o.tmr = "off"
  /\ o.told \in {"no", "once"} /\ Settled(o)

Steady(o) == o \in Subscription /\ (Live(o) \/ Gone(o))

IInv ==
  /\ Steady(sub) \/ (sub = Unused /\ peer = "none" /\ notes = {})
  /\ peer \in {"none", "has", "ended"} /\ notes \subseteq {"active", "terminated"}
  /\ "terminated" \in notes => Ended

(* A subscription inside a handler, its request being over.                 *)
Handling(o) ==
  /\ o \in Subscription /\ o.life = "live" /\ Asks(o) /\ o.req = "none" /\ ~o.termwait
  /\ ~o.terminated => Open(o) /\ o.tmr # "notify"
  /\ o.terminated => WasTold(o) /\ o.refs = One(o.app) + 1 /\ o.tmr = "off"

(* A subscription about to end.                                             *)
Ending(o) ==
  /\ o \in Subscription /\ o.life = "live" /\ Asks(o) /\ ~o.terminated
  /\ o.refs = One(o.app) /\ o.told = "no"
  /\ o.termwait => o.tmr = "notify"
  /\ ~Waiting(o) /\ (~o.expires \/ ~o.subscribed) => Settled(o)

(* A subscription that has just ended.                                      *)
JustEnded(x, o) ==
  /\ x \in Subscription /\ x.life = "live" /\ Asks(x) /\ x.terminated
  /\ x.app = o.app /\ x.told = o.told
  /\ x.termwait = (x.tmr = "notify") /\ x.tmr # "refresh"
  /\ Waiting(x)  => x.refs = One(o.app) + 1
  /\ ~Waiting(x) => x.refs = One(o.app) /\ Settled(x)

(* One that has ended and waits no more, before it gives its reference back. *)
WaitOver(o) ==
  /\ o \in Subscription /\ o.life = "live" /\ Asks(o) /\ o.terminated
  /\ o.req = "none" /\ ~o.termwait /\ o.tmr = "off"
  /\ WasTold(o) /\ o.refs = One(o.app) + 1 /\ Settled(o)

Typed(o) ==
  /\ o.app \in BOOLEAN /\ o.fresh \in BOOLEAN /\ o.expires \in BOOLEAN
  /\ o.subscribed \in BOOLEAN /\ o.terminated \in BOOLEAN /\ o.termconf \in BOOLEAN
  /\ o.termwait \in BOOLEAN /\ o.refer \in BOOLEAN /\ o.cseq \in BOOLEAN
  /\ o.dlg \in BOOLEAN /\ o.stray \in BOOLEAN /\ o.trouble \in BOOLEAN

Fields ==
  {"life", "refs", "app", "req", "fresh", "answer", "tmr", "expires", "failc", "loops",
   "subscribed", "terminated", "termconf", "termwait", "refer", "cseq", "dlg", "told",
   "stray", "trouble"}

(* x is o, but for what S names.                                            *)
But(x, o, S) == \A f \in Fields \ S : x[f] = o[f]

-----------------------------------------------------------------------------
(* The operations, field by field.                                          *)

LEMMA TypedLemma ==
  ASSUME NEW o \in Subscription
  PROVE  Typed(o)
  BY DEF Subscription, Typed

LEMMA UnusedLemma ==
  /\ Unused \in Subscription /\ Unused.life = "none" /\ Unused.refs = 0
  /\ Unused.req = "none" /\ Unused.tmr = "off" /\ Unused.told = "no"
  /\ Unused.loops = 0 /\ Unused.failc = 0 /\ Unused.answer = "none"
  /\ ~Unused.app /\ ~Unused.subscribed /\ ~Unused.terminated /\ ~Unused.termconf
  /\ ~Unused.termwait /\ ~Unused.stray /\ ~Unused.trouble /\ ~Unused.cseq
  <1>1. 0 \in 0..FailMax /\ 0 \in 0..LoopMax /\ 0 \in 0..3
    BY BoundsAssumption
  <1>2. Unused \in Subscription
    BY <1>1 DEF Unused, Subscription, Answers
  <1> QED BY <1>2 DEF Unused

LEMMA ResetLemma ==
  ASSUME NEW o \in Subscription, NEW x, x = Reset(o)
  PROVE  x \in Subscription /\ x.loops = 0 /\ x.loops # LoopMax /\ But(x, o, {"loops"})
  <1>1. 0 \in 0..LoopMax /\ 0 # LoopMax
    BY BoundsAssumption
  <1>2. x \in Subscription
    BY <1>1, Zenon DEF Reset, Subscription
  <1>3. x.loops = 0 /\ But(x, o, {"loops"})
    BY DEF Reset, Subscription, But, Fields
  <1> QED BY <1>1, <1>2, <1>3

LEMMA FailLemma ==
  ASSUME NEW o \in Subscription, o.loops # LoopMax, NEW x, x = Fail(o)
  PROVE  x \in Subscription /\ But(x, o, {"loops"})
  <1>1. o.loops + 1 \in 0..LoopMax
    BY BoundsAssumption DEF Subscription
  <1>2. x \in Subscription
    BY <1>1, Zenon DEF Fail, Subscription
  <1> QED BY <1>2 DEF Fail, Subscription, But, Fields

(* One failure more.                                                        *)
LEMMA CountLemma ==
  ASSUME NEW o \in Subscription, o.failc # FailMax, NEW x, x = [o EXCEPT !.failc = @ + 1]
  PROVE  /\ x \in Subscription /\ But(x, o, {"failc"})
         /\ x.failc < FailMax => x.failc # FailMax
  <1>1. o.failc + 1 \in 0..FailMax
    BY BoundsAssumption DEF Subscription
  <1>2. x \in Subscription
    BY <1>1, Zenon DEF Subscription
  <1>3. But(x, o, {"failc"})
    BY DEF Subscription, But, Fields
  <1>4. x.failc \in 0..FailMax
    BY <1>2 DEF Subscription
  <1> QED BY <1>2, <1>3, <1>4, BoundsAssumption

LEMMA HeldLemma ==
  ASSUME NEW o \in Subscription, o.refs # 3, NEW x, x = Held(o)
  PROVE  x \in Subscription /\ x.refs = o.refs + 1 /\ But(x, o, {"refs"})
  <1>1. o.refs + 1 \in 0..3
    BY DEF Subscription
  <1>2. x \in Subscription
    BY <1>1, Zenon DEF Held, Subscription
  <1> QED BY <1>2 DEF Held, Subscription, But, Fields

LEMMA LessLemma ==
  ASSUME NEW o \in Subscription, o.refs # 0, NEW x, x = [o EXCEPT !.refs = @ - 1]
  PROVE  x \in Subscription /\ x.refs = o.refs - 1 /\ But(x, o, {"refs"})
  <1>1. o.refs - 1 \in 0..3
    BY DEF Subscription
  <1>2. x \in Subscription
    BY <1>1, Zenon DEF Subscription
  <1> QED BY <1>2 DEF Subscription, But, Fields

LEMMA FreedLemma ==
  ASSUME NEW o \in Subscription, NEW x, x = Freed(o)
  PROVE  /\ x \in Subscription /\ x.life = "freed" /\ x.tmr = "off" /\ x.req = "none"
         /\ But(x, o, {"life", "tmr", "req"})
  <1>1. x \in Subscription
    BY Zenon DEF Freed, Subscription
  <1>2. x = [o EXCEPT !.life = "freed", !.tmr = "off", !.req = "none"]
    BY DEF Freed
  <1>3. x.life = "freed" /\ x.tmr = "off" /\ x.req = "none"
    BY <1>2 DEF Subscription
  <1>4. But(x, o, {"life", "tmr", "req"})
    BY <1>2 DEF Subscription, But, Fields
  <1> QED BY <1>1, <1>3, <1>4

LEMMA TimerLemma ==
  ASSUME NEW o \in Subscription, NEW t \in {"off", "refresh", "notify"},
         NEW x, x = [o EXCEPT !.tmr = t]
  PROVE  x \in Subscription /\ x.tmr = t /\ But(x, o, {"tmr"})
  <1>1. x \in Subscription
    BY Zenon DEF Subscription
  <1> QED BY <1>1 DEF Subscription, But, Fields

LEMMA SentLemma ==
  ASSUME NEW o \in Subscription, o.req = "none",
         NEW m \in {"REFER", "SUBSCRIBE", "unSUBSCRIBE"}, NEW x, x = Sent(o, m)
  PROVE  /\ x \in Subscription /\ x.req = m /\ x.fresh = ~o.dlg /\ x.answer = "none"
         /\ But(x, o, {"req", "fresh", "answer"})
  <1>1. PICK f \in BOOLEAN : f = ~o.dlg
    OBVIOUS
  <1>2. x = [o EXCEPT !.req = m, !.fresh = f, !.answer = "none"]
    BY <1>1 DEF Sent
  <1>3. x \in Subscription
    BY <1>2, Zenon DEF Subscription
  <1> QED BY <1>1, <1>2, <1>3 DEF Subscription, But, Fields

(* Sending what is to be asked next, or failing to.                         *)
LEMMA RequestLemma ==
  ASSUME NEW o \in Subscription, o.req = "none", NEW e \in Env, NEW x, x = request(o, e)
  PROVE  /\ x \in Subscription
         /\ But(x, o, {"cseq", "expires", "req", "fresh", "answer", "trouble"})
         /\ x.cseq = (o.cseq \/ o.refer)
         /\ x.expires = (o.expires /\ (o.refer \/ ~o.terminated))
         /\ e.send => /\ x.req = IF o.refer THEN "REFER"
                                 ELSE IF x.expires THEN "SUBSCRIBE" ELSE "unSUBSCRIBE"
                      /\ x.fresh = ~o.dlg /\ x.answer = "none" /\ x.trouble = o.trouble
         /\ ~e.send => x.req = "none" /\ x.trouble /\ x.fresh = o.fresh /\ x.answer = o.answer
  <1>0. Typed(o)
    BY TypedLemma
  <1>1. PICK c \in BOOLEAN : c = (o.cseq \/ o.refer)
    BY <1>0 DEF Typed
  <1>2. PICK p \in BOOLEAN : p = (o.expires /\ (o.refer \/ ~o.terminated))
    BY <1>0 DEF Typed
  <1>3. PICK y : y = [o EXCEPT !.cseq = c, !.expires = p]
    OBVIOUS
  <1>4. y = [o EXCEPT !.cseq = @ \/ o.refer,
                      !.expires = @ /\ (o.refer \/ ~o.terminated)]
    BY <1>1, <1>2, <1>3, Zenon
  <1>5. y \in Subscription
    BY <1>3, Zenon DEF Subscription
  <1>6. y.cseq = c /\ y.expires = p
    BY <1>3 DEF Subscription
  <1>7. But(y, o, {"cseq", "expires"})
    BY <1>3 DEF Subscription, But, Fields
  <1>8. Typed(y)
    BY <1>5, TypedLemma
  <1>9. CASE e.send
    <2>1. PICK m : m = IF y.refer THEN "REFER"
                       ELSE IF y.expires THEN "SUBSCRIBE" ELSE "unSUBSCRIBE"
      OBVIOUS
    <2>2. m \in {"REFER", "SUBSCRIBE", "unSUBSCRIBE"}
      BY <2>1
    <2>3. x = Sent(y, m)
      BY <1>4, <1>9, <2>1 DEF request
    <2>4. y.req = "none"
      BY <1>7 DEF But, Fields
    <2>5. /\ x \in Subscription /\ x.req = m /\ x.fresh = ~y.dlg /\ x.answer = "none"
          /\ But(x, y, {"req", "fresh", "answer"})
      BY <1>5, <2>2, <2>3, <2>4, SentLemma
    <2>6. But(x, o, {"cseq", "expires", "req", "fresh", "answer", "trouble"})
      BY <1>7, <2>5 DEF But, Fields
    <2>7. /\ x.cseq = y.cseq /\ x.expires = y.expires /\ x.trouble = o.trouble
          /\ y.dlg = o.dlg /\ y.refer = o.refer
      BY <1>7, <2>5 DEF But, Fields
    <2> QED BY <1>0, <1>1, <1>2, <1>6, <1>8, <1>9, <2>1, <2>5, <2>6, <2>7 DEF Typed
  <1>10. CASE ~e.send
    <2>1. x = [y EXCEPT !.trouble = TRUE]
      BY <1>4, <1>10 DEF request
    <2>2. PICK b \in BOOLEAN : b = TRUE
      OBVIOUS
    <2>3. x = [y EXCEPT !.trouble = b]
      BY <2>1, <2>2
    <2>4. x \in Subscription
      BY <1>5, <2>3, Zenon DEF Subscription
    <2>5. x.trouble = b /\ But(x, y, {"trouble"})
      BY <1>5, <2>3 DEF Subscription, But, Fields
    <2>6. But(x, o, {"cseq", "expires", "req", "fresh", "answer", "trouble"})
      BY <1>7, <2>5 DEF But, Fields
    <2>7. /\ x.cseq = y.cseq /\ x.expires = y.expires /\ x.req = o.req
          /\ x.fresh = o.fresh /\ x.answer = o.answer
      BY <1>7, <2>5 DEF But, Fields
    <2> QED BY <1>1, <1>2, <1>6, <1>10, <2>2, <2>4, <2>5, <2>6, <2>7
  <1> QED BY <1>9, <1>10

(* What is sent is what it asks for.                                        *)
LEMMA AskedLemma ==
  ASSUME NEW o \in Subscription, Asks(o) \/ (o.refer => o.expires), o.req = "none",
         o.loops # LoopMax, ~o.termwait, o.termconf => Ended,
         NEW e \in Env, NEW x, x = request(o, e)
  PROVE  Asks(x)
  <1>1. /\ x \in Subscription
        /\ But(x, o, {"cseq", "expires", "req", "fresh", "answer", "trouble"})
        /\ x.cseq = (o.cseq \/ o.refer)
        /\ x.expires = (o.expires /\ (o.refer \/ ~o.terminated))
        /\ e.send => /\ x.req = IF o.refer THEN "REFER"
                                ELSE IF x.expires THEN "SUBSCRIBE" ELSE "unSUBSCRIBE"
                     /\ x.answer = "none"
        /\ ~e.send => x.req = "none"
    BY RequestLemma
  <1>2. /\ x.refer = o.refer /\ x.loops = o.loops
        /\ x.termwait = o.termwait /\ x.termconf = o.termconf
    BY <1>1 DEF But, Fields
  <1>3. Typed(o) /\ Typed(x)
    BY <1>1, TypedLemma
  <1> QED BY <1>1, <1>2, <1>3 DEF Asks, Typed

(* What terminate makes of a subscription.                                  *)
LEMMA TerminateLemma ==
  ASSUME NEW o, Ending(o), NEW e \in Env, NEW x, x = terminate(o, e)
  PROVE  JustEnded(x, o)
  <1>0. o \in Subscription /\ Typed(o) /\ o.refs # 3
    BY TypedLemma DEF Ending, One
  <1>1. PICK b \in BOOLEAN : b = TRUE
    OBVIOUS
  <1>2. PICK t : t = [o EXCEPT !.terminated = b]
    OBVIOUS
  <1>3. t = [o EXCEPT !.terminated = TRUE]
    BY <1>1, <1>2
  <1>4. t \in Subscription
    BY <1>0, <1>2, Zenon DEF Subscription
  <1>5. t.terminated = b /\ But(t, o, {"terminated"})
    BY <1>0, <1>2 DEF Subscription, But, Fields
  <1>6. Typed(t)
    BY <1>4, TypedLemma
  <1>7. /\ t.life = "live" /\ t.refs = One(o.app) /\ t.app = o.app /\ t.told = o.told
        /\ t.terminated /\ t.req = o.req /\ t.tmr = o.tmr /\ t.termwait = o.termwait
        /\ t.expires = o.expires /\ t.subscribed = o.subscribed /\ t.trouble = o.trouble
        /\ t.termconf = o.termconf /\ t.refer = o.refer
    BY <1>1, <1>5 DEF But, Fields, Ending
  <1>8. Asks(t)
    BY <1>0, <1>5, <1>6 DEF But, Fields, Ending, Asks, Typed
  <1>9. PICK c : c = [t EXCEPT !.tmr = "off"]
    OBVIOUS
  <1>10. c \in Subscription /\ c.tmr = "off" /\ But(c, t, {"tmr"})
    BY <1>4, <1>9, TimerLemma
  <1>11. Typed(c) /\ Asks(c)
    <2>1. Typed(c)
      BY <1>10, TypedLemma
    <2> QED BY <1>8, <1>10, <2>1 DEF But, Fields, Asks
  <1>12. /\ c.life = "live" /\ c.refs = One(o.app) /\ c.app = o.app /\ c.told = o.told
         /\ c.terminated /\ c.req = o.req /\ c.termwait = o.termwait
         /\ c.trouble = o.trouble /\ c.refer = o.refer /\ c.termconf = o.termconf
    BY <1>7, <1>10 DEF But, Fields
  <1>13. CASE o.termwait
    <2>1. x = Held(t)
      BY <1>3, <1>7, <1>13 DEF terminate
    <2>2. t.refs # 3
      BY <1>7 DEF One
    <2>3. x \in Subscription /\ x.refs = t.refs + 1 /\ But(x, t, {"refs"})
      BY <1>4, <2>1, <2>2, HeldLemma
    <2>4. Typed(x) /\ Asks(x)
      BY <1>8, <2>3, TypedLemma DEF But, Fields, Asks
    <2>5. /\ x.life = "live" /\ x.terminated /\ x.app = o.app /\ x.told = o.told
          /\ x.tmr = "notify" /\ x.termwait
      BY <1>7, <1>13, <2>3 DEF But, Fields, Ending
    <2>6. x.refs = One(o.app) + 1
      BY <1>7, <2>3
    <2> QED BY <2>3, <2>4, <2>5, <2>6 DEF JustEnded, Waiting
  <1>14. CASE ~o.termwait /\ o.req # "none"
    <2>1. x = Held(c)
      BY <1>3, <1>7, <1>9, <1>14 DEF terminate
    <2>2. c.refs # 3
      BY <1>12 DEF One
    <2>3. x \in Subscription /\ x.refs = c.refs + 1 /\ But(x, c, {"refs"})
      BY <1>10, <2>1, <2>2, HeldLemma
    <2>4. Typed(x) /\ Asks(x)
      BY <1>11, <2>3, TypedLemma DEF But, Fields, Asks
    <2>5. /\ x.life = "live" /\ x.terminated /\ x.app = o.app /\ x.told = o.told
          /\ x.tmr = "off" /\ x.termwait = o.termwait /\ x.req # "none"
      BY <1>10, <1>12, <1>14, <2>3 DEF But, Fields
    <2>6. x.refs = One(o.app) + 1
      BY <1>12, <2>3
    <2>7. x.termwait = (x.tmr = "notify") /\ x.tmr # "refresh"
      BY <1>0, <1>14, <2>4, <2>5 DEF Typed
    <2> QED BY <2>3, <2>4, <2>5, <2>6, <2>7 DEF JustEnded, Waiting
  <1>15. CASE ~o.termwait /\ o.req = "none" /\ (~o.expires \/ ~o.subscribed)
    <2>1. x = c
      BY <1>3, <1>7, <1>9, <1>15 DEF terminate
    <2>2. Settled(x)
      BY <1>12, <1>15, <2>1 DEF Ending, Waiting, Settled
    <2>3. ~x.termwait /\ x.req = "none"
      BY <1>0, <1>11, <1>12, <1>15, <2>1 DEF Typed
    <2>4. x.termwait = (x.tmr = "notify") /\ x.tmr # "refresh"
      BY <1>10, <1>11, <2>1, <2>3 DEF Typed
    <2> QED BY <1>10, <1>11, <1>12, <2>1, <2>2, <2>3, <2>4 DEF JustEnded, Waiting
  <1>16. CASE ~o.termwait /\ o.req = "none" /\ o.expires /\ o.subscribed
    <2>1. PICK s : s = Reset(c)
      OBVIOUS
    <2>2. s \in Subscription /\ s.loops # LoopMax /\ But(s, c, {"loops"})
      BY <1>10, <2>1, ResetLemma
    <2>3. /\ s.life = "live" /\ s.refs = One(o.app) /\ s.app = o.app /\ s.told = o.told
          /\ s.terminated /\ s.req = "none" /\ ~s.termwait /\ s.tmr = "off"
          /\ s.termconf = o.termconf
      BY <1>10, <1>12, <1>16, <2>2 DEF But, Fields
    <2>4. Asks(s)
      BY <1>11, <2>2, <2>3 DEF But, Fields, Asks
    <2>5. PICK r : r = request(s, e)
      OBVIOUS
    <2>6. /\ r \in Subscription
          /\ But(r, s, {"cseq", "expires", "req", "fresh", "answer", "trouble"})
          /\ e.send => r.req \in {"REFER", "SUBSCRIBE", "unSUBSCRIBE"}
          /\ ~e.send => r.req = "none" /\ r.trouble
      BY <2>2, <2>3, <2>5, RequestLemma
    <2>7. Asks(r)
      BY <2>2, <2>3, <2>4, <2>5, AskedLemma DEF Asks
    <2>8. /\ r.life = "live" /\ r.refs = One(o.app) /\ r.app = o.app /\ r.told = o.told
          /\ r.terminated /\ ~r.termwait /\ r.tmr = "off"
      BY <2>3, <2>6 DEF But, Fields
    <2>9. CASE e.send
      <3>1. x = Held(r)
        BY <1>3, <1>7, <1>9, <1>16, <2>1, <2>5, <2>9 DEF terminate
      <3>2. r.refs # 3
        BY <2>8 DEF One
      <3>3. x \in Subscription /\ x.refs = r.refs + 1 /\ But(x, r, {"refs"})
        BY <2>6, <3>1, <3>2, HeldLemma
      <3>4. Asks(x)
        BY <2>7, <3>3 DEF But, Fields, Asks
      <3>5. /\ x.life = "live" /\ x.terminated /\ x.app = o.app /\ x.told = o.told
            /\ x.tmr = "off" /\ ~x.termwait /\ x.req # "none"
        BY <2>6, <2>8, <2>9, <3>3 DEF But, Fields
      <3>6. x.refs = One(o.app) + 1
        BY <2>8, <3>3
      <3>7. x.termwait = (x.tmr = "notify") /\ x.tmr # "refresh"
        BY <3>3, <3>5, TypedLemma DEF Typed
      <3> QED BY <3>3, <3>4, <3>5, <3>6, <3>7 DEF JustEnded, Waiting
    <2>10. CASE ~e.send
      <3>1. x = r
        BY <1>3, <1>7, <1>9, <1>16, <2>1, <2>5, <2>10 DEF terminate
      <3>2. Settled(x) /\ x.req = "none" /\ ~x.termwait
        BY <2>6, <2>8, <2>10, <3>1 DEF Settled
      <3>3. x.termwait = (x.tmr = "notify") /\ x.tmr # "refresh"
        BY <2>6, <2>8, <3>1, TypedLemma DEF Typed
      <3> QED BY <2>6, <2>7, <2>8, <3>1, <3>2, <3>3 DEF JustEnded, Waiting
    <2> QED BY <2>9, <2>10
  <1> QED BY <1>0, <1>13, <1>14, <1>15, <1>16 DEF Typed

-----------------------------------------------------------------------------
(* How a handler lets go of a subscription.                                 *)

(* Freeing it.                                                              *)
LEMMA LastLemma ==
  ASSUME NEW o \in Subscription, ~o.app, o.told \in {"no", "once"}, Settled(o),
         NEW x, x = Freed(o)
  PROVE  Steady(x)
  <1>1. /\ x \in Subscription /\ x.life = "freed" /\ x.tmr = "off" /\ x.req = "none"
        /\ But(x, o, {"life", "tmr", "req"})
    BY FreedLemma
  <1>2. x.app = o.app /\ x.told = o.told /\ x.trouble = o.trouble
    BY <1>1 DEF But, Fields
  <1>3. Settled(x) /\ ~x.app
    BY <1>1, <1>2, TypedLemma DEF Settled, Typed
  <1> QED BY <1>1, <1>2, <1>3 DEF Steady, Gone

(* One that has just ended, and that its application or a wait holds.       *)
LEMMA JustEndedLemma ==
  ASSUME NEW o, NEW x, JustEnded(x, o), WasTold(x), x.app \/ Waiting(x)
  PROVE  Steady(x)
  <1>1. Typed(x)
    BY TypedLemma DEF JustEnded
  <1> QED BY <1>1 DEF JustEnded, Steady, Live, Waiting, One, Typed

(* The application drops one that has not ended: the destructor ends it and *)
(* frees it, or brings it back to wait.                                     *)
LEMMA DropLemma ==
  ASSUME NEW o \in Subscription, o.refs = 1, ~o.app, NEW e \in Env,
         \A d \in Subscription : d.refs = 0 /\ But(d, o, {"refs"}) => Ending(d),
         NEW x, x = mem_deref(o, e)
  PROVE  Steady(x)
  <1>1. PICK d : d = [o EXCEPT !.refs = @ - 1]
    OBVIOUS
  <1>2. d \in Subscription /\ d.refs = 0 /\ But(d, o, {"refs"})
    BY <1>1, LessLemma
  <1>3. Ending(d) /\ Typed(d) /\ Typed(o)
    BY <1>2, TypedLemma
  <1>4. d.life = o.life /\ d.app = o.app
    BY <1>2 DEF But, Fields
  <1>5. x = destructor(d, e)
    BY <1>1, <1>2, <1>3, <1>4 DEF mem_deref, Ending
  <1>6. PICK t : t = terminate(d, e)
    OBVIOUS
  <1>7. JustEnded(t, d)
    BY <1>3, <1>6, TerminateLemma
  <1>8. ~t.app /\ t.told = "no" /\ t \in Subscription
    BY <1>3, <1>4, <1>7, TypedLemma DEF JustEnded, Ending, Typed
  <1>9. CASE t.refs = 0
    <2>1. x = Freed(t)
      BY <1>3, <1>5, <1>6, <1>9 DEF destructor, Ending
    <2>2. Settled(t)
      BY <1>7, <1>9 DEF JustEnded, One
    <2> QED BY <1>8, <2>1, <2>2, LastLemma
  <1>10. CASE t.refs # 0
    <2>1. x = t
      BY <1>3, <1>5, <1>6, <1>10 DEF destructor, Ending
    <2>2. Waiting(t)
      BY <1>3, <1>4, <1>7, <1>10 DEF JustEnded, One, Typed
    <2> QED BY <1>7, <1>8, <2>1, <2>2, JustEndedLemma DEF WasTold
  <1> QED BY <1>9, <1>10

(* The end is told to the application.                                      *)
LEMMA CloseLemma ==
  ASSUME NEW o, Ending(o), o.app, NEW e \in Env, NEW x, x = sipsub_terminate(o, e)
  PROVE  Steady(x)
  <1>1. PICK t : t = terminate(o, e)
    OBVIOUS
  <1>2. JustEnded(t, o) /\ t \in Subscription
    <2>1. JustEnded(t, o)
      BY <1>1, TerminateLemma
    <2> QED BY <2>1 DEF JustEnded
  <1>3. Told(o) = "once"
    BY DEF Told, Ending
  <1>4. x = [t EXCEPT !.told = "once"]
    BY <1>1, <1>3 DEF sipsub_terminate, Ending
  <1>5. x \in Subscription
    BY <1>2, <1>4, Zenon DEF Subscription
  <1>6. x.told = "once" /\ But(x, t, {"told"})
    BY <1>2, <1>4 DEF Subscription, But, Fields
  <1>7. PICK p : p = [o EXCEPT !.told = "once"]
    OBVIOUS
  <1>8. o \in Subscription /\ p.told = "once" /\ p.app = o.app
    BY <1>7 DEF Ending, Subscription
  <1>9. Asks(x)
    BY <1>2, <1>6 DEF JustEnded, But, Fields, Asks
  <1>10. JustEnded(x, p)
    BY <1>2, <1>5, <1>6, <1>8, <1>9 DEF JustEnded, But, Fields, Waiting, Settled
  <1>11. x.app
    BY <1>2, <1>5, <1>6, <1>8, TypedLemma DEF JustEnded, But, Fields, Typed
  <1> QED BY <1>6, <1>10, <1>11, JustEndedLemma DEF WasTold

(* What it waited for is over.                                              *)
LEMMA GivenBackLemma ==
  ASSUME NEW o, WaitOver(o), NEW e \in Env, NEW x, x = mem_deref(o, e)
  PROVE  Steady(x)
  <1>0. o \in Subscription /\ Typed(o) /\ o.refs # 0
    BY TypedLemma DEF WaitOver, One
  <1>1. PICK d : d = [o EXCEPT !.refs = @ - 1]
    OBVIOUS
  <1>2. d \in Subscription /\ d.refs = o.refs - 1 /\ But(d, o, {"refs"})
    BY <1>0, <1>1, LessLemma
  <1>3. Asks(d)
    BY <1>2 DEF WaitOver, Asks, But, Fields
  <1>4. /\ d.life = "live" /\ d.terminated /\ d.req = "none" /\ ~d.termwait
        /\ d.tmr = "off" /\ d.told = o.told /\ d.app = o.app /\ d.trouble = o.trouble
    BY <1>0, <1>2, TypedLemma DEF WaitOver, But, Fields, Typed
  <1>5. d.refs = One(o.app) /\ Settled(d)
    BY <1>0, <1>2, <1>4 DEF WaitOver, One, Settled
  <1>6. CASE o.app
    <2>1. x = d
      BY <1>0, <1>1, <1>2, <1>5, <1>6 DEF WaitOver, mem_deref, One
    <2>2. Live(d)
      BY <1>2, <1>3, <1>4, <1>5, <1>6, TypedLemma DEF WaitOver, Live, WasTold, Waiting, One, Typed
    <2> QED BY <1>2, <2>1, <2>2 DEF Steady
  <1>7. CASE ~o.app
    <2>1. x = Freed(d)
      BY <1>0, <1>1, <1>2, <1>4, <1>5, <1>7 DEF WaitOver, mem_deref, destructor, One
    <2>2. d.told \in {"no", "once"} /\ ~d.app
      BY <1>0, <1>2, <1>4, <1>7, TypedLemma DEF WaitOver, WasTold, Typed
    <2> QED BY <1>2, <1>5, <2>1, <2>2, LastLemma
  <1> QED BY <1>0, <1>6, <1>7 DEF Typed

-----------------------------------------------------------------------------
(* The response handler.                                                    *)

(* A new request of one that still waits for nothing else.                  *)
LEMMA AskAgainLemma ==
  ASSUME NEW o \in Subscription, o.life = "live", Asks(o), o.req = "none", ~o.termwait,
         o.loops # LoopMax, o.terminated => WasTold(o) /\ o.refs = One(o.app) + 1,
         ~o.terminated => Open(o), o.tmr = "off" \/ (o.tmr = "refresh" /\ ~o.terminated),
         NEW e \in Env, e.send, NEW x, x = request(o, e)
  PROVE  Steady(x)
  <1>1. /\ x \in Subscription
        /\ But(x, o, {"cseq", "expires", "req", "fresh", "answer", "trouble"})
        /\ x.req \in {"REFER", "SUBSCRIBE", "unSUBSCRIBE"} /\ x.fresh = ~o.dlg
    BY RequestLemma
  <1>2. Asks(x)
    BY AskedLemma DEF Asks
  <1>3. Typed(o) /\ Typed(x)
    BY <1>1, TypedLemma
  <1>4. /\ x.life = "live" /\ x.terminated = o.terminated /\ x.app = o.app
        /\ x.refs = o.refs /\ x.told = o.told /\ x.termconf = o.termconf
        /\ x.failc = o.failc /\ x.tmr = o.tmr /\ x.dlg = o.dlg /\ x.termwait = o.termwait
    BY <1>1 DEF But, Fields
  <1>5. ~x.termwait /\ x.tmr # "notify" /\ ~(x.fresh /\ x.dlg)
    BY <1>1, <1>3, <1>4 DEF Typed
  <1>6. x.terminated => x.tmr # "refresh" /\ WasTold(x) /\ x.refs = One(x.app) + 1
    BY <1>3, <1>4 DEF WasTold, Typed
  <1>7. ~x.terminated => Open(x)
    BY <1>3, <1>4 DEF Open, Typed
  <1> QED BY <1>1, <1>2, <1>3, <1>4, <1>5, <1>6, <1>7 DEF Steady, Live, Waiting, Typed

(* "out:" of response_handler.                                              *)
LEMMA OutLemma ==
  ASSUME NEW o, Handling(o), ~o.subscribed \/ ~o.expires => Settled(o),
         NEW e \in Env, NEW y, y = Out(o, e)
  PROVE  Steady(y)
  <1>0. o \in Subscription /\ Typed(o)
    BY TypedLemma DEF Handling
  <1>1. PICK b \in BOOLEAN : b = FALSE
    OBVIOUS
  <1>2. PICK x : x = [o EXCEPT !.refer = b]
    OBVIOUS
  <1>3. x = [o EXCEPT !.refer = FALSE]
    BY <1>1, <1>2
  <1>4. x \in Subscription
    BY <1>0, <1>2, Zenon DEF Subscription
  <1>5. x.refer = b /\ But(x, o, {"refer"})
    BY <1>0, <1>2 DEF Subscription, But, Fields
  <1>6. Typed(x) /\ ~x.refer
    BY <1>1, <1>4, <1>5, TypedLemma
  <1>7. /\ x.life = o.life /\ x.req = o.req /\ x.termwait = o.termwait
        /\ x.terminated = o.terminated /\ x.app = o.app /\ x.refs = o.refs
        /\ x.told = o.told /\ x.termconf = o.termconf /\ x.failc = o.failc
        /\ x.tmr = o.tmr /\ x.subscribed = o.subscribed /\ x.expires = o.expires
        /\ x.trouble = o.trouble
    BY <1>5 DEF But, Fields
  <1>8. Handling(x)
    <2>1. Asks(x)
      BY <1>5, <1>6 DEF Handling, Asks, But, Fields
    <2> QED BY <1>0, <1>4, <1>6, <1>7, <2>1 DEF Handling, Open, WasTold, Typed
  <1>9. ~x.subscribed \/ ~x.expires => Settled(x)
    BY <1>0, <1>6, <1>7 DEF Settled, Typed
  <1>10. CASE x.terminated /\ (~x.expires \/ ~x.subscribed)
    <2>1. y = mem_deref(x, e)
      BY <1>3, <1>10 DEF Out
    <2>2. WaitOver(x)
      BY <1>8, <1>9, <1>10 DEF Handling, WaitOver
    <2> QED BY <2>1, <2>2, GivenBackLemma
  <1>11. CASE x.terminated /\ x.expires /\ x.subscribed
    <2>1. PICK s : s = Reset(x)
      OBVIOUS
    <2>2. s \in Subscription /\ s.loops # LoopMax /\ But(s, x, {"loops"})
      BY <1>4, <2>1, ResetLemma
    <2>3. Typed(s)
      BY <2>2, TypedLemma
    <2>4. /\ s.life = x.life /\ s.req = x.req /\ s.termwait = x.termwait
          /\ s.terminated = x.terminated /\ s.app = x.app /\ s.refs = x.refs
          /\ s.told = x.told /\ s.termconf = x.termconf /\ s.tmr = x.tmr
          /\ s.refer = x.refer /\ s.expires = x.expires
      BY <2>2 DEF But, Fields
    <2>5. Asks(s)
      BY <1>8, <2>2 DEF Handling, Asks, But, Fields
    <2>6. PICK r : r = request(s, e)
      OBVIOUS
    <2>7. CASE e.send
      <3>1. y = r
        BY <1>3, <1>11, <2>1, <2>6, <2>7 DEF Out
      <3>2. s.life = "live" /\ s.req = "none" /\ ~s.termwait /\ s.tmr = "off" /\ s.terminated
        BY <1>6, <1>8, <1>11, <2>3, <2>4 DEF Handling, Typed
      <3>3. WasTold(s) /\ s.refs = One(s.app) + 1
        BY <1>6, <1>8, <1>11, <2>3, <2>4 DEF Handling, WasTold, Typed
      <3> QED BY <2>2, <2>5, <2>6, <2>7, <3>1, <3>2, <3>3, AskAgainLemma
    <2>8. CASE ~e.send
      <3>1. y = mem_deref(r, e)
        BY <1>3, <1>11, <2>1, <2>6, <2>8 DEF Out
      <3>2. s.req = "none" /\ ~s.termwait /\ (s.termconf => Ended)
        BY <1>6, <1>8, <2>3, <2>4 DEF Handling, Asks, Typed
      <3>3. /\ r \in Subscription /\ r.req = "none" /\ r.trouble
            /\ But(r, s, {"cseq", "expires", "req", "fresh", "answer", "trouble"})
        BY <2>2, <2>6, <2>8, <3>2, RequestLemma
      <3>4. Asks(r)
        BY <2>2, <2>5, <2>6, <3>2, AskedLemma
      <3>5. /\ r.life = s.life /\ r.termwait = s.termwait /\ r.terminated = s.terminated
            /\ r.app = s.app /\ r.refs = s.refs /\ r.told = s.told /\ r.tmr = s.tmr
        BY <3>3 DEF But, Fields
      <3>6. Typed(r)
        BY <3>3, TypedLemma
      <3>7. WaitOver(r)
        BY <1>6, <1>8, <1>11, <2>3, <2>4, <3>3, <3>4, <3>5, <3>6
        DEF Handling, WaitOver, Settled, WasTold, Typed
      <3> QED BY <3>1, <3>7, GivenBackLemma
    <2> QED BY <2>7, <2>8
  <1>12. CASE ~x.terminated /\ ~x.subscribed
    <2>1. y = sipsub_terminate(x, e)
      BY <1>3, <1>12 DEF Out
    <2>2. Ending(x) /\ x.app
      BY <1>6, <1>8, <1>9, <1>12 DEF Handling, Ending, Open, One, Typed
    <2> QED BY <2>1, <2>2, CloseLemma
  <1>13. CASE ~x.terminated /\ x.subscribed
    <2>1. PICK f : f = [x EXCEPT !.failc = @ + 1]
      OBVIOUS
    <2>2. f \in Subscription /\ But(f, x, {"failc"}) /\ (f.failc < FailMax => f.failc # FailMax)
      <3>1. x.failc # FailMax
        BY <1>8, <1>13 DEF Handling, Open
      <3> QED BY <1>4, <2>1, <3>1, CountLemma
    <2>3. Typed(f)
      BY <2>2, TypedLemma
    <2>4. /\ f.life = x.life /\ f.req = x.req /\ f.termwait = x.termwait
          /\ f.terminated = x.terminated /\ f.app = x.app /\ f.refs = x.refs
          /\ f.told = x.told /\ f.termconf = x.termconf /\ f.tmr = x.tmr
          /\ f.subscribed = x.subscribed /\ f.expires = x.expires /\ f.trouble = x.trouble
      BY <2>2 DEF But, Fields
    <2>5. Asks(f)
      BY <1>8, <2>2 DEF Handling, Asks, But, Fields
    <2>6. CASE f.failc < FailMax
      <3>1. y = [f EXCEPT !.tmr = "refresh"]
        BY <1>3, <1>13, <2>1, <2>6 DEF Out, sipsub_reschedule
      <3>2. y \in Subscription /\ y.tmr = "refresh" /\ But(y, f, {"tmr"})
        BY <2>2, <3>1, TimerLemma
      <3>3. Asks(y)
        BY <2>5, <3>2 DEF Asks, But, Fields
      <3>4. /\ y.life = f.life /\ y.req = f.req /\ y.termwait = f.termwait
            /\ y.terminated = f.terminated /\ y.app = f.app /\ y.refs = f.refs
            /\ y.told = f.told /\ y.termconf = f.termconf /\ y.failc = f.failc
            /\ y.subscribed = f.subscribed /\ y.expires = f.expires /\ y.trouble = f.trouble
        BY <3>2 DEF But, Fields
      <3>5. Typed(y)
        BY <3>2, TypedLemma
      <3>6. Open(y) /\ y.subscribed /\ ~y.terminated /\ ~y.termwait /\ y.life = "live"
        BY <1>6, <1>8, <1>13, <2>2, <2>3, <2>4, <2>6, <3>4, <3>5 DEF Handling, Open, Typed
      <3>7. ~y.expires => Settled(y)
        BY <1>6, <1>9, <2>3, <2>4, <3>4, <3>5 DEF Settled, Typed
      <3> QED BY <3>2, <3>3, <3>5, <3>6, <3>7 DEF Steady, Live, Typed
    <2>7. CASE ~(f.failc < FailMax)
      <3>1. y = sipsub_terminate(f, e)
        BY <1>3, <1>13, <2>1, <2>7 DEF Out
      <3>2. Settled(f) \/ (f.expires /\ f.subscribed)
        BY <1>6, <1>9, <2>3, <2>4 DEF Settled, Typed
      <3>3. Ending(f) /\ f.app
        BY <1>6, <1>8, <1>13, <2>2, <2>3, <2>4, <2>5, <3>2
        DEF Handling, Ending, Open, One, Typed
      <3> QED BY <3>1, <3>3, CloseLemma
    <2> QED BY <2>6, <2>7
  <1> QED BY <1>6, <1>10, <1>11, <1>12, <1>13 DEF Typed

(* A 2xx of its dialog.                                                     *)
LEMMA AcceptedLemma ==
  ASSUME NEW o, Handling(o), ~o.expires => Ended, NEW e \in Env, NEW y, y = Accepted(o, e)
  PROVE  Steady(y)
  <1>0. o \in Subscription /\ Typed(o)
    BY TypedLemma DEF Handling
  <1>1. PICK z : z = Reset(o)
    OBVIOUS
  <1>2. z \in Subscription /\ z.loops # LoopMax /\ But(z, o, {"loops"})
    BY <1>0, <1>1, ResetLemma
  <1>3. PICK b \in BOOLEAN : b = TRUE
    OBVIOUS
  <1>4. PICK c \in BOOLEAN : c = (z.subscribed \/ ~z.termconf)
    OBVIOUS
  <1>5. PICK s : s = [z EXCEPT !.dlg = b, !.subscribed = c, !.failc = 0]
    OBVIOUS
  <1>6. s = [Reset(o) EXCEPT !.dlg = TRUE, !.subscribed = @ \/ ~o.termconf, !.failc = 0]
    <2>1. z.termconf = o.termconf
      BY <1>2 DEF But, Fields
    <2> QED BY <1>1, <1>3, <1>4, <1>5, <2>1
  <1>7. s \in Subscription
    <2>1. 0 \in 0..FailMax
      BY BoundsAssumption
    <2> QED BY <1>2, <1>5, <2>1, Zenon DEF Subscription
  <1>8. /\ s.subscribed = c /\ s.failc = 0
        /\ But(s, z, {"dlg", "subscribed", "failc"})
    BY <1>2, <1>5 DEF Subscription, But, Fields
  <1>9. /\ s.life = o.life /\ s.req = o.req /\ s.termwait = o.termwait
        /\ s.terminated = o.terminated /\ s.app = o.app /\ s.refs = o.refs
        /\ s.told = o.told /\ s.termconf = o.termconf /\ s.tmr = o.tmr
        /\ s.expires = o.expires /\ s.refer = o.refer /\ s.cseq = o.cseq
        /\ s.failc # FailMax
    BY <1>2, <1>8, BoundsAssumption DEF But, Fields
  <1>10. Typed(s) /\ Typed(z)
    BY <1>2, <1>7, TypedLemma
  <1>11. Asks(s)
    BY <1>0, <1>2, <1>8, <1>10 DEF Handling, Asks, But, Fields, Typed
  <1>12. Handling(s)
    BY <1>0, <1>7, <1>9, <1>10, <1>11 DEF Handling, Open, WasTold, Typed
  <1>13. s.subscribed \/ s.termconf
    BY <1>2, <1>4, <1>8, <1>9, <1>10 DEF But, Fields, Typed
  <1>14. CASE ~s.expires /\ ~s.termconf
    <2>1. y = [s EXCEPT !.tmr = "notify", !.termwait = TRUE]
      BY <1>6, <1>14 DEF Accepted
    <2>2. y = [s EXCEPT !.tmr = "notify", !.termwait = b]
      BY <1>3, <2>1
    <2>3. y \in Subscription
      BY <1>7, <2>2, Zenon DEF Subscription
    <2>4. y.tmr = "notify" /\ y.termwait = b /\ But(y, s, {"tmr", "termwait"})
      BY <1>7, <2>2 DEF Subscription, But, Fields
    <2>5. /\ y.life = s.life /\ y.req = s.req /\ y.terminated = s.terminated
          /\ y.app = s.app /\ y.refs = s.refs /\ y.told = s.told
          /\ y.termconf = s.termconf /\ y.failc = s.failc
          /\ y.subscribed = s.subscribed
      BY <2>4 DEF But, Fields
    <2>6. Typed(y)
      BY <2>3, TypedLemma
    <2>7. Ended /\ y.termwait /\ y.req = "none"
      BY <1>0, <1>3, <1>9, <1>10, <1>12, <1>14, <2>4, <2>5 DEF Handling, Typed
    <2>8. Asks(y)
      BY <1>11, <2>4, <2>7 DEF Asks, But, Fields
    <2>9. ~y.terminated => Open(y) /\ y.subscribed
      BY <1>10, <1>12, <1>13, <1>14, <2>5, <2>6 DEF Handling, Open, Typed
    <2>10. y.terminated => WasTold(y) /\ y.refs = One(y.app) + 1
      BY <1>10, <1>12, <2>5, <2>6 DEF Handling, WasTold, Typed
    <2>11. y.life = "live" /\ Settled(y)
      BY <1>12, <2>5, <2>7 DEF Handling, Settled, Ended
    <2> QED BY <2>3, <2>4, <2>6, <2>7, <2>8, <2>9, <2>10, <2>11
            DEF Steady, Live, Waiting, Typed
  <1>15. CASE (s.expires \/ s.termconf) /\ s.terminated
    <2>1. y = Out(s, e)
      BY <1>6, <1>15 DEF Accepted
    <2>2. ~s.subscribed \/ ~s.expires => Settled(s)
      BY <1>11, <1>13, <1>15 DEF Asks, Settled, Ended
    <2> QED BY <1>12, <2>1, <2>2, OutLemma
  <1>16. CASE ~s.terminated /\ (s.expires \/ s.termconf) /\ s.refer
    <2>1. PICK f \in BOOLEAN : f = FALSE
      OBVIOUS
    <2>2. y = [s EXCEPT !.refer = f]
      BY <1>6, <1>16, <2>1 DEF Accepted
    <2>3. y \in Subscription
      BY <1>7, <2>2, Zenon DEF Subscription
    <2>4. y.refer = f /\ But(y, s, {"refer"})
      BY <1>7, <2>2 DEF Subscription, But, Fields
    <2>5. Typed(y)
      BY <2>3, TypedLemma
    <2>6. /\ y.life = s.life /\ y.req = s.req /\ y.terminated = s.terminated
          /\ y.app = s.app /\ y.refs = s.refs /\ y.told = s.told /\ y.tmr = s.tmr
          /\ y.termconf = s.termconf /\ y.failc = s.failc /\ y.termwait = s.termwait
          /\ y.subscribed = s.subscribed /\ y.cseq = s.cseq /\ y.expires = s.expires
      BY <2>4 DEF But, Fields
    <2>7. y.cseq /\ y.expires /\ ~y.terminated /\ y.life = "live"
      BY <1>10, <1>11, <1>12, <1>16, <2>5, <2>6 DEF Handling, Asks, Typed
    <2>8. Asks(y)
      BY <1>11, <2>1, <2>4, <2>5, <2>7 DEF Asks, But, Fields, Typed
    <2>9. Open(y) /\ y.subscribed
      BY <1>10, <1>12, <1>13, <1>16, <2>5, <2>6 DEF Handling, Open, Typed
    <2>10. ~y.termwait /\ y.tmr # "notify"
      BY <1>10, <1>12, <1>16, <2>5, <2>6 DEF Handling, Typed
    <2> QED BY <2>3, <2>5, <2>7, <2>8, <2>9, <2>10 DEF Steady, Live, Typed
  <1>17. CASE ~s.terminated /\ (s.expires \/ s.termconf) /\ ~s.refer
    <2>1. y = [s EXCEPT !.tmr = "refresh"]
      BY <1>6, <1>17 DEF Accepted, sipsub_reschedule
    <2>2. y \in Subscription /\ y.tmr = "refresh" /\ But(y, s, {"tmr"})
      BY <1>7, <2>1, TimerLemma
    <2>3. Asks(y)
      BY <1>11, <2>2 DEF Asks, But, Fields
    <2>4. Typed(y)
      BY <2>2, TypedLemma
    <2>5. /\ y.life = s.life /\ y.req = s.req /\ y.terminated = s.terminated
          /\ y.app = s.app /\ y.refs = s.refs /\ y.told = s.told
          /\ y.termconf = s.termconf /\ y.failc = s.failc /\ y.termwait = s.termwait
          /\ y.subscribed = s.subscribed /\ y.expires = s.expires
      BY <2>2 DEF But, Fields
    <2>6. Open(y) /\ y.subscribed /\ ~y.terminated /\ ~y.termwait /\ y.life = "live"
      BY <1>10, <1>12, <1>13, <1>17, <2>4, <2>5 DEF Handling, Open, Typed
    <2>7. y.expires
      BY <1>10, <1>12, <1>17, <2>4, <2>5 DEF Handling, Open, Typed
    <2> QED BY <2>2, <2>3, <2>4, <2>6, <2>7 DEF Steady, Live, Typed
  <1> QED BY <1>10, <1>14, <1>15, <1>16, <1>17 DEF Typed

(* A request that was refused, or had no answer.                            *)
LEMMA RefusedLemma ==
  ASSUME NEW o, Handling(o), o.loops # LoopMax, NEW a, a = "481" => Ended,
         NEW e \in Env, NEW y, y = Refused(o, a, e)
  PROVE  Steady(y)
  <1>0. o \in Subscription
    BY DEF Handling
  <1>1. PICK f : f = Fail(o)
    OBVIOUS
  <1>2. f \in Subscription /\ But(f, o, {"loops"})
    BY <1>0, <1>1, FailLemma
  <1>3. Typed(o) /\ Typed(f)
    BY <1>0, <1>2, TypedLemma
  <1>4. /\ f.life = o.life /\ f.req = o.req /\ f.termwait = o.termwait
        /\ f.terminated = o.terminated /\ f.app = o.app /\ f.refs = o.refs
        /\ f.told = o.told /\ f.termconf = o.termconf /\ f.failc = o.failc
        /\ f.tmr = o.tmr
    BY <1>2 DEF But, Fields
  <1>5. Asks(f) /\ f.req = "none"
    BY <1>2, <1>4 DEF Handling, Asks, But, Fields
  <1>6. Handling(f)
    BY <1>2, <1>3, <1>4, <1>5 DEF Handling, Open, WasTold, Typed
  <1>7. CASE Retries(o, a, e)
    <2>1. f.loops # LoopMax
      BY <1>1, <1>7 DEF Retries, Loops
    <2>2. PICK r : r = request(f, e)
      OBVIOUS
    <2>3. CASE e.send
      <3>1. y = r
        BY <1>1, <1>7, <2>2, <2>3 DEF Refused
      <3>2. f.tmr = "off" \/ (f.tmr = "refresh" /\ ~f.terminated)
        BY <1>2, <1>6 DEF Handling, Subscription
      <3> QED BY <1>2, <1>6, <2>1, <2>2, <2>3, <3>1, <3>2, AskAgainLemma DEF Handling
    <2>4. CASE ~e.send
      <3>1. y = Out(r, Second(e))
        BY <1>1, <1>7, <2>2, <2>4 DEF Refused
      <3>2. /\ r \in Subscription /\ r.req = "none" /\ r.trouble
            /\ But(r, f, {"cseq", "expires", "req", "fresh", "answer", "trouble"})
        BY <1>2, <1>5, <2>2, <2>4, RequestLemma
      <3>3. Asks(r)
        BY <1>2, <1>5, <1>6, <2>1, <2>2, AskedLemma DEF Handling, Asks
      <3>4. /\ r.life = f.life /\ r.termwait = f.termwait /\ r.terminated = f.terminated
            /\ r.app = f.app /\ r.refs = f.refs /\ r.told = f.told
            /\ r.termconf = f.termconf /\ r.failc = f.failc /\ r.tmr = f.tmr
        BY <3>2 DEF But, Fields
      <3>5. Typed(r)
        BY <3>2, TypedLemma
      <3>6. Handling(r)
        BY <1>3, <1>6, <3>2, <3>3, <3>4, <3>5 DEF Handling, Open, WasTold, Typed
      <3>7. Settled(r)
        BY <3>2 DEF Settled
      <3>8. Second(e) \in Env
        BY DEF Second, Env
      <3> QED BY <3>1, <3>6, <3>7, <3>8, OutLemma
    <2> QED BY <2>3, <2>4
  <1>8. CASE ~Retries(o, a, e) /\ a = "481" /\ ~Loops(f)
    <2>1. PICK b \in BOOLEAN : b = FALSE
      OBVIOUS
    <2>2. PICK g : g = [f EXCEPT !.subscribed = b]
      OBVIOUS
    <2>3. y = Out(g, e)
      BY <1>1, <1>8, <2>1, <2>2 DEF Refused
    <2>4. g \in Subscription
      BY <1>2, <2>2, Zenon DEF Subscription
    <2>5. But(g, f, {"subscribed"})
      BY <1>2, <2>2 DEF Subscription, But, Fields
    <2>6. Typed(g)
      BY <2>4, TypedLemma
    <2>7. Handling(g)
      BY <1>3, <1>6, <2>4, <2>5, <2>6 DEF Handling, Open, WasTold, Asks, But, Fields, Typed
    <2>8. Settled(g)
      BY <1>8 DEF Settled, Ended
    <2> QED BY <2>3, <2>7, <2>8, OutLemma
  <1>9. CASE ~Retries(o, a, e) /\ ~(a = "481" /\ ~Loops(f))
    <2>1. PICK b \in BOOLEAN : b = TRUE
      OBVIOUS
    <2>2. PICK g : g = [f EXCEPT !.trouble = b]
      OBVIOUS
    <2>3. y = Out(g, e)
      BY <1>1, <1>9, <2>1, <2>2 DEF Refused
    <2>4. g \in Subscription
      BY <1>2, <2>2, Zenon DEF Subscription
    <2>5. But(g, f, {"trouble"}) /\ g.trouble = b
      BY <1>2, <2>2 DEF Subscription, But, Fields
    <2>6. Typed(g)
      BY <2>4, TypedLemma
    <2>7. Handling(g)
      BY <1>3, <1>6, <2>4, <2>5, <2>6 DEF Handling, Open, WasTold, Asks, But, Fields, Typed
    <2>8. Settled(g)
      BY <2>1, <2>5 DEF Settled
    <2> QED BY <2>3, <2>7, <2>8, OutLemma
  <1> QED BY <1>7, <1>8, <1>9

(* Any response, and none.                                                  *)
LEMMA ResponseLemma ==
  ASSUME Steady(sub), sub.life = "live", sub.req # "none", NEW e \in Env, NEW a,
         a \in {sub.answer, "fail", "2xxbad", "2xxother"} \ {"none"},
         a \in {"2xxbad", "2xxother"} => sub.answer = "2xx",
         a = "2xxother" => sub.dlg /\ sub.fresh,
         NEW y, y = response_handler(sub, a, e)
  PROVE  Steady(y)
  <1>0. sub \in Subscription /\ Live(sub) /\ Typed(sub)
    BY TypedLemma DEF Steady, Gone
  <1>1. PICK d : d = [sub EXCEPT !.req = "none", !.answer = "none"]
    OBVIOUS
  <1>2. d \in Subscription
    BY <1>0, <1>1, Zenon DEF Subscription
  <1>3. d.req = "none" /\ d.answer = "none" /\ But(d, sub, {"req", "answer"})
    BY <1>0, <1>1 DEF Subscription, But, Fields
  <1>4. Typed(d)
    BY <1>2, TypedLemma
  <1>5. /\ d.life = sub.life /\ d.termwait = sub.termwait /\ d.terminated = sub.terminated
        /\ d.app = sub.app /\ d.refs = sub.refs /\ d.told = sub.told
        /\ d.termconf = sub.termconf /\ d.failc = sub.failc /\ d.tmr = sub.tmr
        /\ d.loops = sub.loops /\ d.expires = sub.expires
    BY <1>3 DEF But, Fields
  <1>6. Asks(d)
    BY <1>0, <1>3 DEF Live, Asks, But, Fields
  <1>7. ~d.termwait /\ d.tmr # "notify"
    BY <1>0, <1>4, <1>5 DEF Live, Asks, Typed
  <1>8. d.terminated => WasTold(d) /\ d.refs = One(d.app) + 1 /\ d.tmr = "off"
    <2>1. d.tmr \in {"off", "refresh", "notify"}
      BY <1>2 DEF Subscription
    <2>2. d.terminated => d.tmr = "off"
      BY <1>0, <1>4, <1>5, <1>7, <2>1 DEF Live, Typed
    <2>3. d.terminated => WasTold(d) /\ d.refs = One(d.app) + 1
      BY <1>0, <1>4, <1>5 DEF Live, Waiting, WasTold, Typed
    <2> QED BY <2>2, <2>3
  <1>9. ~d.terminated => Open(d)
    BY <1>0, <1>4, <1>5 DEF Live, Open, Typed
  <1>10. Handling(d)
    BY <1>2, <1>3, <1>5, <1>6, <1>7, <1>8, <1>9 DEF Handling
  <1>11. sub.answer = "2xx" /\ ~d.expires => Ended
    BY <1>0, <1>4, <1>5 DEF Live, Asks, Typed
  <1>12. CASE a = "2xx"
    <2>1. y = Accepted(d, e)
      BY <1>1, <1>12 DEF response_handler
    <2>2. sub.answer = "2xx"
      BY <1>12
    <2> QED BY <1>10, <1>11, <2>1, <2>2, AcceptedLemma
  <1>13. CASE a = "2xxbad"
    <2>1. PICK z : z = Reset(d)
      OBVIOUS
    <2>2. z \in Subscription /\ But(z, d, {"loops"})
      BY <1>2, <2>1, ResetLemma
    <2>3. PICK b \in BOOLEAN : b = TRUE
      OBVIOUS
    <2>4. PICK c \in BOOLEAN : c = FALSE
      OBVIOUS
    <2>5. PICK g : g = [z EXCEPT !.subscribed = c, !.trouble = b]
      OBVIOUS
    <2>6. g = [Reset(d) EXCEPT !.subscribed = FALSE, !.trouble = TRUE]
      BY <2>1, <2>3, <2>4, <2>5
    <2>7. y = Out(g, e)
      BY <1>1, <1>13, <2>6 DEF response_handler
    <2>8. g \in Subscription
      BY <2>2, <2>5, Zenon DEF Subscription
    <2>9. But(g, z, {"subscribed", "trouble"}) /\ g.trouble = b
      BY <2>2, <2>5 DEF Subscription, But, Fields
    <2>10. Typed(g)
      BY <2>8, TypedLemma
    <2>11. But(g, d, {"loops", "subscribed", "trouble"})
      BY <2>2, <2>9 DEF But, Fields
    <2>12. Handling(g)
      BY <1>4, <1>10, <2>8, <2>10, <2>11
      DEF Handling, Open, WasTold, Asks, But, Fields, Typed
    <2>13. Settled(g)
      BY <2>3, <2>9 DEF Settled
    <2> QED BY <2>7, <2>12, <2>13, OutLemma
  <1>14. CASE a = "2xxother"
    <2>1. PICK z : z = Reset(d)
      OBVIOUS
    <2>2. z \in Subscription /\ But(z, d, {"loops"})
      BY <1>2, <2>1, ResetLemma
    <2>3. PICK b \in BOOLEAN : b = TRUE
      OBVIOUS
    <2>4. y = [z EXCEPT !.stray = b]
      BY <1>1, <1>14, <2>1, <2>3 DEF response_handler
    <2>5. y \in Subscription
      BY <2>2, <2>4, Zenon DEF Subscription
    <2>6. But(y, z, {"stray"}) /\ y.stray = b
      BY <2>2, <2>4 DEF Subscription, But, Fields
    <2>7. Typed(y)
      BY <2>5, TypedLemma
    <2>8. But(y, d, {"loops", "stray"})
      BY <2>2, <2>6 DEF But, Fields
    <2>9. Asks(y) /\ y.req = "none" /\ ~y.termwait /\ y.stray /\ y.life = "live"
      BY <1>4, <1>10, <2>3, <2>6, <2>7, <2>8 DEF Handling, Asks, But, Fields, Typed
    <2>10. y.terminated => WasTold(y) /\ y.refs = One(y.app) + 1 /\ y.tmr = "off"
      BY <1>4, <1>8, <2>7, <2>8 DEF WasTold, But, Fields, Typed
    <2>11. ~y.terminated => Open(y) /\ y.tmr # "notify"
      BY <1>4, <1>7, <1>9, <2>7, <2>8 DEF Open, But, Fields, Typed
    <2>12. ~y.expires => Settled(y)
      BY <1>4, <1>11, <1>14, <2>7, <2>8 DEF Settled, Ended, But, Fields, Typed
    <2>13. y.termwait = (y.tmr = "notify")
      BY <2>7, <2>9, <2>10, <2>11 DEF Typed
    <2>14. ~y.terminated => y.subscribed
      <3>1. /\ y.terminated = sub.terminated /\ y.subscribed = sub.subscribed
        BY <1>3, <2>8 DEF But, Fields
      <3> QED BY <1>0, <1>14, <2>7, <3>1 DEF Live, Typed
    <2> QED BY <2>5, <2>7, <2>9, <2>10, <2>11, <2>12, <2>13, <2>14
            DEF Steady, Live, Waiting, Typed
  <1>15. CASE a \notin {"2xx", "2xxbad", "2xxother"}
    <2>1. y = Refused(d, a, e)
      BY <1>1, <1>15 DEF response_handler
    <2>2. a = "481" => Ended
      BY <1>0 DEF Live, Asks
    <2>3. d.loops # LoopMax
      BY <1>0, <1>5 DEF Live, Asks
    <2> QED BY <1>10, <2>1, <2>2, <2>3, RefusedLemma
  <1> QED BY <1>12, <1>13, <1>14, <1>15

-----------------------------------------------------------------------------
(* The steps.                                                               *)

(* A step of the subscription that leaves it steady keeps the invariant:    *)
(* what is outside is unchanged, or NOTIFYs are lost.                       *)
LEMMA KeptLemma ==
  ASSUME IInv, NEW o, sub' = o, Steady(o), peer' = peer,
         notes' \subseteq notes
  PROVE  IInv'
  BY DEF IInv, Steady, Live, Gone, Asks, Open, WasTold, Waiting, Settled, Ended

(* A new one has its type.                                                  *)
LEMMA MadeLemma ==
  ASSUME NEW u \in Subscription, NEW f \in BOOLEAN, NEW p \in BOOLEAN, NEW g \in BOOLEAN
  PROVE  [u EXCEPT !.life = "live", !.refs = 1, !.refer = f, !.expires = p, !.dlg = g]
           \in Subscription
  <1>1. PICK n \in 0..3 : n = 1
    OBVIOUS
  <1>2. PICK v : v = [u EXCEPT !.life = "live", !.refs = n]
    OBVIOUS
  <1>3. n \in 0..3
    BY <1>1
  <1>4. v \in Subscription
    BY <1>2, <1>3, Zenon DEF Subscription
  <1>5. [v EXCEPT !.refer = f, !.expires = p, !.dlg = g] \in Subscription
    BY <1>4, Zenon DEF Subscription
  <1> QED BY <1>1, <1>2, <1>5

LEMMA AllocStep ==
  ASSUME IInv, sipsub_alloc
  PROVE  IInv'
  <1>1. PICK e \in Env, refer \in BOOLEAN, expires \in BOOLEAN, dlg \in BOOLEAN :
          LET o == [Unused EXCEPT !.life = "live", !.refs = 1, !.refer = refer,
                                  !.expires = expires \/ refer, !.dlg = dlg]
              r == request(o, e)
          IN Becomes(IF e.send THEN [r EXCEPT !.app = TRUE] ELSE mem_deref(r, e))
    BY DEF sipsub_alloc
  <1>2. peer = "none" /\ notes = {} /\ peer' = peer /\ notes' = notes
    <2>1. peer' = peer /\ notes' = notes
      BY <1>1 DEF Becomes
    <2> QED BY <2>1 DEF IInv, Steady, Live, Gone, sipsub_alloc
  <1>3. PICK p \in BOOLEAN : p = (expires \/ refer)
    OBVIOUS
  <1>4. PICK o : o = [Unused EXCEPT !.life = "live", !.refs = 1, !.refer = refer,
                                    !.expires = p, !.dlg = dlg]
    OBVIOUS
  <1>5. o \in Subscription
    <2>1. Unused \in Subscription
      BY UnusedLemma
    <2>2. refer \in BOOLEAN /\ p \in BOOLEAN /\ dlg \in BOOLEAN
      BY <1>1, <1>3
    <2> QED BY <1>4, <2>1, <2>2, MadeLemma
  <1>6. /\ o.life = "live" /\ o.refs = 1 /\ o.refer = refer /\ o.expires = p
        /\ But(o, Unused, {"life", "refs", "refer", "expires", "dlg"})
    BY <1>4, UnusedLemma DEF Subscription, But, Fields
  <1>7. /\ o.req = "none" /\ o.tmr = "off" /\ o.told = "no" /\ o.loops = 0
        /\ o.failc = 0 /\ ~o.app /\ ~o.subscribed /\ ~o.terminated /\ ~o.termconf
        /\ ~o.termwait /\ o.loops # LoopMax /\ o.failc # FailMax
    BY <1>5, <1>6, UnusedLemma, TypedLemma, BoundsAssumption DEF But, Fields, Typed
  <1>8. Typed(o) /\ (o.refer => o.expires)
    BY <1>3, <1>5, <1>6, TypedLemma
  <1>9. PICK r : r = request(o, e)
    OBVIOUS
  <1>10. /\ r \in Subscription
         /\ But(r, o, {"cseq", "expires", "req", "fresh", "answer", "trouble"})
         /\ e.send => r.req \in {"REFER", "SUBSCRIBE", "unSUBSCRIBE"} /\ r.fresh = ~o.dlg
         /\ ~e.send => r.req = "none"
    BY <1>5, <1>7, <1>9, RequestLemma
  <1>11. Asks(r)
    BY <1>5, <1>7, <1>8, <1>9, AskedLemma
  <1>12. /\ r.life = "live" /\ r.refs = 1 /\ r.tmr = "off" /\ r.told = "no"
         /\ ~r.app /\ ~r.subscribed /\ ~r.terminated /\ ~r.termconf /\ ~r.termwait
         /\ r.failc # FailMax /\ r.dlg = o.dlg
    BY <1>6, <1>7, <1>8, <1>10, TypedLemma DEF But, Fields, Typed
  <1>13. sub' = IF e.send THEN [r EXCEPT !.app = TRUE] ELSE mem_deref(r, e)
    BY <1>1, <1>3, <1>4, <1>9 DEF Becomes
  <1>14. Steady(sub')
    <2>1. CASE e.send
      <3>1. PICK b \in BOOLEAN : b = TRUE
        OBVIOUS
      <3>2. PICK x : x = [r EXCEPT !.app = b]
        OBVIOUS
      <3>3. x \in Subscription
        BY <1>10, <3>2, Zenon DEF Subscription
      <3>4. x.app = b /\ But(x, r, {"app"})
        BY <1>10, <3>2 DEF Subscription, But, Fields
      <3>5. Typed(x) /\ Typed(r)
        BY <1>10, <3>3, TypedLemma
      <3>6. Asks(x)
        BY <1>11, <3>4 DEF Asks, But, Fields
      <3>7. /\ x.life = "live" /\ x.refs = 1 /\ x.tmr = "off" /\ x.told = "no"
            /\ x.app /\ ~x.terminated /\ ~x.termconf /\ ~x.termwait
            /\ x.failc # FailMax /\ x.req # "none" /\ ~(x.fresh /\ x.dlg)
        BY <1>8, <1>10, <1>12, <2>1, <3>1, <3>4, <3>5 DEF But, Fields, Typed
      <3>8. sub' = x
        BY <1>13, <2>1, <3>1, <3>2
      <3> QED BY <3>3, <3>5, <3>6, <3>7, <3>8 DEF Steady, Live, Open, Typed
    <2>2. CASE ~e.send
      <3>1. ASSUME NEW d \in Subscription, d.refs = 0, But(d, r, {"refs"})
            PROVE  Ending(d)
        <4>1. Asks(d)
          BY <1>11, <3>1 DEF Asks, But, Fields
        <4>2. /\ d.life = "live" /\ d.told = "no" /\ ~d.app /\ ~d.terminated /\ ~d.termwait
          BY <1>12, <3>1, TypedLemma DEF But, Fields, Typed
        <4> QED BY <1>2, <3>1, <4>1, <4>2 DEF Ending, One, Settled
      <3>2. sub' = mem_deref(r, e)
        BY <1>13, <2>2
      <3> QED BY <1>10, <1>12, <3>1, <3>2, DropLemma
    <2> QED BY <2>1, <2>2
  <1> QED BY <1>2, <1>14, KeptLemma

LEMMA AnsweredStep ==
  ASSUME IInv, Answered
  PROVE  IInv'
  <1>1. Steady(sub)
    BY UnusedLemma DEF IInv, Answered
  <1>2. PICK e \in Env, a \in {sub.answer, "fail", "2xxbad", "2xxother"} \ {"none"} :
          /\ a = "2xxbad" => sub.answer = "2xx" /\ ~sub.dlg
          /\ a = "2xxother" => sub.answer = "2xx" /\ sub.dlg /\ sub.fresh
          /\ Becomes(response_handler(sub, a, e))
    BY DEF Answered
  <1>3. sub' = response_handler(sub, a, e) /\ peer' = peer /\ notes' = notes
    BY <1>2 DEF Becomes
  <1>4. Steady(response_handler(sub, a, e))
    BY <1>1, <1>2, ResponseLemma DEF Answered
  <1> QED BY <1>3, <1>4, KeptLemma

LEMMA TimerStep ==
  ASSUME IInv, tmr_handler
  PROVE  IInv'
  <1>1. sub \in Subscription /\ Live(sub) /\ sub.tmr = "refresh"
    BY UnusedLemma DEF IInv, Steady, Gone, tmr_handler
  <1>2. PICK e \in Env :
          LET o == [sub EXCEPT !.tmr = "off"]
              r == request(Reset(o), e)
              f == [r EXCEPT !.failc = @ + 1]
          IN Becomes(IF o.req # "none" \/ o.terminated THEN o
                     ELSE IF e.send THEN r
                     ELSE IF f.failc < FailMax THEN sipsub_reschedule(f)
                     ELSE sipsub_terminate(f, Second(e)))
    BY DEF tmr_handler
  <1>3. PICK o : o = [sub EXCEPT !.tmr = "off"]
    OBVIOUS
  <1>4. PICK z : z = Reset(o)
    OBVIOUS
  <1>5. PICK r : r = request(z, e)
    OBVIOUS
  <1>6. PICK f : f = [r EXCEPT !.failc = @ + 1]
    OBVIOUS
  <1>7. peer' = peer /\ notes' = notes
    BY <1>2 DEF Becomes
  <1>8. sub' = IF o.req # "none" \/ o.terminated THEN o
               ELSE IF e.send THEN r
               ELSE IF f.failc < FailMax THEN sipsub_reschedule(f)
               ELSE sipsub_terminate(f, Second(e))
    BY <1>2, <1>3, <1>4, <1>5, <1>6 DEF Becomes
  <1>9. o \in Subscription /\ o.tmr = "off" /\ But(o, sub, {"tmr"})
    BY <1>1, <1>3, TimerLemma
  <1>10. Typed(sub) /\ Typed(o)
    BY <1>1, <1>9, TypedLemma
  <1>11. Asks(o) /\ ~o.terminated /\ ~o.termwait /\ Open(o) /\ o.life = "live"
    BY <1>1, <1>9, <1>10 DEF Live, Asks, Open, But, Fields, Typed
  <1>12. o.req = "none" \/ (o.fresh /\ o.dlg) => o.subscribed
    BY <1>1, <1>9, <1>10, <1>11 DEF Live, But, Fields, Typed
  <1>13. CASE o.req # "none"
    <2>1. Steady(o)
      BY <1>9, <1>10, <1>11, <1>12, <1>13 DEF Steady, Live, Typed
    <2> QED BY <1>7, <1>8, <1>13, <2>1, KeptLemma
  <1>14. CASE o.req = "none"
    <2>1. z \in Subscription /\ z.loops # LoopMax /\ But(z, o, {"loops"})
      BY <1>4, <1>9, ResetLemma
    <2>2. Typed(z)
      BY <2>1, TypedLemma
    <2>3. /\ Asks(z) /\ ~z.terminated /\ ~z.termwait /\ Open(z) /\ z.life = "live"
          /\ z.req = "none" /\ z.tmr = "off"
      BY <1>9, <1>10, <1>11, <1>14, <2>1, <2>2 DEF Asks, Open, But, Fields, Typed
    <2>4. CASE e.send
      <3>1. Steady(r)
        BY <1>5, <2>1, <2>3, <2>4, AskAgainLemma
      <3> QED BY <1>7, <1>8, <1>11, <1>14, <2>4, <3>1, KeptLemma
    <2>5. CASE ~e.send
      <3>1. /\ r \in Subscription /\ r.req = "none" /\ r.trouble
            /\ But(r, z, {"cseq", "expires", "req", "fresh", "answer", "trouble"})
        BY <1>5, <2>1, <2>3, <2>5, RequestLemma
      <3>2. Asks(r)
        BY <1>5, <2>1, <2>3, AskedLemma DEF Asks
      <3>3. r.failc # FailMax
        BY <2>3, <3>1 DEF Open, But, Fields
      <3>4. f \in Subscription /\ But(f, r, {"failc"}) /\ (f.failc < FailMax => f.failc # FailMax)
        BY <1>6, <3>1, <3>3, CountLemma
      <3>5. Asks(f)
        BY <3>2, <3>4 DEF Asks, But, Fields
      <3>6. Typed(f)
        BY <3>4, TypedLemma
      <3>7. f.subscribed = o.subscribed
        BY <2>1, <3>1, <3>4 DEF But, Fields
      <3>8. /\ f.life = "live" /\ ~f.terminated /\ ~f.termwait /\ f.req = "none"
            /\ f.trouble /\ f.app /\ f.refs = 1 /\ f.told = "no" /\ ~f.termconf
            /\ f.subscribed
        BY <1>10, <1>12, <1>14, <2>2, <2>3, <3>1, <3>4, <3>6, <3>7 DEF Open, But, Fields, Typed
      <3>9. CASE f.failc < FailMax
        <4>1. PICK y : y = [f EXCEPT !.tmr = "refresh"]
          OBVIOUS
        <4>2. sub' = y
          BY <1>8, <1>11, <1>14, <2>5, <3>9, <4>1 DEF sipsub_reschedule
        <4>3. y \in Subscription /\ y.tmr = "refresh" /\ But(y, f, {"tmr"})
          BY <3>4, <4>1, TimerLemma
        <4>4. Asks(y)
          BY <3>5, <4>3 DEF Asks, But, Fields
        <4>5. Typed(y)
          BY <4>3, TypedLemma
        <4>6. /\ y.life = "live" /\ ~y.terminated /\ ~y.termwait /\ y.trouble
              /\ y.app /\ y.refs = 1 /\ y.told = "no" /\ ~y.termconf /\ y.subscribed
              /\ y.failc # FailMax
          BY <3>4, <3>6, <3>8, <3>9, <4>3, <4>5 DEF But, Fields, Typed
        <4>7. Steady(y)
          BY <4>3, <4>4, <4>5, <4>6 DEF Steady, Live, Open, Settled, Typed
        <4> QED BY <1>7, <4>2, <4>7, KeptLemma
      <3>10. CASE ~(f.failc < FailMax)
        <4>1. sub' = sipsub_terminate(f, Second(e)) /\ Second(e) \in Env
          BY <1>8, <1>11, <1>14, <2>5, <3>10 DEF Second, Env
        <4>2. Ending(f)
          BY <3>4, <3>5, <3>8 DEF Ending, One, Settled
        <4>3. Steady(sipsub_terminate(f, Second(e)))
          BY <3>8, <4>1, <4>2, CloseLemma
        <4> QED BY <1>7, <4>1, <4>3, KeptLemma
      <3> QED BY <3>9, <3>10
    <2> QED BY <2>4, <2>5
  <1> QED BY <1>13, <1>14

LEMMA NotifyTimeoutStep ==
  ASSUME IInv, notify_timeout_handler
  PROVE  IInv'
  <1>1. sub \in Subscription /\ Live(sub) /\ sub.tmr = "notify"
    BY UnusedLemma DEF IInv, Steady, Gone, notify_timeout_handler
  <1>2. PICK e \in Env :
          LET o == [sub EXCEPT !.tmr = "off", !.termwait = FALSE]
          IN Becomes(IF o.terminated THEN mem_deref(o, e) ELSE sipsub_terminate(o, e))
    BY DEF notify_timeout_handler
  <1>3. PICK b \in BOOLEAN : b = FALSE
    OBVIOUS
  <1>4. PICK o : o = [sub EXCEPT !.tmr = "off", !.termwait = b]
    OBVIOUS
  <1>5. peer' = peer /\ notes' = notes
    BY <1>2 DEF Becomes
  <1>6. sub' = IF o.terminated THEN mem_deref(o, e) ELSE sipsub_terminate(o, e)
    BY <1>2, <1>3, <1>4 DEF Becomes
  <1>7. o \in Subscription
    BY <1>1, <1>4, Zenon DEF Subscription
  <1>8. o.tmr = "off" /\ o.termwait = b /\ But(o, sub, {"tmr", "termwait"})
    BY <1>1, <1>4 DEF Subscription, But, Fields
  <1>9. Typed(o) /\ Typed(sub) /\ ~o.termwait
    BY <1>1, <1>3, <1>7, <1>8, TypedLemma
  <1>10. sub.termwait /\ sub.req = "none" /\ Ended
    BY <1>1, <1>9 DEF Live, Asks, Typed
  <1>11. Asks(o) /\ o.life = "live" /\ o.req = "none" /\ Settled(o)
    BY <1>1, <1>8, <1>9, <1>10 DEF Live, Asks, Settled, Ended, But, Fields, Typed
  <1>12. CASE o.terminated
    <2>1. WasTold(o) /\ o.refs = One(o.app) + 1
      BY <1>1, <1>8, <1>9, <1>10, <1>12 DEF Live, WasTold, Waiting, But, Fields, Typed
    <2>2. WaitOver(o)
      BY <1>7, <1>8, <1>9, <1>11, <1>12, <2>1 DEF WaitOver
    <2>3. Steady(mem_deref(o, e))
      BY <2>2, GivenBackLemma
    <2> QED BY <1>5, <1>6, <1>12, <2>3, KeptLemma
  <1>13. CASE ~o.terminated
    <2>1. Open(o)
      BY <1>1, <1>8, <1>9, <1>13 DEF Live, Open, But, Fields, Typed
    <2>2. Ending(o) /\ o.app
      BY <1>7, <1>9, <1>11, <1>13, <2>1 DEF Ending, Open, One
    <2>3. Steady(sipsub_terminate(o, e))
      BY <2>2, CloseLemma
    <2> QED BY <1>5, <1>6, <1>13, <2>3, KeptLemma
  <1> QED BY <1>9, <1>12, <1>13 DEF Typed

LEMMA ReleaseStep ==
  ASSUME IInv, Release
  PROVE  IInv'
  <1>1. sub \in Subscription /\ Live(sub) /\ sub.app
    BY UnusedLemma DEF IInv, Steady, Gone, Release
  <1>2. PICK e \in Env : Becomes(mem_deref([sub EXCEPT !.app = FALSE], e))
    BY DEF Release
  <1>3. PICK b \in BOOLEAN : b = FALSE
    OBVIOUS
  <1>4. PICK o : o = [sub EXCEPT !.app = b]
    OBVIOUS
  <1>5. sub' = mem_deref(o, e) /\ peer' = peer /\ notes' = notes
    BY <1>2, <1>3, <1>4 DEF Becomes
  <1>6. o \in Subscription
    BY <1>1, <1>4, Zenon DEF Subscription
  <1>7. o.app = b /\ But(o, sub, {"app"})
    BY <1>1, <1>4 DEF Subscription, But, Fields
  <1>8. Typed(o) /\ Typed(sub) /\ ~o.app
    BY <1>1, <1>3, <1>6, <1>7, TypedLemma
  <1>9. Asks(o) /\ o.life = "live"
    BY <1>1, <1>7 DEF Live, Asks, But, Fields
  <1>10. Steady(mem_deref(o, e))
    <2>1. CASE ~sub.terminated
      <3>1. Open(sub) /\ o.refs = 1
        BY <1>1, <1>7, <2>1 DEF Live, Open, But, Fields
      <3>2. ASSUME NEW d \in Subscription, d.refs = 0, But(d, o, {"refs"})
            PROVE  Ending(d)
        <4>1. Typed(d)
          BY <3>2, TypedLemma
        <4>2. Asks(d)
          BY <1>9, <3>2 DEF Asks, But, Fields
        <4>3. /\ d.life = "live" /\ d.told = "no" /\ ~d.app /\ ~d.terminated
              /\ d.termwait => d.tmr = "notify"
          BY <1>1, <1>7, <1>8, <1>9, <2>1, <3>1, <3>2, <4>1 DEF Live, Open, But, Fields, Typed
        <4>4. ~Waiting(d) /\ (~d.expires \/ ~d.subscribed) => Settled(d)
          BY <1>1, <1>7, <1>8, <2>1, <3>2, <4>1 DEF Live, Waiting, Settled, But, Fields, Typed
        <4> QED BY <3>2, <4>2, <4>3, <4>4 DEF Ending, One
      <3> QED BY <1>6, <1>8, <3>1, <3>2, DropLemma
    <2>2. CASE sub.terminated /\ sub.refs = 1
      <3>1. o.terminated /\ o.refs = 1 /\ o.req = "none" /\ ~o.termwait /\ Settled(o)
        BY <1>1, <1>7, <1>8, <2>2 DEF Live, Waiting, Settled, One, But, Fields, Typed
      <3>2. o.tmr = "off" /\ WasTold(o)
        <4>1. o.tmr \in {"off", "refresh", "notify"} /\ o.tmr = sub.tmr
          BY <1>6, <1>7 DEF Subscription, But, Fields
        <4>2. sub.tmr # "refresh" /\ sub.tmr # "notify" /\ WasTold(sub)
          BY <1>1, <1>7, <1>8, <2>2, <3>1 DEF Live, But, Fields, Typed
        <4> QED BY <1>7, <1>8, <4>1, <4>2 DEF WasTold, But, Fields, Typed
      <3>3. WaitOver(o)
        BY <1>6, <1>8, <1>9, <3>1, <3>2 DEF WaitOver, One
      <3> QED BY <3>3, GivenBackLemma
    <2>3. CASE sub.terminated /\ sub.refs # 1
      <3>1. sub.refs = 2 /\ (Waiting(sub) \/ sub.stray)
        BY <1>1, <2>3 DEF Live, One
      <3>2. PICK d : d = [o EXCEPT !.refs = @ - 1]
        OBVIOUS
      <3>3. d \in Subscription /\ d.refs = 1 /\ But(d, o, {"refs"}) /\ o.refs = 2
        <4>1. o.refs = 2
          BY <1>7, <3>1 DEF But, Fields
        <4> QED BY <1>6, <3>2, <4>1, LessLemma
      <3>4. mem_deref(o, e) = d
        BY <1>9, <3>2, <3>3 DEF mem_deref
      <3>5. Typed(d)
        BY <3>3, TypedLemma
      <3>6. Asks(d)
        BY <1>9, <3>3 DEF Asks, But, Fields
      <3>7. But(d, sub, {"refs", "app"}) /\ ~d.app
        BY <1>7, <1>8, <3>3, <3>5 DEF But, Fields, Typed
      <3>8. d.life = "live" /\ d.terminated /\ (Waiting(d) \/ d.stray)
        BY <1>1, <1>8, <2>3, <3>1, <3>5, <3>7 DEF Live, Waiting, But, Fields, Typed
      <3>9. d.termwait = (d.tmr = "notify") /\ d.tmr # "refresh" /\ WasTold(d)
        BY <1>1, <1>8, <2>3, <3>5, <3>7 DEF Live, WasTold, But, Fields, Typed
      <3>10. Live(d)
        BY <3>3, <3>5, <3>6, <3>7, <3>8, <3>9 DEF Live, One, Typed
      <3> QED BY <3>3, <3>4, <3>10 DEF Steady
    <2> QED BY <1>8, <2>1, <2>2, <2>3 DEF Typed
  <1> QED BY <1>5, <1>10, KeptLemma

(* What a NOTIFY sets.                                                      *)
LEMMA NotedLemma ==
  ASSUME sub \in Subscription, Live(sub), NEW n \in {"active", "terminated"},
         n = "terminated" => Ended, NEW expiry \in BOOLEAN,
         NEW o, o = Noted(n, expiry)
  PROVE  /\ o \in Subscription /\ But(o, sub, {"dlg", "subscribed", "termconf", "tmr"})
         /\ Asks(o) /\ o.termwait = (o.tmr = "notify")
         /\ o.terminated => o.tmr # "refresh"
         /\ ~o.terminated => o.app /\ o.refs = 1 /\ o.told = "no" /\ o.failc # FailMax
         /\ n = "active" => Live(o)
  <1>0. Typed(sub)
    BY TypedLemma
  <1>1. PICK b \in BOOLEAN : b = TRUE
    OBVIOUS
  <1>2. PICK s \in BOOLEAN : s = (n = "active" /\ (sub.subscribed \/ ~sub.termconf))
    OBVIOUS
  <1>3. PICK c \in BOOLEAN : c = (sub.termconf \/ n # "active")
    OBVIOUS
  <1>4. PICK t : t = IF n = "active" /\ expiry /\ ~sub.terminated /\ ~sub.termwait
                     THEN "refresh" ELSE sub.tmr
    OBVIOUS
  <1>5. t \in {"off", "refresh", "notify"} /\ b \in BOOLEAN /\ s \in BOOLEAN /\ c \in BOOLEAN
    BY <1>1, <1>2, <1>3, <1>4 DEF Subscription
  <1>6. o = [sub EXCEPT !.dlg = b, !.subscribed = s, !.termconf = c, !.tmr = t]
    BY <1>1, <1>2, <1>3, <1>4 DEF Noted
  <1>7. o \in Subscription
    <2>1. PICK v : v = [sub EXCEPT !.dlg = b, !.subscribed = s]
      OBVIOUS
    <2>2. v \in Subscription
      BY <1>5, <2>1, Zenon DEF Subscription
    <2>3. o = [v EXCEPT !.termconf = c, !.tmr = t]
      BY <1>6, <2>1
    <2> QED BY <1>5, <2>2, <2>3, Zenon DEF Subscription
  <1>8. /\ o.subscribed = s /\ o.termconf = c /\ o.tmr = t
        /\ But(o, sub, {"dlg", "subscribed", "termconf", "tmr"})
    BY <1>6 DEF Subscription, But, Fields
  <1>9. Typed(o)
    BY <1>7, TypedLemma
  <1>10. /\ o.life = sub.life /\ o.termwait = sub.termwait /\ o.terminated = sub.terminated
         /\ o.app = sub.app /\ o.refs = sub.refs /\ o.told = sub.told
         /\ o.failc = sub.failc /\ o.req = sub.req /\ o.expires = sub.expires
         /\ o.cseq = sub.cseq /\ o.stray = sub.stray /\ o.trouble = sub.trouble
    BY <1>8 DEF But, Fields
  <1>11. o.termconf => Ended
    BY <1>0, <1>3, <1>8, <1>9 DEF Live, Asks, Typed
  <1>12. Asks(o)
    BY <1>0, <1>8, <1>9, <1>10, <1>11 DEF Live, Asks, But, Fields, Typed
  <1>13. o.termwait = (o.tmr = "notify") /\ (o.terminated => o.tmr # "refresh")
    BY <1>0, <1>4, <1>8, <1>9, <1>10 DEF Live, Typed
  <1>14. ~o.terminated => o.app /\ o.refs = 1 /\ o.told = "no" /\ o.failc # FailMax
    BY <1>0, <1>9, <1>10 DEF Live, Open, Typed
  <1>15. ASSUME n = "active" PROVE Live(o)
    <2>1. ~o.terminated => Open(o) /\ o.subscribed
      BY <1>0, <1>2, <1>3, <1>8, <1>9, <1>10, <1>14, <1>15 DEF Live, Open, Typed
    <2>2. ~o.terminated /\ o.req = "none" /\ ~o.expires => Settled(o)
      BY <1>0, <1>9, <1>10 DEF Live, Settled, Typed
    <2>3. ~o.terminated /\ o.req = "none" /\ ~o.cseq /\ ~o.stray => o.tmr # "off"
      BY <1>0, <1>4, <1>8, <1>9, <1>10 DEF Live, Typed
    <2>4. o.terminated =>
            /\ WasTold(o)
            /\ Waiting(o) => o.refs = One(o.app) + 1
            /\ ~Waiting(o) => \/ o.refs = 1 /\ o.app /\ Settled(o)
                              \/ o.stray /\ o.refs = One(o.app) + 1
      BY <1>0, <1>9, <1>10 DEF Live, WasTold, Waiting, Settled, One, Typed
    <2>5. o.life = "live"
      BY <1>10 DEF Live
    <2> QED BY <1>9, <1>12, <1>13, <2>1, <2>2, <2>3, <2>4, <2>5 DEF Live, Typed
  <1> QED BY <1>7, <1>8, <1>12, <1>13, <1>14, <1>15

(* The application is asked with a reference held, which is given back.     *)
LEMMA BorrowedLemma ==
  ASSUME NEW o \in Subscription, o.life = "live", o.refs \in {1, 2}, NEW e \in Env
  PROVE  mem_deref(Held(o), e) = o /\ Held(o).refs # 1
  <1>1. PICK h : h = Held(o)
    OBVIOUS
  <1>2. h \in Subscription /\ h.refs = o.refs + 1 /\ But(h, o, {"refs"})
    BY <1>1, HeldLemma
  <1>3. PICK d : d = [h EXCEPT !.refs = @ - 1]
    OBVIOUS
  <1>4. d \in Subscription /\ d.refs = o.refs /\ But(d, h, {"refs"})
    BY <1>2, <1>3, LessLemma
  <1>5. d = o
    <2>1. \A f \in Fields : d[f] = o[f]
      BY <1>2, <1>4 DEF But, Fields
    <2> QED BY <1>4, <2>1 DEF Fields, Subscription
  <1>6. h.life = "live" /\ d.refs # 0
    BY <1>2, <1>4 DEF But, Fields
  <1>7. mem_deref(h, e) = d
    BY <1>3, <1>6 DEF mem_deref
  <1> QED BY <1>1, <1>2, <1>5, <1>7

(* The NOTIFY that says it is over.                                         *)
LEMMA OverLemma ==
  ASSUME NEW o \in Subscription, Asks(o), o.life = "live", o.termwait = (o.tmr = "notify"),
         ~o.terminated => o.app /\ o.refs = 1 /\ o.told = "no",
         o.terminated => Live(o), Ended, NEW e \in Env, NEW y, y = Over(o, e)
  PROVE  Steady(y)
  <1>1. PICK b \in BOOLEAN : b = FALSE
    OBVIOUS
  <1>2. PICK u : u = [o EXCEPT !.termwait = b]
    OBVIOUS
  <1>3. u = [o EXCEPT !.termwait = FALSE]
    BY <1>1, <1>2
  <1>4. u \in Subscription
    BY <1>2, Zenon DEF Subscription
  <1>5. u.termwait = b /\ But(u, o, {"termwait"})
    BY <1>2 DEF Subscription, But, Fields
  <1>6. Typed(o) /\ Typed(u) /\ ~u.termwait
    BY <1>1, <1>4, <1>5, TypedLemma
  <1>7. Asks(u)
    BY <1>5, <1>6 DEF Asks, But, Fields, Typed
  <1>8. /\ u.life = o.life /\ u.terminated = o.terminated /\ u.app = o.app
        /\ u.refs = o.refs /\ u.told = o.told /\ u.req = o.req
    BY <1>5 DEF But, Fields
  <1>9. CASE ~o.terminated
    <2>1. y = sipsub_terminate(u, e)
      BY <1>3, <1>9 DEF Over
    <2>2. Ending(u) /\ u.app
      BY <1>4, <1>6, <1>7, <1>8, <1>9 DEF Ending, One, Settled, Ended, Typed
    <2> QED BY <2>1, <2>2, CloseLemma
  <1>10. CASE o.terminated /\ o.termwait
    <2>1. PICK v : v = [u EXCEPT !.tmr = "off"]
      OBVIOUS
    <2>2. y = mem_deref(v, e)
      BY <1>3, <1>10, <2>1 DEF Over
    <2>3. v \in Subscription /\ v.tmr = "off" /\ But(v, u, {"tmr"})
      BY <1>4, <2>1, TimerLemma
    <2>4. Typed(v)
      BY <2>3, TypedLemma
    <2>5. Asks(v)
      BY <1>7, <2>3 DEF Asks, But, Fields
    <2>6. /\ v.life = u.life /\ v.terminated = u.terminated /\ v.app = u.app
          /\ v.refs = u.refs /\ v.told = u.told /\ v.req = u.req /\ v.termwait = u.termwait
      BY <2>3 DEF But, Fields
    <2>7. o.req = "none" /\ WasTold(o) /\ o.refs = One(o.app) + 1
      BY <1>6, <1>10 DEF Live, Asks, Waiting, Typed
    <2>8. WasTold(v) /\ v.refs = One(v.app) + 1 /\ Settled(v)
      BY <1>6, <1>8, <2>4, <2>6, <2>7 DEF WasTold, Settled, Ended, Typed
    <2>9. WaitOver(v)
      BY <1>6, <1>8, <1>10, <2>3, <2>4, <2>5, <2>6, <2>7, <2>8 DEF WaitOver, Typed
    <2> QED BY <2>2, <2>9, GivenBackLemma
  <1>11. CASE o.terminated /\ ~o.termwait
    <2>1. y = o
      BY <1>11 DEF Over
    <2> QED BY <1>11, <2>1 DEF Steady
  <1> QED BY <1>6, <1>9, <1>10, <1>11 DEF Typed

LEMMA NotifyStep ==
  ASSUME IInv, NEW n \in {"active", "terminated"}, notify_handler(n)
  PROVE  IInv'
  <1>1. PICK e \in Env, expiry \in BOOLEAN :
          LET h == notifyh(Noted(n, expiry), e)
              o == mem_deref(h, e)
          IN sub' = IF sub.life # "live" \/ (~sub.dlg /\ ~e.usable) THEN sub
                    ELSE IF h.refs = 1 \/ n = "active" THEN o ELSE Over(o, e)
    BY DEF notify_handler
  <1>2. /\ n \in notes /\ peer' = peer /\ notes' \subseteq notes
        /\ n = "terminated" => Ended
    BY DEF notify_handler, Arrived, IInv
  <1>3. Steady(sub)
    BY <1>2 DEF IInv
  <1>4. CASE sub.life # "live" \/ (~sub.dlg /\ ~e.usable)
    <2>1. sub' = sub
      BY <1>1, <1>4
    <2> QED BY <1>2, <1>3, <2>1, KeptLemma
  <1>5. CASE sub.life = "live" /\ (sub.dlg \/ e.usable)
    <2>1. sub \in Subscription /\ Live(sub) /\ Typed(sub)
      BY <1>3, <1>5, TypedLemma DEF Steady, Gone
    <2>2. PICK o : o = Noted(n, expiry)
      OBVIOUS
    <2>3. /\ o \in Subscription /\ But(o, sub, {"dlg", "subscribed", "termconf", "tmr"})
          /\ Asks(o) /\ o.termwait = (o.tmr = "notify")
          /\ o.terminated => o.tmr # "refresh"
          /\ ~o.terminated => o.app /\ o.refs = 1 /\ o.told = "no" /\ o.failc # FailMax
          /\ n = "active" => Live(o)
      BY <1>2, <2>1, <2>2, NotedLemma
    <2>4. Typed(o)
      BY <2>3, TypedLemma
    <2>5. PICK h : h = notifyh(o, e)
      OBVIOUS
    <2>6. sub' = IF h.refs = 1 \/ n = "active" THEN mem_deref(h, e) ELSE Over(mem_deref(h, e), e)
      BY <1>1, <1>5, <2>2, <2>5
    <2>7. /\ o.life = sub.life /\ o.terminated = sub.terminated /\ o.app = sub.app
          /\ o.refs = sub.refs /\ o.told = sub.told /\ o.req = sub.req
          /\ o.termwait = sub.termwait /\ o.expires = sub.expires
          /\ o.stray = sub.stray /\ o.trouble = sub.trouble
      BY <2>3 DEF But, Fields
    <2>8. CASE e.release /\ o.app /\ ~o.terminated
      <3>1. PICK b \in BOOLEAN : b = FALSE
        OBVIOUS
      <3>2. PICK k : k = Held(o)
        OBVIOUS
      <3>3. k \in Subscription /\ k.refs = o.refs + 1 /\ But(k, o, {"refs"})
        BY <2>3, <2>8, <3>2, HeldLemma
      <3>4. PICK g : g = [k EXCEPT !.app = b]
        OBVIOUS
      <3>5. g \in Subscription
        BY <3>3, <3>4, Zenon DEF Subscription
      <3>6. g.app = b /\ But(g, k, {"app"})
        BY <3>3, <3>4 DEF Subscription, But, Fields
      <3>7. g.refs = 2 /\ g.life = "live"
        BY <1>5, <2>3, <2>7, <2>8, <3>3, <3>6 DEF But, Fields
      <3>8. PICK d : d = [g EXCEPT !.refs = @ - 1]
        OBVIOUS
      <3>9. d \in Subscription /\ d.refs = 1 /\ But(d, g, {"refs"})
        BY <3>5, <3>7, <3>8, LessLemma
      <3>10. h = d
        <4>1. g = [Held(o) EXCEPT !.app = FALSE]
          BY <3>1, <3>2, <3>4
        <4>2. h = mem_deref(g, e)
          BY <2>5, <2>8, <4>1 DEF notifyh
        <4> QED BY <3>7, <3>8, <3>9, <4>2 DEF mem_deref
      <3>11. But(d, o, {"refs", "app"})
        BY <3>3, <3>6, <3>9 DEF But, Fields
      <3>12. ~d.app
        BY <3>1, <3>6, <3>9, TypedLemma DEF But, Fields, Typed
      <3>13. ASSUME NEW c \in Subscription, c.refs = 0, But(c, d, {"refs"})
             PROVE  Ending(c)
        <4>1. But(c, o, {"refs", "app"}) /\ c.app = d.app
          BY <3>11, <3>13 DEF But, Fields
        <4>2. Typed(c) /\ Typed(d)
          BY <3>9, <3>13, TypedLemma
        <4>3. Asks(c)
          BY <2>3, <4>1 DEF Asks, But, Fields
        <4>4. /\ c.life = "live" /\ c.told = "no" /\ ~c.app /\ ~c.terminated
              /\ c.termwait => c.tmr = "notify"
          BY <1>5, <2>3, <2>4, <2>7, <2>8, <3>12, <4>1, <4>2 DEF But, Fields, Typed
        <4>5. c.req = o.req /\ c.expires = o.expires /\ c.subscribed = o.subscribed
              /\ c.trouble = o.trouble /\ c.termwait = o.termwait
          BY <4>1 DEF But, Fields
        <4>6. CASE n = "active"
          <5>1. Live(o)
            BY <2>3, <4>6
          <5>2. ~Waiting(c) /\ (~c.expires \/ ~c.subscribed) => Settled(c)
            BY <2>4, <2>8, <4>2, <4>5, <5>1 DEF Live, Waiting, Settled, Typed
          <5> QED BY <3>13, <4>3, <4>4, <5>2 DEF Ending, One
        <4>7. CASE n = "terminated"
          <5>1. Settled(c)
            BY <1>2, <4>7 DEF Settled, Ended
          <5> QED BY <3>13, <4>3, <4>4, <5>1 DEF Ending, One
        <4> QED BY <4>6, <4>7
      <3>14. Steady(mem_deref(d, e))
        BY <3>9, <3>12, <3>13, DropLemma
      <3> QED BY <1>2, <2>6, <3>9, <3>10, <3>14, KeptLemma
    <2>9. CASE ~(e.release /\ o.app /\ ~o.terminated)
      <3>1. h = Held(o)
        BY <2>5, <2>9 DEF notifyh
      <3>2. o.life = "live" /\ o.refs \in {1, 2}
        BY <1>5, <2>1, <2>7 DEF Live, Open, Waiting, One
      <3>3. mem_deref(h, e) = o /\ h.refs # 1
        BY <2>3, <3>1, <3>2, BorrowedLemma
      <3>4. CASE n = "active"
        <4>1. sub' = o /\ Steady(o)
          BY <2>3, <2>6, <3>3, <3>4 DEF Steady
        <4> QED BY <1>2, <4>1, KeptLemma
      <3>5. CASE n = "terminated"
        <4>1. sub' = Over(o, e)
          BY <2>6, <3>3, <3>5
        <4>2. ASSUME o.terminated PROVE Live(o)
          BY <2>1, <2>3, <2>4, <2>7, <3>2, <4>2 DEF Live, WasTold, Waiting, Settled, One, Typed
        <4>3. Steady(Over(o, e))
          BY <1>2, <2>3, <3>2, <3>5, <4>2, OverLemma
        <4> QED BY <1>2, <4>1, <4>3, KeptLemma
      <3> QED BY <3>4, <3>5
    <2> QED BY <2>8, <2>9
  <1> QED BY <1>4, <1>5

LEMMA NotifierStep ==
  ASSUME IInv, Notifier
  PROVE  IInv'
  <1>1. sub \in Subscription /\ Live(sub) /\ Typed(sub) /\ sub.req # "none"
    BY UnusedLemma, TypedLemma DEF IInv, Steady, Gone, Notifier
  <1>2. PICK a \in Answers :
          /\ a = "2xx" => peer # "ended"
          /\ a = "481" => peer = "ended"
          /\ sub' = [sub EXCEPT !.answer = a]
          /\ peer' = IF a # "2xx" THEN peer
                     ELSE IF sub.req = "unSUBSCRIBE" THEN "ended" ELSE "has"
          /\ notes' = IF peer' = "ended" /\ peer # "ended"
                      THEN notes \cup {"terminated"} ELSE notes
    BY DEF Notifier
  <1>3. peer \in {"none", "has", "ended"} /\ notes \subseteq {"active", "terminated"}
    BY DEF IInv
  <1>4. peer' \in {"none", "has", "ended"} /\ notes' \subseteq {"active", "terminated"}
    BY <1>2, <1>3
  <1>5. Ended => Ended'
    BY <1>2 DEF Ended
  <1>6. ("terminated" \in notes => Ended)'
    BY <1>2, <1>5 DEF IInv, Ended
  <1>7. sub' \in Subscription
    <2>1. a \in Answers \cup {"none"}
      BY <1>2
    <2> QED BY <1>1, <1>2, <2>1, Zenon DEF Subscription
  <1>8. sub'.answer = a /\ But(sub', sub, {"answer"})
    BY <1>1, <1>2 DEF Subscription, But, Fields
  <1>9. PICK o : o = sub'
    OBVIOUS
  <1>10. Typed(o) /\ o.answer = a /\ But(o, sub, {"answer"})
    BY <1>7, <1>8, <1>9, TypedLemma
  <1>11. Asks(o)'
    <2>1. /\ o.req \in {"none", "REFER", "SUBSCRIBE", "unSUBSCRIBE"}
          /\ o.req \in {"REFER", "SUBSCRIBE"} => o.expires
          /\ o.req = "unSUBSCRIBE" => ~o.expires
          /\ o.refer => o.expires /\ o.cseq
          /\ o.req # "none" => o.loops # LoopMax
          /\ o.termwait => o.req = "none"
          /\ o.termconf \/ o.termwait => Ended
      BY <1>1, <1>10 DEF Live, Asks, But, Fields, Typed
    <2>2. o.answer = "481" => Ended'
      BY <1>2, <1>5, <1>10 DEF Ended
    <2>3. o.req = "unSUBSCRIBE" /\ o.answer = "2xx" => Ended'
      <3>1. o.req = sub.req
        BY <1>10 DEF But, Fields
      <3> QED BY <1>2, <1>10, <3>1 DEF Ended
    <2> QED BY <1>5, <2>1, <2>2, <2>3 DEF Asks
  <1>12. /\ o.life = sub.life /\ o.termwait = sub.termwait /\ o.terminated = sub.terminated
         /\ o.app = sub.app /\ o.refs = sub.refs /\ o.told = sub.told /\ o.tmr = sub.tmr
         /\ o.failc = sub.failc /\ o.req = sub.req /\ o.subscribed = sub.subscribed
         /\ o.fresh = sub.fresh /\ o.dlg = sub.dlg /\ o.termconf = sub.termconf
    BY <1>10 DEF But, Fields
  <1>13. Live(o)'
    BY <1>1, <1>10, <1>11, <1>12 DEF Live, Open, WasTold, Waiting, Typed
  <1>14. Live(sub)'
    BY <1>9, <1>13 DEF Live, Asks, Open, WasTold, Waiting, Settled, Ended
  <1> QED BY <1>4, <1>6, <1>7, <1>14 DEF IInv, Steady

LEMMA NotifiesStep ==
  ASSUME IInv, Notifies
  PROVE  IInv'
  <1>1. PICK n \in {"active", "terminated"} :
          /\ notes' = notes \cup {n}
          /\ peer' = IF n = "active" THEN peer ELSE "ended"
    BY DEF Notifies
  <1>2. sub' = sub /\ peer = "has"
    BY DEF Notifies
  <1>3. Steady(sub)
    BY <1>2 DEF IInv
  <1>4. (peer \in {"none", "has", "ended"} /\ notes \subseteq {"active", "terminated"})'
    BY <1>1 DEF IInv
  <1>5. ("terminated" \in notes => Ended)'
    BY <1>1 DEF IInv, Ended
  <1>6. (Ended => Ended') /\ (peer' # "has" \/ peer' = peer)
    BY <1>1, <1>2 DEF Ended
  <1>7. Steady(sub)'
    <2>1. Asks(sub) => Asks(sub)'
      BY <1>2, <1>6 DEF Asks
    <2>2. Settled(sub) => Settled(sub)'
      BY <1>2, <1>6 DEF Settled
    <2> QED BY <1>2, <1>3, <2>1, <2>2 DEF Steady, Live, Gone, Open, WasTold, Waiting
  <1> QED BY <1>4, <1>5, <1>7 DEF IInv

LEMMA LostStep ==
  ASSUME IInv, Lost
  PROVE  IInv'
  <1>1. sub' = sub /\ peer' = peer /\ notes' \subseteq notes /\ notes # {}
    BY DEF Lost
  <1>2. Steady(sub)
    BY <1>1 DEF IInv
  <1> QED BY <1>1, <1>2, KeptLemma

LEMMA InitLemma ==
  ASSUME Init
  PROVE  IInv
  BY DEF Init, IInv

LEMMA StepLemma ==
  ASSUME IInv, [Next]_vars
  PROVE  IInv'
  <1>1. CASE Next
    BY <1>1, AllocStep, TimerStep, NotifyTimeoutStep, AnsweredStep, ReleaseStep,
       NotifyStep, NotifierStep, NotifiesStep, LostStep DEF Next
  <1>2. CASE UNCHANGED vars
    BY <1>2 DEF vars, IInv, Steady, Live, Gone, Asks, Open, WasTold, Waiting, Settled, Ended
  <1> QED BY <1>1, <1>2

-----------------------------------------------------------------------------
(* The theorems.                                                            *)

(* The inductive invariant: between two steps of a subscription, what holds *)
(* it, what it waits for, what it has told and what its notifier keeps      *)
(* agree.                                                                   *)
THEOREM Invariance == Spec => []IInv
  <1>1. Init => IInv
    BY InitLemma
  <1>2. IInv /\ [Next]_vars => IInv'
    BY StepLemma
  <1> QED BY <1>1, <1>2, PTL DEF Spec

(* The count of references of sipsub is what its holders add up to, it is   *)
(* not used once it was freed, and its failures and refusals stay in range. *)
THEOREM MemorySafe == Spec => []MemorySafety
  <1>1. IInv => MemorySafety
    <2> SUFFICES ASSUME IInv PROVE MemorySafety
      OBVIOUS
    <2>1. TypeOK
      BY UnusedLemma DEF IInv, Steady, TypeOK
    <2>2. Typed(sub)
      BY <2>1, TypedLemma DEF TypeOK
    <2>3. RefBalance
      BY <2>2, UnusedLemma DEF IInv, Steady, Live, Gone, Open, One, Waiting, Waits,
         RefBalance, Typed
    <2>4. NoUseAfterFree
      BY <2>2, UnusedLemma DEF IInv, Steady, Live, Gone, NoUseAfterFree, Typed
    <2> QED BY <2>1, <2>3, <2>4 DEF MemorySafety
  <1> QED BY <1>1, Invariance, PTL

(* A subscription in use asks for one thing at a time and is never left     *)
(* without a request or a timer to refresh it; the timer that waits for the *)
(* last NOTIFY is not taken for a refresh.                                  *)
THEOREM AlwaysRefreshed == Spec => []NeverDormant
  <1>1. IInv => NeverDormant
    <2> SUFFICES ASSUME IInv, sub.life = "live" PROVE NeverDormant
      BY DEF NeverDormant
    <2>1. Live(sub) /\ Typed(sub)
      BY UnusedLemma, TypedLemma DEF IInv, Steady, Gone
    <2> QED BY <2>1 DEF Live, Asks, NeverDormant, Typed
  <1> QED BY <1>1, Invariance, PTL

(* The application is told of the end once, and not after it let go; the    *)
(* notifier is not left with a subscription nobody refreshes.               *)
THEOREM EndKnownToBoth == Spec => []EndIsSettled
  <1>1. IInv => EndIsSettled
    <2> SUFFICES ASSUME IInv PROVE EndIsSettled
      OBVIOUS
    <2>1. Typed(sub)
      BY UnusedLemma, TypedLemma DEF IInv, Steady
    <2>2. ToldOnce
      BY <2>1, UnusedLemma DEF IInv, Steady, Live, Gone, Open, WasTold, ToldOnce, Typed
    <2>3. LeavesNoSubscription
      BY <2>1, UnusedLemma DEF IInv, Steady, Live, Gone, Settled, LeavesNoSubscription, Typed
    <2> QED BY <2>2, <2>3 DEF EndIsSettled
  <1> QED BY <1>1, Invariance, PTL
=============================================================================
