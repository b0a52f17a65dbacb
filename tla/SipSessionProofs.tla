-------------------------- MODULE SipSessionProofs --------------------------
(***************************************************************************)
(* Theorems about SipSession, for every number of INFO requests, every      *)
(* bound on sequence numbers and replies, and every loop limit.             *)
(***************************************************************************)
EXTENDS SipSession, TLAPS

(* What the teardown stage says about the object, n being how many of       *)
(* replyl and requestl are non-empty.                                       *)
Staged(o, n) ==
  /\ o \in Object
  /\ o.req # "several"
  /\ o.terminated # 2 => o.req # "BYE" /\ o.bye = "no"
  /\ o.terminated = 2 => n = 0 /\ o.req \in {"none", "BYE"}

(* The references that the transactions waited for should hold.             *)
Due(o, n) ==
  IF o.terminated = 0 THEN 0
  ELSE IF o.terminated = 1 THEN Waits(o, n) ELSE One(o.req = "BYE")

(* A session in use, and one that has been freed; a says that the           *)
(* application has its own reference.                                       *)
Held(o, a, n) ==
  /\ o.life = "live"
  /\ o.refs > 0
  /\ o.refs = One(a) + Due(o, n)
  /\ o.terminated = 0 => a

Gone(o, a, n) ==
  o.life = "freed" /\ ~a /\ n = 0 /\ o.req = "none" /\ o.terminated = 2

Sound(o, a, n) == Staged(o, n) /\ (Held(o, a, n) \/ Gone(o, a, n))

(* A BYE is attempted on the way from o to d if one is due.                 *)
HangsUp(o, d, hangup) ==
  /\ o.terminated = 2 => d.terminated = 2 /\ d.bye = o.bye
  /\ o.terminated # 2 /\ d.terminated = 2 /\ hangup => d.bye # "no"

LEMMA WaitsNat ==
  ASSUME NEW o, NEW n \in 0..2
  PROVE  /\ Waits(o, n) \in Nat
         /\ Waits(o, n) = 0 <=> o.req = "none" /\ n = 0
  BY DEF Waits, One

LEMMA TermwaitLemma ==
  ASSUME NEW o \in Object, NEW n \in 0..2, NEW x, x = termwait(o, n)
  PROVE  /\ x \in Object
         /\ x.life = o.life /\ x.req = o.req /\ x.bye = o.bye
         /\ x.refs = o.refs + Waits(o, n) /\ x.terminated = 1
  <1>1. o.refs + Waits(o, n) \in Nat /\ 1 \in 0..2
    BY WaitsNat DEF Object
  <1>2. x \in Object
    BY <1>1, Zenon DEF termwait, Object
  <1> QED BY <1>2 DEF termwait, Object

LEMMA TerminateLemma ==
  ASSUME NEW o \in Object, NEW hangup \in BOOLEAN, NEW e,
         NEW x, x = terminate(o, hangup, e)
  PROVE  /\ x \in Object
         /\ x.life = o.life /\ x.terminated = 2
         /\ \/ x.refs = o.refs /\ x.req = o.req
            \/ x.refs = o.refs + 1 /\ o.req = "none" /\ x.req = "BYE"
         /\ o.req = "none" /\ hangup => x.bye # "no"
  <1>1. o.refs + 1 \in Nat /\ 2 \in 0..2 /\ 0 \in 0..LoopMax
    BY BoundsAssumption DEF Object
  <1>2. x \in Object
    BY <1>1, Zenon DEF terminate, Object, Methods
  <1> QED BY <1>2 DEF terminate, Object

LEMMA TermwaitOrTerminateLemma ==
  ASSUME NEW o \in Object, NEW n \in 0..2, NEW hangup \in BOOLEAN, NEW e,
         NEW x, x = TermwaitOrTerminate(o, n, hangup, e),
         o.req # "several", o.req # "BYE", o.bye = "no"
  PROVE  /\ Staged(x, n) /\ x.life = o.life /\ x.terminated # 0
         /\ x.refs = o.refs + Due(x, n)
         /\ x.terminated = 1 => Waits(x, n) > 0
         /\ x.terminated = 2 /\ hangup => x.bye # "no"
  <1>1. PICK w : w = termwait(o, n)
    OBVIOUS
  <1>2. /\ w \in Object /\ w.life = o.life /\ w.req = o.req /\ w.bye = o.bye
        /\ w.refs = o.refs + Waits(o, n) /\ w.terminated = 1
    BY <1>1, TermwaitLemma
  <1>3. CASE Waits(o, n) > 0
    <2>1. x = w
      BY <1>1, <1>3 DEF TermwaitOrTerminate
    <2>2. Due(x, n) = Waits(o, n)
      BY <1>2, <2>1, WaitsNat DEF Due, One, Waits
    <2>3. x \in Object /\ x.req # "several" /\ x.req # "BYE" /\ x.bye = "no"
      BY <1>2, <2>1
    <2>4. x.terminated = 1
      BY <1>2, <2>1
    <2>5. Staged(x, n)
      BY <2>3, <2>4 DEF Staged
    <2>6. x.life = o.life /\ x.refs = o.refs + Due(x, n)
      BY <1>2, <2>1, <2>2
    <2>7. Waits(x, n) > 0
      BY <1>2, <1>3, <2>1 DEF Waits
    <2> QED BY <2>4, <2>5, <2>6, <2>7
  <1>4. CASE ~(Waits(o, n) > 0)
    <2>1. x = terminate(w, hangup, e)
      BY <1>1, <1>4 DEF TermwaitOrTerminate
    <2>2. w.req = "none" /\ n = 0 /\ w.refs = o.refs
      BY <1>2, <1>4, WaitsNat DEF Object
    <2>3. /\ x \in Object /\ x.life = o.life /\ x.terminated = 2
          /\ \/ x.refs = o.refs /\ x.req = "none"
             \/ x.refs = o.refs + 1 /\ x.req = "BYE"
          /\ hangup => x.bye # "no"
      BY <1>2, <2>1, <2>2, TerminateLemma
    <2>4. Due(x, n) = IF x.req = "BYE" THEN 1 ELSE 0
      BY <2>3 DEF Due, One
    <2>5. x.refs = o.refs + Due(x, n)
      BY <2>3, <2>4 DEF Object
    <2>6. Staged(x, n)
      <3>1. x.req \in {"none", "BYE"} /\ x.req # "several"
        BY <2>3
      <3> QED BY <2>2, <2>3, <3>1 DEF Staged
    <2> QED BY <2>3, <2>5, <2>6
  <1> QED BY <1>3, <1>4

LEMMA DerefLemma ==
  ASSUME NEW o, NEW n \in 0..2, NEW hangup \in BOOLEAN, NEW e, NEW a \in BOOLEAN,
         NEW d, d = mem_deref(o, n, hangup, e),
         Staged(o, n), o.life = "live", o.refs = One(a) + Due(o, n) + 1,
         o.terminated = 0 => ~a
  PROVE  Sound(d, a, n) /\ d.terminated # 0 /\ HangsUp(o, d, hangup)
  <1>1. o \in Object /\ o.req # "several" /\ o.refs \in Nat /\ o.terminated \in 0..2
    BY DEF Staged, Object
  <1>2. Due(o, n) \in Nat /\ One(a) \in Nat
    BY WaitsNat DEF Due, One
  <1>3. One(a) = 0 <=> ~a
    BY DEF One
  <1>4. CASE o.refs > 1
    <2>1. d = [o EXCEPT !.refs = o.refs - 1]
      BY <1>4 DEF mem_deref
    <2>2. o.refs - 1 \in Nat
      BY <1>1, <1>4
    <2>3. d \in Object
      BY <2>1, <2>2, <1>1, Zenon DEF Object
    <2>4. /\ d.life = "live" /\ d.refs = o.refs - 1 /\ d.req = o.req
          /\ d.terminated = o.terminated /\ d.bye = o.bye
      BY <2>1, <1>1 DEF Object
    <2>5. Due(d, n) = Due(o, n)
      BY <2>4 DEF Due, Waits
    <2>6. o.terminated # 0
      BY <1>3, <1>4 DEF Due
    <2>7. Staged(d, n)
      BY <2>3, <2>4 DEF Staged
    <2>8. Held(d, a, n)
      BY <1>1, <1>2, <1>4, <2>4, <2>5, <2>6 DEF Held
    <2>9. HangsUp(o, d, hangup)
      BY <2>4 DEF HangsUp, Staged
    <2> QED BY <2>4, <2>6, <2>7, <2>8, <2>9 DEF Sound
  <1>5. CASE ~(o.refs > 1)
    <2>1. o.refs = 1 /\ ~a /\ Due(o, n) = 0
      BY <1>1, <1>2, <1>3, <1>5
    <2>2. PICK z : z = [o EXCEPT !.refs = 0]
      OBVIOUS
    <2>3. z \in Object
      BY <2>2, <1>1, 0 \in Nat, Zenon DEF Object
    <2>4. /\ z.life = "live" /\ z.refs = 0 /\ z.req = o.req
          /\ z.terminated = o.terminated /\ z.bye = o.bye
      BY <2>2, <1>1 DEF Object
    <2>5. PICK x : x = destructor(z, n, hangup, e)
      OBVIOUS
    <2>6. d = IF x.refs > 0 THEN x ELSE [x EXCEPT !.life = "freed"]
      BY <1>5, <2>2, <2>5 DEF mem_deref
    <2>7. /\ Staged(x, n) /\ x.life = "live" /\ x.terminated # 0
          /\ x.refs = Due(x, n) /\ HangsUp(o, x, hangup)
          /\ x.terminated = 1 => Waits(x, n) > 0
      <3>1. CASE o.terminated = 0
        <4>1. x = TermwaitOrTerminate(z, n, hangup, e)
          BY <2>4, <2>5, <3>1 DEF destructor
        <4>2. z.req # "several" /\ z.req # "BYE" /\ z.bye = "no"
          BY <2>4, <3>1 DEF Staged
        <4>3. /\ Staged(x, n) /\ x.life = z.life /\ x.terminated # 0
              /\ x.refs = z.refs + Due(x, n)
              /\ x.terminated = 1 => Waits(x, n) > 0
              /\ x.terminated = 2 /\ hangup => x.bye # "no"
          BY <2>3, <4>1, <4>2, TermwaitOrTerminateLemma
        <4>4. Due(x, n) \in Nat
          BY WaitsNat DEF Due, One
        <4> QED BY <2>4, <3>1, <4>3, <4>4 DEF HangsUp
      <3>2. CASE o.terminated = 1
        <4>1. x = terminate(z, hangup, e)
          BY <2>4, <2>5, <3>2 DEF destructor
        <4>2. o.req = "none" /\ n = 0
          BY <2>1, <3>2, WaitsNat DEF Due
        <4>3. /\ x \in Object /\ x.life = "live" /\ x.terminated = 2
              /\ \/ x.refs = 0 /\ x.req = "none"
                 \/ x.refs = 1 /\ x.req = "BYE"
              /\ hangup => x.bye # "no"
          BY <2>3, <2>4, <4>1, <4>2, TerminateLemma
        <4>4. x.refs = Due(x, n)
          BY <4>3 DEF Due, One
        <4>5. Staged(x, n)
          BY <4>2, <4>3 DEF Staged
        <4> QED BY <3>2, <4>3, <4>4, <4>5 DEF HangsUp
      <3>3. CASE o.terminated = 2
        <4>1. x = z
          BY <2>4, <2>5, <3>3 DEF destructor
        <4>2. Due(x, n) = Due(o, n)
          BY <2>4, <4>1 DEF Due, Waits
        <4>3. Staged(x, n)
          BY <2>3, <2>4, <4>1 DEF Staged
        <4> QED BY <2>1, <2>4, <3>3, <4>1, <4>2, <4>3 DEF HangsUp
      <3> QED BY <1>1, <3>1, <3>2, <3>3
    <2>8. x \in Object /\ x.refs \in Nat /\ x.terminated \in 0..2
      BY <2>7 DEF Staged, Object
    <2>9. CASE x.refs > 0
      <3>1. d = x
        BY <2>6, <2>9
      <3>2. Held(d, a, n)
        BY <1>3, <2>1, <2>7, <2>8, <2>9, <3>1 DEF Held
      <3> QED BY <2>7, <3>1, <3>2 DEF Sound
    <2>10. CASE ~(x.refs > 0)
      <3>1. d = [x EXCEPT !.life = "freed"]
        BY <2>6, <2>10
      <3>2. d \in Object
        BY <2>8, <3>1, Zenon DEF Object
      <3>3. /\ d.life = "freed" /\ d.refs = x.refs /\ d.req = x.req
            /\ d.terminated = x.terminated /\ d.bye = x.bye
        BY <2>8, <3>1 DEF Object
      <3>4. x.refs = 0 /\ Due(x, n) = 0
        BY <2>7, <2>8, <2>10
      <3>5. x.terminated = 2 /\ n = 0 /\ x.req = "none"
        <4>1. x.terminated # 1
          BY <2>7, <3>4 DEF Due
        <4> QED BY <2>7, <2>8, <3>4, <4>1 DEF Due, One, Staged
      <3>6. Staged(d, n)
        BY <2>7, <3>2, <3>3 DEF Staged
      <3>7. Gone(d, a, n)
        BY <2>1, <3>3, <3>5 DEF Gone
      <3>8. HangsUp(o, d, hangup)
        BY <2>7, <3>3 DEF HangsUp
      <3> QED BY <2>7, <3>3, <3>6, <3>7, <3>8 DEF Sound
    <2> QED BY <2>9, <2>10
  <1> QED BY <1>4, <1>5

LEMMA CloseDownLemma ==
  ASSUME NEW o, NEW n \in 0..2, NEW hangup \in BOOLEAN, NEW e \in Env,
         NEW a \in BOOLEAN, a <=> ~e.release,
         NEW d, d = sipsess_terminate(o, n, hangup, e),
         Staged(o, n), o.life = "live", o.terminated = 0, o.refs = 1
  PROVE  Sound(d, a, n) /\ d.terminated # 0 /\ HangsUp(o, d, hangup)
  <1>1. PICK x : x = TermwaitOrTerminate(o, n, hangup, e)
    OBVIOUS
  <1>2. /\ Staged(x, n) /\ x.life = "live" /\ x.terminated # 0
        /\ x.refs = 1 + Due(x, n)
        /\ x.terminated = 2 /\ hangup => x.bye # "no"
    BY <1>1, TermwaitOrTerminateLemma DEF Staged
  <1>3. Due(x, n) \in Nat
    BY WaitsNat DEF Due, One
  <1>4. CASE e.release
    <2>1. d = mem_deref(x, n, hangup, e)
      BY <1>1, <1>4 DEF sipsess_terminate
    <2>2. x.refs = One(a) + Due(x, n) + 1
      BY <1>2, <1>3, <1>4 DEF One
    <2>3. Sound(d, a, n) /\ d.terminated # 0 /\ HangsUp(x, d, hangup)
      BY <1>2, <2>1, <2>2, DerefLemma
    <2>4. HangsUp(o, d, hangup)
      BY <1>2, <2>3 DEF HangsUp
    <2> QED BY <2>3, <2>4
  <1>5. CASE ~e.release
    <2>1. d = x
      BY <1>1, <1>5 DEF sipsess_terminate
    <2>2. Held(d, a, n)
      BY <1>2, <1>3, <1>5, <2>1 DEF Held, One
    <2>3. HangsUp(o, d, hangup)
      BY <1>2, <2>1 DEF HangsUp
    <2> QED BY <1>2, <2>1, <2>2, <2>3 DEF Sound
  <1>6. e.release \in BOOLEAN
    BY DEF Env
  <1> QED BY <1>4, <1>5, <1>6

-----------------------------------------------------------------------------
(* The inductive invariant.                                                 *)

Blank ==
  /\ obj.life = "none" /\ obj.terminated = 0
  /\ ~appref /\ ~confirmed /\ replies = {} /\ ~HasInfo(info) /\ ~st /\ ~tmr

Core ==
  /\ Staged(obj, Pending)
  /\ Blank \/ Held(obj, appref, Pending) \/ Gone(obj, appref, Pending)
  /\ obj.terminated # 0 => ~st /\ ~tmr
  /\ confirmed => established \/ replies # {}
  /\ obj.terminated = 2 /\ confirmed => obj.bye # "no" \/ peerterm

IInv == TypeOK /\ Core

(* The part of the state that the end of a handler assigns.                 *)
Ended ==
  /\ obj \in Object /\ st \in BOOLEAN /\ tmr \in BOOLEAN
  /\ appref \in BOOLEAN /\ estabs \in Nat /\ closes \in Nat
  /\ Core

(* What a handler may do to the history of the call.                        *)
Remembers(o) ==
  /\ established' \in BOOLEAN /\ peerterm' \in BOOLEAN
  /\ confirmed' => established' \/ replies' # {}
  /\ o.terminated = 2 /\ confirmed' => o.bye # "no" \/ peerterm'

LEMMA PendingType == Pending \in 0..2 /\ Pending' \in 0..2
  BY DEF Pending, One

LEMMA PendingZero ==
  /\ Pending = 0 <=> replies = {} /\ ~HasInfo(info)
  /\ Pending' = 0 <=> replies' = {} /\ ~HasInfo(info')
  BY DEF Pending, One

LEMMA BecomesLemma ==
  ASSUME TypeOK, NEW o, NEW d, Becomes(d), Sound(d, appref', Pending'),
         HangsUp(o, d, Hangup'), Remembers(o), Staged(o, Pending'),
         appref' \in BOOLEAN, estabs' \in Nat, closes' \in Nat
  PROVE  Ended'
  <1>1. /\ obj' = d /\ st' \in BOOLEAN /\ tmr' \in BOOLEAN
        /\ d.terminated # 0 => ~st' /\ ~tmr'
    BY DEF Becomes, TypeOK
  <1>2. d.terminated = 2 /\ confirmed' => d.bye # "no" \/ peerterm'
    <2>1. CASE o.terminated = 2
      BY <2>1 DEF HangsUp, Remembers
    <2>2. CASE o.terminated # 2
      <3>1. d.terminated = 2 => replies' = {}
        BY PendingZero DEF Sound, Staged
      <3>2. d.terminated = 2 /\ confirmed' => Hangup' \/ peerterm'
        BY <3>1 DEF Remembers, Hangup
      <3> QED BY <2>2, <3>2 DEF HangsUp
    <2> QED BY <2>1, <2>2
  <1>3. Staged(d, Pending') /\ d \in Object
    BY DEF Sound, Staged
  <1>4. Core'
    BY <1>1, <1>2, <1>3 DEF Core, Sound, Remembers
  <1> QED BY <1>1, <1>3, <1>4 DEF Ended

LEMMA HangupType ==
  ASSUME established' \in BOOLEAN, peerterm' \in BOOLEAN
  PROVE  Hangup' \in BOOLEAN
  BY DEF Hangup

LEMMA CloseLemma ==
  ASSUME TypeOK, NEW o, NEW e \in Env, Close(o, e), Remembers(o), Staged(o, Pending'),
         o.life = "live", o.terminated = 0, o.refs = 1, appref
  PROVE  Ended'
  <1>1. PICK d : d = sipsess_terminate(o, Pending', Hangup', e)
    OBVIOUS
  <1>2. Becomes(d) /\ appref' \in BOOLEAN /\ (appref' <=> ~e.release)
    BY <1>1 DEF Close, TypeOK, Env
  <1>3. estabs' \in Nat /\ closes' \in Nat
    BY DEF Close, TypeOK
  <1>4. Sound(d, appref', Pending') /\ HangsUp(o, d, Hangup')
    BY <1>1, <1>2, CloseDownLemma, PendingType, HangupType DEF Remembers
  <1> QED BY <1>2, <1>3, <1>4, BecomesLemma

LEMMA DerefEndLemma ==
  ASSUME TypeOK, NEW o, NEW e \in Env, Deref(o, e), Remembers(o), Staged(o, Pending'),
         o.life = "live", o.terminated # 0,
         o.refs = One(appref) + Due(o, Pending') + 1
  PROVE  Ended'
  <1>1. PICK d : d = mem_deref(o, Pending', Hangup', e)
    OBVIOUS
  <1>2. Becomes(d) /\ appref' = appref /\ estabs' = estabs /\ closes' = closes
    BY <1>1 DEF Deref, app
  <1>3. appref \in BOOLEAN /\ estabs \in Nat /\ closes \in Nat
    BY DEF TypeOK
  <1>4. Sound(d, appref, Pending') /\ HangsUp(o, d, Hangup')
    BY <1>1, <1>3, DerefLemma, PendingType, HangupType DEF Remembers
  <1> QED BY <1>2, <1>3, <1>4, BecomesLemma

(* The object stays as the handler left it, or the application drops it.    *)
LEMMA CallbackLemma ==
  ASSUME TypeOK, NEW o, NEW e \in Env, Callback(o, e), Remembers(o), Staged(o, Pending'),
         o.life = "live", appref, o.refs = 1 + Due(o, Pending'),
         estabs' \in Nat, closes' \in Nat
  PROVE  Ended'
  <1>1. Due(o, Pending') \in Nat
    BY WaitsNat, PendingType DEF Due, One
  <1>2. appref' \in BOOLEAN /\ (appref' <=> ~e.release)
    BY DEF Callback, TypeOK, Env
  <1>3. CASE e.release
    <2>1. PICK d : d = mem_deref(o, Pending', Hangup', e)
      OBVIOUS
    <2>2. Becomes(d)
      BY <1>3, <2>1 DEF Callback
    <2>3. o.refs = One(appref') + Due(o, Pending') + 1
      BY <1>1, <1>2, <1>3 DEF One
    <2>4. Sound(d, appref', Pending') /\ HangsUp(o, d, Hangup')
      BY <1>2, <1>3, <2>1, <2>3, DerefLemma, PendingType, HangupType DEF Remembers
    <2> QED BY <1>2, <2>2, <2>4, BecomesLemma
  <1>4. CASE ~e.release
    <2>1. Becomes(o)
      BY <1>4 DEF Callback
    <2>2. Held(o, appref', Pending')
      BY <1>1, <1>2, <1>4 DEF Held, One
    <2>3. HangsUp(o, o, Hangup')
      BY DEF HangsUp
    <2> QED BY <1>2, <2>1, <2>2, <2>3, BecomesLemma DEF Sound
  <1>5. e.release \in BOOLEAN
    BY DEF Env
  <1> QED BY <1>3, <1>4, <1>5

LEMMA KeepLemma ==
  ASSUME TypeOK, Core, Live, NEW o, Remembers(o), Staged(o, Pending'),
         obj' = o, UNCHANGED app, st' \in BOOLEAN, tmr' \in BOOLEAN,
         o.life = "live", o.refs = obj.refs, o.terminated = obj.terminated,
         o.refs = One(appref) + Due(o, Pending'),
         o.terminated # 0 => ~st' /\ ~tmr'
  PROVE  Ended'
  <1>1. Held(obj, appref, Pending)
    BY DEF Core, Live, Blank, Gone
  <1>2. appref' = appref /\ estabs' = estabs /\ closes' = closes
    BY DEF app
  <1>3. Held(o, appref', Pending')
    BY <1>1, <1>2 DEF Held
  <1>4. Core'
    BY <1>3 DEF Core, Remembers
  <1> QED BY <1>2, <1>4 DEF Ended, Staged, TypeOK

(* Requests change the object in its handle and its failures only.          *)
Same(x, o) ==
  /\ x \in Object
  /\ x.life = o.life /\ x.refs = o.refs /\ x.terminated = o.terminated
  /\ x.bye = o.bye

LEMMA SentLemma ==
  ASSUME NEW o \in Object, NEW method \in Methods, NEW e, NEW x, x = Sent(o, method, e),
         o.req = "none"
  PROVE  Same(x, o) /\ x.req \in {"none", method}
  <1>1. x \in Object
    BY Zenon DEF Sent, Object
  <1> QED BY <1>1 DEF Same, Sent, Object

LEMMA DoneLemma ==
  ASSUME NEW o \in Object, NEW x, x = Done(o)
  PROVE  Same(x, o) /\ x.req = "none"
  <1>1. x \in Object
    BY Zenon DEF Done, Object
  <1> QED BY <1>1 DEF Same, Done, Object

LEMMA FreshLemma ==
  ASSUME NEW o \in Object, NEW x, x = Fresh(o)
  PROVE  Same(x, o) /\ x.req = o.req
  <1>1. 0 \in 0..LoopMax
    BY BoundsAssumption
  <1>2. x \in Object
    BY <1>1, Zenon DEF Fresh, Object
  <1> QED BY <1>2 DEF Same, Fresh, Object

LEMMA FailLemma ==
  ASSUME NEW o \in Object, NEW x, x = Fail(o)
  PROVE  Same(x, o) /\ x.req = o.req
  <1>1. o.failc \in 0..LoopMax /\ (o.failc < LoopMax => o.failc + 1 \in 0..LoopMax)
    BY BoundsAssumption DEF Object
  <1>2. PICK c \in 0..LoopMax : x = [o EXCEPT !.failc = c]
    BY <1>1 DEF Fail, Object
  <1>3. x \in Object
    BY <1>2, Zenon DEF Object
  <1> QED BY <1>2, <1>3 DEF Same, Object

LEMMA ReinviteLemma ==
  ASSUME NEW o \in Object, o.req = "none", NEW e, NEW x, x = sipsess_reinvite(o, e)
  PROVE  Same(x, o) /\ x.req \in {"none", "reINVITE"}
  <1>1. Same(Fresh(o), o) /\ Fresh(o).req = "none"
    BY FreshLemma
  <1>2. Same(x, Fresh(o)) /\ x.req \in {"none", "reINVITE"}
    BY <1>1, SentLemma DEF sipsess_reinvite, Same, Methods
  <1> QED BY <1>1, <1>2 DEF Same

(* What the invariant says of a session in use.                             *)
LEMMA LiveFacts ==
  ASSUME IInv, Live
  PROVE  /\ Staged(obj, Pending) /\ Held(obj, appref, Pending) /\ obj \in Object
         /\ obj.terminated \in 0..2 /\ appref \in BOOLEAN
         /\ obj.terminated = 0 => appref /\ obj.refs = 1
         /\ obj.terminated # 0 => ~st /\ ~tmr
         /\ confirmed => established \/ replies # {}
         /\ obj.terminated = 2 /\ confirmed => obj.bye # "no" \/ peerterm
  <1>1. Staged(obj, Pending) /\ Held(obj, appref, Pending) /\ obj \in Object
    BY DEF IInv, Core, Live, Blank, Gone, Staged
  <1>2. obj.terminated \in 0..2 /\ appref \in BOOLEAN
    BY <1>1 DEF Object, IInv, TypeOK
  <1>3. obj.terminated = 0 => appref /\ obj.refs = 1
    BY <1>1, <1>2 DEF Held, Due, One
  <1> QED BY <1>1, <1>2, <1>3 DEF IInv, Core

LEMMA PendingSame ==
  ASSUME replies' = replies, info' = info
  PROVE  Pending' = Pending
  BY DEF Pending

(* The end of the request in flight gives back the reference held for it.   *)
LEMMA PaidBack ==
  ASSUME IInv, Live, obj.req # "none", NEW o, Same(o, obj), o.req = "none",
         Pending' = Pending
  PROVE  /\ Staged(o, Pending')
         /\ o.terminated # 0 => o.refs = One(appref) + Due(o, Pending') + 1
  <1>1. /\ Staged(obj, Pending) /\ Held(obj, appref, Pending)
        /\ obj.terminated \in 0..2
    BY LiveFacts
  <1>2. Staged(o, Pending')
    BY <1>1 DEF Staged, Same
  <1>3. Pending' \in 0..2 /\ One(appref) \in Nat
    BY PendingType DEF One
  <1>4. CASE obj.terminated = 1
    <2>1. Due(obj, Pending) = 1 + Pending /\ Due(o, Pending') = Pending
      BY <1>3, <1>4 DEF Due, Waits, One, Same
    <2> QED BY <1>1, <1>2, <1>3, <1>4, <2>1 DEF Held, Same
  <1>5. CASE obj.terminated = 2
    <2>1. Due(obj, Pending) = 1 /\ Due(o, Pending') = 0
      BY <1>1, <1>5 DEF Due, One, Same, Staged
    <2> QED BY <1>1, <1>2, <1>3, <2>1 DEF Held, Same
  <1> QED BY <1>1, <1>2, <1>4, <1>5 DEF Same

LEMMA CloseOrDerefLemma ==
  ASSUME IInv, Live, obj.req # "none", NEW o, Same(o, obj), o.req = "none",
         Pending' = Pending, Remembers(o), NEW e \in Env, CloseOrDeref(o, e)
  PROVE  Ended'
  <1>1. Staged(o, Pending') /\ (o.terminated # 0 => o.refs = One(appref) + Due(o, Pending') + 1)
    BY PaidBack
  <1>2. o.life = "live" /\ (o.terminated = 0 => o.refs = 1 /\ appref)
    BY LiveFacts DEF Same, Live
  <1>3. CASE o.terminated = 0
    BY <1>1, <1>2, <1>3, CloseLemma DEF CloseOrDeref, IInv
  <1>4. CASE o.terminated # 0
    BY <1>1, <1>2, <1>4, DerefEndLemma DEF CloseOrDeref, IInv
  <1> QED BY <1>3, <1>4

(* The handler ends without touching the references.                        *)
LEMMA StayLemma ==
  ASSUME IInv, Live, NEW o, Same(o, obj), obj.terminated = 0,
         o.req \notin {"several", "BYE"}, Remembers(o),
         obj' = o, UNCHANGED app, st' \in BOOLEAN, tmr' \in BOOLEAN
  PROVE  Ended'
  <1>1. /\ Staged(obj, Pending) /\ Held(obj, appref, Pending)
    BY LiveFacts
  <1>2. Staged(o, Pending')
    BY <1>1 DEF Staged, Same
  <1>3. o.refs = One(appref) + Due(o, Pending')
    BY <1>1 DEF Held, Due, Same
  <1> QED BY <1>1, <1>2, <1>3, KeepLemma DEF IInv, Same, Live

LEMMA CallbackInUseLemma ==
  ASSUME IInv, Live, NEW o, Same(o, obj), obj.terminated = 0,
         o.req \notin {"several", "BYE"}, Remembers(o), NEW e \in Env, Callback(o, e),
         estabs' \in Nat, closes' \in Nat
  PROVE  Ended'
  <1>1. Staged(obj, Pending) /\ obj.refs = 1 /\ appref
    BY LiveFacts
  <1>2. Staged(o, Pending')
    BY <1>1 DEF Staged, Same
  <1>3. o.refs = 1 + Due(o, Pending')
    BY <1>1 DEF Due, Same
  <1> QED BY <1>1, <1>2, <1>3, CallbackLemma DEF IInv, Same, Live

LEMMA ReplyLemma ==
  ASSUME TypeOK, NEW cseq \in 1..MaxSeq, NEW awaits \in BOOLEAN, NEW e \in Env,
         sipsess_reply_2xx(cseq, awaits, e)
  PROVE  /\ replies' \subseteq Reply /\ sent' \in 0..MaxReplies
         /\ awaiting' \in BOOLEAN /\ confirmed' \in BOOLEAN
         /\ replies \subseteq replies'
         /\ confirmed' => confirmed \/ replies' # {}
  <1>1. CASE ~e.send
    BY <1>1 DEF sipsess_reply_2xx, TypeOK
  <1>2. CASE e.send
    <2>1. sent \in 0..MaxReplies /\ sent < MaxReplies /\ sent' = sent + 1
      BY <1>2 DEF sipsess_reply_2xx, TypeOK
    <2>2. sent + 1 \in 1..MaxReplies /\ sent' \in 0..MaxReplies
      BY <2>1, BoundsAssumption
    <2>3. [id |-> sent + 1, cseq |-> cseq, awaiting |-> awaits] \in Reply
      BY <2>2 DEF Reply
    <2> QED BY <1>2, <2>2, <2>3 DEF sipsess_reply_2xx, TypeOK
  <1> QED BY <1>1, <1>2

-----------------------------------------------------------------------------
(* Every action keeps the invariant.                                        *)

LEMMA ConnectStep ==
  ASSUME IInv, sipsess_connect
  PROVE  IInv'
  <1>1. PICK d \in BOOLEAN, e \in Env :
          /\ obj.life = "none" /\ e.send
          /\ obj' = Sent(New, "INVITE", e)
          /\ owner' = TRUE /\ appref' = TRUE /\ desc' = d /\ sentoffer' = d
          /\ UNCHANGED <<estabs, closes, uas, modpend, awaiting, established, peerterm,
                         rtag, rseq, confirmed, info, tmr>>
    BY DEF sipsess_connect
  <1>2. Blank
    BY <1>1 DEF IInv, Core, Held, Gone
  <1>3. New \in Object /\ New.req = "none"
    <2>1. 1 \in Nat /\ 0 \in 0..2 /\ 0 \in 0..LoopMax
      BY BoundsAssumption
    <2> QED BY <2>1, Zenon DEF New, Object
  <1>4. Same(obj', New) /\ obj'.req \in {"none", "INVITE"}
    BY <1>1, <1>3, SentLemma DEF Methods
  <1>5. obj'.life = "live" /\ obj'.refs = 1 /\ obj'.terminated = 0 /\ obj'.bye = "no"
    BY <1>4 DEF Same, New
  <1>6. Staged(obj', Pending')
    BY <1>4, <1>5 DEF Staged, Same
  <1>7. Held(obj', appref', Pending')
    BY <1>1, <1>5 DEF Held, Due, One
  <1>8. Core'
    BY <1>1, <1>2, <1>5, <1>6, <1>7 DEF Core, Blank
  <1>9. TypeOK'
    BY <1>1, <1>4 DEF IInv, TypeOK, uas, Same
  <1> QED BY <1>8, <1>9 DEF IInv

LEMMA AcceptStep ==
  ASSUME IInv, sipsess_accept
  PROVE  IInv'
  <1>1. PICK final \in BOOLEAN, awaits \in BOOLEAN, e \in Env :
          /\ st' = ~final
          /\ IF final THEN sipsess_reply_2xx(1, awaits, e)
             ELSE UNCHANGED <<replies, sent, awaiting, confirmed>>
    BY DEF sipsess_accept
  <1>2. /\ obj.life = "none" /\ obj' = New /\ appref' = TRUE /\ msg' = TRUE
        /\ rtag' = TRUE /\ rseq' = 1
        /\ UNCHANGED <<estabs, closes, modpend, desc, sentoffer, owner, established,
                       peerterm, info, tmr>>
    BY DEF sipsess_accept
  <1>3. Blank /\ TypeOK
    BY <1>2 DEF IInv, Core, Held, Gone
  <1>4. 1 \in 1..MaxSeq /\ 1 \in 0..MaxSeq
    BY BoundsAssumption
  <1>5. /\ replies' \subseteq Reply /\ sent' \in 0..MaxReplies
        /\ awaiting' \in BOOLEAN /\ confirmed' \in BOOLEAN
        /\ confirmed' => confirmed \/ replies' # {}
    BY <1>1, <1>3, <1>4, ReplyLemma DEF TypeOK
  <1>6. New \in Object
    <2>1. 1 \in Nat /\ 0 \in 0..2 /\ 0 \in 0..LoopMax
      BY BoundsAssumption
    <2> QED BY <2>1, Zenon DEF New, Object
  <1>7. Staged(obj', Pending')
    BY <1>2, <1>6 DEF Staged, New
  <1>8. Held(obj', appref', Pending')
    BY <1>2 DEF Held, Due, One, New
  <1>9. Core'
    <2>1. obj'.terminated = 0 /\ ~confirmed
      BY <1>2, <1>3 DEF Blank, New
    <2> QED BY <1>5, <1>7, <1>8, <2>1 DEF Core
  <1>10. TypeOK'
    BY <1>1, <1>2, <1>3, <1>4, <1>5, <1>6 DEF TypeOK
  <1> QED BY <1>9, <1>10 DEF IInv

LEMMA UnansweredStep ==
  ASSUME IInv, sipsess_progress \/ sipsess_answer \/ sipsess_reject
  PROVE  IInv'
  <1>1. Live /\ TypeOK /\ obj.terminated = 0
    BY LiveFacts DEF sipsess_progress, sipsess_answer, sipsess_reject, Unanswered, IInv
  <1>2. /\ UNCHANGED <<obj, app, msg, modpend, desc, sentoffer, owner, established,
                       peerterm, rtag, rseq, info, tmr>>
        /\ st' \in BOOLEAN
    BY DEF sipsess_progress, sipsess_answer, sipsess_reject, offer, dialog, Env
  <1>3. /\ replies' \subseteq Reply /\ sent' \in 0..MaxReplies
        /\ awaiting' \in BOOLEAN /\ confirmed' \in BOOLEAN
        /\ replies \subseteq replies'
        /\ confirmed' => confirmed \/ replies' # {}
    <2>1. CASE sipsess_answer
      <3>1. PICK awaits \in BOOLEAN, e \in Env : sipsess_reply_2xx(1, awaits, e)
        BY <2>1 DEF sipsess_answer
      <3>2. 1 \in 1..MaxSeq
        BY BoundsAssumption
      <3> QED BY <1>1, <3>1, <3>2, ReplyLemma
    <2>2. CASE sipsess_progress \/ sipsess_reject
      BY <1>1, <2>2 DEF sipsess_progress, sipsess_reject, offer, dialog, TypeOK
    <2> QED BY <2>1, <2>2
  <1>4. Remembers(obj)
    BY <1>1, <1>2, <1>3, LiveFacts DEF Remembers, TypeOK
  <1>5. obj.req \notin {"several", "BYE"} /\ Same(obj, obj)
    BY <1>1, LiveFacts DEF Staged, Same
  <1>6. Ended'
    BY <1>1, <1>2, <1>4, <1>5, StayLemma DEF TypeOK
  <1>7. TypeOK'
    BY <1>1, <1>2, <1>3, <1>6 DEF TypeOK, Ended
  <1> QED BY <1>6, <1>7 DEF IInv, Ended

LEMMA ModifyStep ==
  ASSUME IInv, sipsess_modify
  PROVE  IInv'
  <1>1. /\ Live /\ TypeOK /\ obj.terminated = 0 /\ obj \in Object
        /\ obj.req \notin {"several", "BYE"}
    BY LiveFacts DEF sipsess_modify, IInv, Staged
  <1>2. UNCHANGED <<app, uas, awaiting, dialog, info, tmr>> /\ desc' = TRUE
    BY DEF sipsess_modify
  <1>3. /\ modpend' \in BOOLEAN /\ sentoffer' \in BOOLEAN
        /\ Same(obj', obj) /\ obj'.req \notin {"several", "BYE"}
    <2>1. CASE obj.req # "none" \/ tmr \/ replies # {}
      BY <1>1, <2>1 DEF sipsess_modify, TypeOK, Same
    <2>2. CASE ~(obj.req # "none" \/ tmr \/ replies # {})
      <3>1. PICK e \in Env : obj' = sipsess_reinvite(obj, e)
        BY <2>2 DEF sipsess_modify
      <3>2. Same(obj', obj) /\ obj'.req \in {"none", "reINVITE"}
        BY <1>1, <2>2, <3>1, ReinviteLemma
      <3> QED BY <2>2, <3>2 DEF sipsess_modify, Same
    <2> QED BY <2>1, <2>2
  <1>4. Remembers(obj')
    BY <1>1, <1>2, <1>3, LiveFacts DEF Remembers, TypeOK, dialog, uas, Same
  <1>5. Ended'
    BY <1>1, <1>2, <1>3, <1>4, StayLemma DEF TypeOK, uas
  <1>6. TypeOK'
    BY <1>1, <1>2, <1>3, <1>5 DEF TypeOK, Ended, uas, dialog
  <1> QED BY <1>5, <1>6 DEF IInv, Ended

LEMMA InfoStep ==
  ASSUME IInv, NEW i \in Infos, sipsess_info(i)
  PROVE  IInv'
  <1>1. /\ Live /\ TypeOK /\ obj.terminated = 0 /\ Same(obj, obj)
        /\ obj.req \notin {"several", "BYE"}
    BY LiveFacts DEF sipsess_info, IInv, Staged, Same
  <1>2. UNCHANGED <<obj, app, uas, offer, dialog, tmr>>
    BY DEF sipsess_info
  <1>3. Remembers(obj)
    BY <1>1, <1>2, LiveFacts DEF Remembers, TypeOK, dialog, uas
  <1>4. Ended'
    BY <1>1, <1>2, <1>3, StayLemma DEF TypeOK, uas
  <1>5. info' \in [Infos -> NoInfo..(LoopMax - 1)]
    <2>1. 0 \in NoInfo..(LoopMax - 1)
      BY BoundsAssumption DEF NoInfo
    <2> QED BY <1>1, <2>1 DEF sipsess_info, TypeOK
  <1>6. TypeOK'
    BY <1>1, <1>2, <1>4, <1>5 DEF TypeOK, Ended, uas, dialog, offer
  <1> QED BY <1>4, <1>6 DEF IInv, Ended

LEMMA ReleaseStep ==
  ASSUME IInv, Release
  PROVE  IInv'
  <1>1. /\ Live /\ appref /\ TypeOK
        /\ UNCHANGED <<estabs, closes, msg, replies, sent, offer, dialog, info>>
    BY DEF Release, IInv
  <1>2. PICK e \in Env : Callback(obj, e)
    BY DEF Release
  <1>3. Remembers(obj)
    BY <1>1, LiveFacts DEF Remembers, TypeOK, dialog
  <1>4. Staged(obj, Pending') /\ Held(obj, appref, Pending')
    BY <1>1, LiveFacts, PendingSame
  <1>5. obj.refs = 1 + Due(obj, Pending')
    BY <1>1, <1>4 DEF Held, One
  <1>6. Ended'
    BY <1>1, <1>2, <1>3, <1>4, <1>5, CallbackLemma DEF TypeOK, Live
  <1>7. TypeOK'
    BY <1>1, <1>6 DEF TypeOK, Ended, dialog, offer
  <1> QED BY <1>6, <1>7 DEF IInv, Ended

LEMMA ProgressStep ==
  ASSUME IInv, InviteProgress
  PROVE  IInv'
  <1>1. /\ Live /\ TypeOK /\ obj.terminated = 0 /\ Same(obj, obj)
        /\ obj.req \notin {"several", "BYE"}
        /\ UNCHANGED <<estabs, closes, msg, replies, sent, offer, dialog, info>>
    BY LiveFacts DEF InviteProgress, IInv, Staged, Same
  <1>2. PICK e \in Env : Callback(obj, e)
    BY DEF InviteProgress
  <1>3. Remembers(obj)
    BY <1>1, LiveFacts DEF Remembers, TypeOK, dialog
  <1>4. Ended'
    BY <1>1, <1>2, <1>3, CallbackInUseLemma DEF TypeOK
  <1>5. TypeOK'
    BY <1>1, <1>4 DEF TypeOK, Ended, dialog, offer
  <1> QED BY <1>4, <1>5 DEF IInv, Ended

LEMMA InviteAnsweredStep ==
  ASSUME IInv, Live, obj.req = "INVITE", NEW e \in Env,
         NEW o, Same(o, obj), o.req = "none", InviteAnswered(o, e)
  PROVE  IInv'
  <1>1. /\ TypeOK /\ obj.terminated \in 0..2 /\ obj.terminated # 2
    BY LiveFacts DEF IInv, Staged
  <1>2. /\ established' = TRUE /\ rtag' = TRUE /\ confirmed' = TRUE
        /\ UNCHANGED <<owner, peerterm, rseq, msg, replies, sent, info>>
    BY DEF InviteAnswered
  <1>3. Remembers(o)
    BY <1>1, <1>2 DEF Remembers, TypeOK, Same
  <1>4. Ended' /\ UNCHANGED awaiting /\ modpend' \in BOOLEAN /\ desc' \in BOOLEAN
        /\ sentoffer' \in BOOLEAN
    <2>1. CASE o.terminated # 0 \/ ~e.app \/ ~e.ack
      <3>1. /\ modpend' = (modpend /\ sentoffer)
            /\ UNCHANGED <<awaiting, desc, sentoffer>> /\ CloseOrDeref(o, e)
        BY <2>1 DEF InviteAnswered
      <3> QED BY <1>1, <1>2, <1>3, <3>1, CloseOrDerefLemma, PendingSame DEF TypeOK
    <2>2. CASE ~(o.terminated # 0 \/ ~e.app \/ ~e.ack) /\ modpend /\ sentoffer
      <3>1. PICK x : x = sipsess_reinvite(o, e)
        OBVIOUS
      <3>2. OfferSent /\ Establish(x, e)
        BY <2>2, <3>1 DEF InviteAnswered
      <3>3. Same(x, obj) /\ x.req \in {"none", "reINVITE"}
        BY <3>1, ReinviteLemma DEF Same
      <3>4. Callback(x, e) /\ estabs' \in Nat /\ closes' \in Nat
        BY <1>1, <3>2 DEF Establish, TypeOK
      <3>5. Remembers(x)
        BY <1>1, <1>2, <3>3 DEF Remembers, TypeOK, Same
      <3> QED BY <1>1, <2>2, <3>2, <3>3, <3>4, <3>5, CallbackInUseLemma
              DEF OfferSent, TypeOK, Same
    <2>3. CASE ~(o.terminated # 0 \/ ~e.app \/ ~e.ack) /\ ~(modpend /\ sentoffer)
      <3>1. /\ modpend' = FALSE /\ desc' = FALSE /\ UNCHANGED <<awaiting, sentoffer>>
            /\ Establish(o, e)
        BY <2>3 DEF InviteAnswered
      <3>2. Callback(o, e) /\ estabs' \in Nat /\ closes' \in Nat
        BY <1>1, <3>1 DEF Establish, TypeOK
      <3> QED BY <1>1, <1>3, <2>3, <3>1, <3>2, CallbackInUseLemma DEF TypeOK, Same
    <2> QED BY <2>1, <2>2, <2>3
  <1>5. TypeOK'
    BY <1>1, <1>2, <1>4 DEF TypeOK, Ended
  <1> QED BY <1>4, <1>5 DEF IInv, Ended

OfferTyped ==
  /\ modpend \in BOOLEAN /\ awaiting \in BOOLEAN
  /\ desc \in BOOLEAN /\ sentoffer \in BOOLEAN

LEMMA OfferSentLemma ==
  ASSUME TypeOK, OfferSent
  PROVE  OfferTyped'
  BY DEF TypeOK, OfferSent, OfferTyped

LEMMA InviteRefusedStep ==
  ASSUME IInv, Live, obj.req = "INVITE", NEW e \in Env, NEW kind,
         NEW o, Same(o, obj), o.req = "none", InviteRefused(o, kind, e)
  PROVE  IInv'
  <1>1. TypeOK /\ UNCHANGED <<dialog, msg, replies, sent, info>>
    BY DEF IInv, InviteRefused
  <1>2. ASSUME NEW x, Same(x, obj) PROVE Remembers(x)
    BY <1>1, <1>2, LiveFacts DEF Remembers, TypeOK, dialog, Same
  <1>3. Ended' /\ OfferTyped'
    <2>1. CASE OfferSent /\ Keep(Sent(o, "INVITE", e)) /\ o.terminated = 0
      <3>1. PICK x : x = Sent(o, "INVITE", e)
        OBVIOUS
      <3>2. Same(x, obj) /\ x.req \in {"none", "INVITE"}
        BY <3>1, SentLemma DEF Same, Methods
      <3>3. obj' = x /\ UNCHANGED <<app, st, tmr>>
        BY <2>1, <3>1 DEF Keep
      <3> QED BY <1>1, <1>2, <2>1, <3>2, <3>3, StayLemma, OfferSentLemma DEF TypeOK, Same
    <2>2. CASE UNCHANGED offer /\ CloseOrDeref(o, e)
      BY <1>1, <1>2, <2>2, CloseOrDerefLemma, PendingSame DEF TypeOK, offer, OfferTyped
    <2> QED BY <2>1, <2>2 DEF InviteRefused
  <1>4. TypeOK'
    BY <1>1, <1>3 DEF TypeOK, Ended, OfferTyped, dialog
  <1> QED BY <1>3, <1>4 DEF IInv, Ended

LEMMA FreshDone ==
  ASSUME IInv
  PROVE  /\ Same(Done(obj), obj) /\ Done(obj).req = "none"
         /\ Same(Fresh(Done(obj)), obj) /\ Fresh(Done(obj)).req = "none"
         /\ Same(Fail(Done(obj)), obj) /\ Fail(Done(obj)).req = "none"
  <1>1. obj \in Object
    BY DEF IInv, TypeOK
  <1>2. Same(Done(obj), obj) /\ Done(obj).req = "none"
    BY <1>1, DoneLemma
  <1>3. Same(Fresh(Done(obj)), Done(obj)) /\ Fresh(Done(obj)).req = "none"
    BY <1>2, FreshLemma DEF Same
  <1>4. Same(Fail(Done(obj)), Done(obj)) /\ Fail(Done(obj)).req = "none"
    BY <1>2, FailLemma DEF Same
  <1> QED BY <1>2, <1>3, <1>4 DEF Same

LEMMA InviteRespStep ==
  ASSUME IInv, NEW kind, invite_resp_handler(kind)
  PROVE  IInv'
  <1>1. Live /\ obj.req = "INVITE"
    BY DEF invite_resp_handler
  <1>2. PICK e \in Env : IF kind = "2xx" THEN InviteAnswered(Fresh(Done(obj)), e)
                         ELSE InviteRefused(Fail(Done(obj)), kind, e)
    BY DEF invite_resp_handler
  <1> QED BY <1>1, <1>2, FreshDone, InviteAnsweredStep, InviteRefusedStep

LEMMA ReinviteOverLemma ==
  ASSUME IInv, Live, obj.req # "none", NEW mp \in BOOLEAN, NEW timeout \in BOOLEAN,
         NEW e \in Env, NEW o, Same(o, obj), o.req = "none",
         ReinviteOver(o, mp, timeout, e), UNCHANGED <<dialog, msg, replies, sent, info>>
  PROVE  Ended' /\ OfferTyped'
  <1>1. TypeOK
    BY DEF IInv
  <1>2. ASSUME NEW x, Same(x, obj) PROVE Remembers(x)
    BY <1>1, <1>2, LiveFacts DEF Remembers, TypeOK, dialog, Same
  <1>3. CASE o.terminated # 0 \/ timeout
    <2>1. /\ modpend' = mp /\ UNCHANGED <<awaiting, desc, sentoffer>>
          /\ CloseOrDeref(o, e)
      BY <1>3 DEF ReinviteOver
    <2> QED BY <1>1, <1>2, <2>1, CloseOrDerefLemma, PendingSame DEF TypeOK, OfferTyped
  <1>4. CASE ~(o.terminated # 0 \/ timeout)
    <2>1. CASE mp
      <3>1. PICK x : x = sipsess_reinvite(o, e)
        OBVIOUS
      <3>2. OfferSent /\ obj' = x /\ UNCHANGED <<app, st, tmr>>
        BY <1>4, <2>1, <3>1 DEF ReinviteOver, Keep
      <3>3. Same(x, obj) /\ x.req \in {"none", "reINVITE"}
        BY <3>1, ReinviteLemma DEF Same
      <3> QED BY <1>1, <1>2, <1>4, <3>2, <3>3, StayLemma, OfferSentLemma DEF TypeOK, Same
    <2>2. CASE ~mp
      <3>1. /\ modpend' = FALSE /\ desc' = FALSE /\ UNCHANGED <<awaiting, sentoffer>>
            /\ obj' = o /\ UNCHANGED <<app, st, tmr>>
        BY <1>4, <2>2 DEF ReinviteOver, Keep
      <3>2. Ended'
        BY <1>1, <1>2, <1>4, <3>1, StayLemma DEF TypeOK, Same
      <3> QED BY <1>1, <3>1, <3>2 DEF OfferTyped, TypeOK
    <2> QED BY <2>1, <2>2
  <1> QED BY <1>3, <1>4

LEMMA ReinviteRefusedLemma ==
  ASSUME IInv, Live, obj.req # "none", NEW kind, NEW e \in Env,
         NEW o, Same(o, obj), o.req = "none",
         ReinviteRefused(o, kind, e), UNCHANGED <<dialog, msg, replies, sent, info>>
  PROVE  Ended' /\ OfferTyped'
  <1>1. TypeOK /\ modpend \in BOOLEAN /\ FALSE \in BOOLEAN
    BY DEF IInv, TypeOK
  <1>2. ASSUME NEW x, Same(x, obj) PROVE Remembers(x)
    BY <1>1, <1>2, LiveFacts DEF Remembers, TypeOK, dialog, Same
  <1>3. CASE ReinviteOver(o, modpend, FALSE, e)
    BY <1>1, <1>3, ReinviteOverLemma
  <1>4. CASE o.terminated = 0 /\ ReinviteChallenged(o, e)
    <2>1. CASE ~e.app
      BY <1>3, <1>4, <2>1 DEF ReinviteChallenged
    <2>2. CASE e.app /\ e.send
      <3>1. PICK x : x = Sent(o, "reINVITE", e)
        OBVIOUS
      <3>2. OfferSent /\ obj' = x /\ UNCHANGED <<app, st, tmr>>
        BY <1>4, <2>2, <3>1 DEF ReinviteChallenged, Keep
      <3>3. Same(x, obj) /\ x.req \in {"none", "reINVITE"}
        BY <3>1, SentLemma DEF Same, Methods
      <3> QED BY <1>1, <1>2, <1>4, <3>2, <3>3, StayLemma, OfferSentLemma DEF TypeOK, Same
    <2>3. CASE e.app /\ ~e.send
      <3>1. /\ modpend' = FALSE /\ sentoffer' = desc /\ desc' = FALSE
            /\ UNCHANGED awaiting /\ obj' = o /\ UNCHANGED <<app, st, tmr>>
        BY <1>4, <2>3 DEF ReinviteChallenged, Keep
      <3>2. Ended'
        BY <1>1, <1>2, <1>4, <3>1, StayLemma DEF TypeOK, Same
      <3> QED BY <1>1, <3>1, <3>2 DEF OfferTyped, TypeOK
    <2>4. e.app \in BOOLEAN /\ e.send \in BOOLEAN
      BY DEF Env
    <2> QED BY <2>1, <2>2, <2>3, <2>4
  <1>5. CASE o.terminated = 0 /\ UNCHANGED offer /\ Close(o, e)
    <2>1. Staged(o, Pending') /\ o.life = "live" /\ o.refs = 1 /\ appref
      BY <1>5, PaidBack, PendingSame, LiveFacts DEF Same, Live
    <2> QED BY <1>1, <1>2, <1>5, <2>1, CloseLemma DEF TypeOK, offer, OfferTyped
  <1>6. CASE o.terminated = 0 /\ obj' = o /\ tmr' = TRUE /\ UNCHANGED <<app, st, offer>>
    <2>1. Ended'
      BY <1>1, <1>2, <1>6, StayLemma DEF TypeOK, Same
    <2> QED BY <1>1, <1>6, <2>1 DEF TypeOK, offer, OfferTyped
  <1> QED BY <1>3, <1>4, <1>5, <1>6 DEF ReinviteRefused

LEMMA ReinviteRespStep ==
  ASSUME IInv, NEW kind, reinvite_resp_handler(kind)
  PROVE  IInv'
  <1>1. /\ Live /\ obj.req = "reINVITE" /\ TypeOK
        /\ UNCHANGED <<dialog, msg, replies, sent, info>>
    BY DEF reinvite_resp_handler, IInv
  <1>2. PICK e \in Env :
          CASE kind = "2xx" ->
                 ReinviteOver(Fresh(Done(obj)), modpend /\ sentoffer, FALSE, e)
            [] kind = "timeout" -> ReinviteOver(Done(obj), modpend, TRUE, e)
            [] OTHER -> ReinviteRefused(Fail(Done(obj)), kind, e)
    BY DEF reinvite_resp_handler
  <1>3. Ended' /\ OfferTyped'
    <2>1. CASE kind = "2xx"
      <3>1. PICK mp \in BOOLEAN : mp = (modpend /\ sentoffer)
        OBVIOUS
      <3>2. ReinviteOver(Fresh(Done(obj)), mp, FALSE, e)
        BY <1>2, <2>1, <3>1
      <3> QED BY <1>1, <3>2, FreshDone, ReinviteOverLemma
    <2>2. CASE kind = "timeout"
      <3>1. ReinviteOver(Done(obj), modpend, TRUE, e) /\ modpend \in BOOLEAN
        BY <1>1, <1>2, <2>2 DEF TypeOK
      <3> QED BY <1>1, <3>1, FreshDone, ReinviteOverLemma
    <2>3. CASE kind # "2xx" /\ kind # "timeout"
      <3>1. ReinviteRefused(Fail(Done(obj)), kind, e)
        BY <1>2, <2>3
      <3> QED BY <1>1, <3>1, FreshDone, ReinviteRefusedLemma
    <2> QED BY <2>1, <2>2, <2>3
  <1>4. TypeOK'
    BY <1>1, <1>3 DEF TypeOK, Ended, OfferTyped, dialog
  <1> QED BY <1>3, <1>4 DEF IInv, Ended

LEMMA ByeRespStep ==
  ASSUME IInv, NEW kind, bye_resp_handler(kind)
  PROVE  IInv'
  <1>1. /\ Live /\ obj.req = "BYE" /\ TypeOK /\ obj.terminated = 2
        /\ UNCHANGED <<msg, replies, sent, offer, dialog, info>>
    BY LiveFacts DEF bye_resp_handler, IInv, Staged
  <1>2. PICK o : o = Fail(Done(obj))
    OBVIOUS
  <1>3. PICK e \in Env : \/ e.send /\ Keep(Sent(o, "BYE", e))
                         \/ Deref(o, e)
    BY <1>2 DEF bye_resp_handler
  <1>4. Same(o, obj) /\ o.req = "none"
    BY <1>2, FreshDone
  <1>5. ASSUME NEW x, Same(x, obj) PROVE Remembers(x)
    BY <1>1, <1>5, LiveFacts DEF Remembers, TypeOK, dialog, Same
  <1>6. Staged(o, Pending') /\ o.refs = One(appref) + Due(o, Pending') + 1
    BY <1>1, <1>4, PaidBack, PendingSame DEF Same
  <1>7. ASSUME e.send, Keep(Sent(o, "BYE", e))
        PROVE  Ended'
    <2>1. PICK x : x = Sent(o, "BYE", e)
      OBVIOUS
    <2>2. Same(x, obj) /\ x.req = "BYE"
      <3>1. Same(x, o)
        BY <1>4, <2>1, SentLemma DEF Same, Methods
      <3>2. x.req = "BYE"
        BY <1>4, <1>7, <2>1 DEF Sent, Same, Object
      <3> QED BY <1>4, <3>1, <3>2 DEF Same
    <2>3. obj' = x /\ UNCHANGED <<app, st, tmr>>
      BY <1>7, <2>1 DEF Keep
    <2>4. Staged(x, Pending')
      BY <1>1, <1>4, <1>6, <2>2 DEF Staged, Same
    <2>5. x.refs = One(appref) + Due(x, Pending')
      <3>1. Due(x, Pending') = 1 /\ Due(obj, Pending) = 1
        BY <1>1, <2>2 DEF Due, One, Same
      <3> QED BY <1>1, <2>2, <3>1, LiveFacts DEF Held, Same
    <2>6. ~st /\ ~tmr
      BY <1>1, LiveFacts
    <2> QED BY <1>1, <1>5, <2>2, <2>3, <2>4, <2>5, <2>6, KeepLemma
            DEF TypeOK, IInv, Same, Live
  <1>8. ASSUME Deref(o, e)
        PROVE  Ended'
    BY <1>1, <1>4, <1>5, <1>6, <1>8, DerefEndLemma DEF Same, Live
  <1>9. Ended'
    BY <1>3, <1>7, <1>8
  <1>10. TypeOK'
    BY <1>1, <1>9 DEF TypeOK, Ended, offer, dialog
  <1> QED BY <1>9, <1>10 DEF IInv, Ended

(* One INFO less is waited for: the reference of requestl is given back     *)
(* with the last one.                                                       *)
LEMMA InfoDoneLemma ==
  ASSUME IInv, Live, NEW i \in Infos, info[i] # NoInfo, NEW dead \in BOOLEAN,
         dead => obj.terminated = 0, NEW e \in Env, InfoDone(i, dead, e)
  PROVE  Ended'
  <1>1. PICK o : o = IF dead THEN sipsess_terminate(obj, Pending, Hangup, e) ELSE obj
    OBVIOUS
  <1>2. /\ info' = [info EXCEPT ![i] = NoInfo]
        /\ closes' = closes + One(dead) /\ estabs' = estabs
        /\ appref' = (appref /\ ~(dead /\ e.release))
        /\ UNCHANGED <<msg, replies, sent, offer, dialog>>
        /\ Becomes(IF o.life # "live" THEN [o EXCEPT !.life = "corrupt"]
                   ELSE IF o.terminated # 0 /\ ~HasInfo(info')
                   THEN mem_deref(o, Pending', Hangup', e) ELSE o)
    BY <1>1 DEF InfoDone
  <1>3. /\ TypeOK /\ appref' \in BOOLEAN /\ estabs' \in Nat /\ closes' \in Nat
        /\ Hangup' = Hangup /\ Hangup \in BOOLEAN
    BY <1>2 DEF IInv, TypeOK, One, Hangup, dialog
  <1>4. HasInfo(info) /\ Pending # 0
    BY PendingZero DEF HasInfo
  <1>5. /\ o.life = "live" /\ Staged(o, Pending) /\ o.terminated \in {0, 1}
        /\ o.refs = One(appref') + Due(o, Pending)
        /\ o.terminated = 0 => appref'
        /\ HangsUp(obj, o, Hangup')
    <2>1. CASE dead
      <3>1. o = sipsess_terminate(obj, Pending, Hangup, e)
        BY <1>1, <2>1
      <3>2. appref' <=> ~e.release
        BY <1>2, <2>1, LiveFacts
      <3>3. Sound(o, appref', Pending) /\ o.terminated # 0 /\ HangsUp(obj, o, Hangup)
        BY <1>3, <2>1, <3>1, <3>2, CloseDownLemma, PendingType, LiveFacts DEF Live
      <3>4. o.terminated \in 0..2
        BY <3>3 DEF Sound, Staged, Object
      <3> QED BY <1>3, <1>4, <3>3, <3>4 DEF Sound, Held, Gone, Staged
    <2>2. CASE ~dead
      <3>1. o = obj /\ (appref' <=> appref) /\ appref' = appref
        BY <1>1, <1>2, <2>2, LiveFacts
      <3>2. HangsUp(obj, obj, Hangup')
        BY DEF HangsUp
      <3> QED BY <1>4, <3>1, <3>2, LiveFacts DEF Live, Held, Staged
    <2> QED BY <2>1, <2>2
  <1>6. Staged(o, Pending') /\ (o.terminated = 0 => Due(o, Pending') = 0 /\ Due(o, Pending) = 0)
    BY <1>5 DEF Staged, Due
  <1>7. Remembers(obj)
    BY <1>2, <1>3, LiveFacts DEF Remembers, TypeOK, dialog
  <1>8. Staged(obj, Pending')
    <2>1. obj.terminated # 2
      BY <1>4, LiveFacts DEF Staged
    <2> QED BY <2>1, LiveFacts DEF Staged
  <1>9. CASE o.terminated # 0 /\ ~HasInfo(info')
    <2>1. PICK d : d = mem_deref(o, Pending', Hangup', e)
      OBVIOUS
    <2>2. Becomes(d)
      BY <1>2, <1>5, <1>9, <2>1
    <2>3. Pending = Pending' + 1 /\ Pending' \in 0..2
      BY <1>2, <1>4, <1>9, PendingType DEF Pending, One
    <2>4. o.refs = One(appref') + Due(o, Pending') + 1
      <3>1. o.terminated = 1 /\ One(appref') \in Nat /\ One(o.req # "none") \in Nat
        BY <1>5, <1>9 DEF One
      <3>2. Due(o, Pending) = One(o.req # "none") + Pending
        BY <3>1 DEF Due, Waits
      <3>3. Due(o, Pending') = One(o.req # "none") + Pending'
        BY <3>1 DEF Due, Waits
      <3> QED BY <1>5, <2>3, <3>1, <3>2, <3>3
    <2>5. Sound(d, appref', Pending') /\ HangsUp(o, d, Hangup')
      BY <1>3, <1>5, <1>6, <1>9, <2>1, <2>3, <2>4, DerefLemma
    <2>6. HangsUp(obj, d, Hangup')
      BY <1>5, <2>5 DEF HangsUp
    <2> QED BY <1>3, <1>7, <1>8, <2>2, <2>5, <2>6, BecomesLemma
  <1>10. CASE ~(o.terminated # 0 /\ ~HasInfo(info'))
    <2>1. Becomes(o)
      BY <1>2, <1>5, <1>10
    <2>2. Due(o, Pending') = Due(o, Pending)
      <3>1. CASE o.terminated = 0
        BY <1>6, <3>1
      <3>2. CASE HasInfo(info')
        BY <1>2, <1>4, <3>2 DEF Pending
      <3> QED BY <1>10, <3>1, <3>2
    <2>3. o.refs > 0
      BY <1>3, <1>4, <1>5, PendingType, WaitsNat DEF Due, One
    <2>4. Held(o, appref', Pending')
      BY <1>5, <2>2, <2>3 DEF Held
    <2>5. Sound(o, appref', Pending')
      BY <1>6, <2>4 DEF Sound
    <2> QED BY <1>3, <1>5, <1>7, <1>8, <2>1, <2>5, BecomesLemma
  <1> QED BY <1>9, <1>10

LEMMA InfoRespStep ==
  ASSUME IInv, NEW i \in Infos, NEW kind, info_resp_handler(i, kind)
  PROVE  IInv'
  <1>1. Live /\ info[i] # NoInfo /\ TypeOK
    BY DEF info_resp_handler, IInv
  <1>2. info \in [Infos -> NoInfo..(LoopMax - 1)]
    BY <1>1 DEF TypeOK
  <1>3. CASE InfoRetried(i) /\ ~(info[i] + 1 >= LoopMax) /\ obj.terminated = 0
    <2>1. /\ info' = [info EXCEPT ![i] = info[i] + 1]
          /\ UNCHANGED <<obj, app, uas, offer, dialog, tmr>>
      BY <1>3 DEF InfoRetried
    <2>2. info[i] \in NoInfo..(LoopMax - 1) /\ NoInfo = -1 /\ LoopMax \in Nat
      BY <1>2, BoundsAssumption DEF NoInfo
    <2>3. info[i] + 1 \in NoInfo..(LoopMax - 1)
      BY <1>3, <2>2
    <2>4. info' \in [Infos -> NoInfo..(LoopMax - 1)]
      BY <1>2, <2>1, <2>3
    <2>5. Remembers(obj) /\ Same(obj, obj) /\ obj.req \notin {"several", "BYE"}
      BY <1>1, <1>3, <2>1, LiveFacts DEF Remembers, TypeOK, dialog, uas, Same, Staged
    <2>6. Ended'
      BY <1>1, <1>3, <2>1, <2>5, StayLemma DEF TypeOK, uas
    <2>7. TypeOK'
      BY <1>1, <2>1, <2>4, <2>6 DEF TypeOK, Ended, uas, offer, dialog
    <2> QED BY <2>6, <2>7 DEF IInv, Ended
  <1>4. ASSUME NEW dead \in BOOLEAN, NEW e \in Env, InfoDone(i, dead, e),
               dead => obj.terminated = 0
        PROVE  IInv'
    <2>1. Ended'
      BY <1>1, <1>4, InfoDoneLemma
    <2>2. /\ info' = [info EXCEPT ![i] = NoInfo]
          /\ UNCHANGED <<msg, replies, sent, offer, dialog>>
      BY <1>4 DEF InfoDone
    <2>3. NoInfo \in NoInfo..(LoopMax - 1)
      BY BoundsAssumption DEF NoInfo
    <2>4. info' \in [Infos -> NoInfo..(LoopMax - 1)]
      BY <1>2, <2>2, <2>3
    <2>5. TypeOK'
      BY <1>1, <2>1, <2>2, <2>4 DEF TypeOK, Ended, offer, dialog
    <2> QED BY <2>1, <2>5 DEF IInv, Ended
  <1>5. \/ InfoRetried(i) /\ ~(info[i] + 1 >= LoopMax) /\ obj.terminated = 0
        \/ \E dead \in BOOLEAN, e \in Env : InfoDone(i, dead, e) /\ (dead => obj.terminated = 0)
    BY DEF info_resp_handler
  <1> QED BY <1>3, <1>4, <1>5

(* The peer ends the session.                                               *)
LEMMA PeerEndLemma ==
  ASSUME IInv, Live, obj.terminated = 0, peerterm' = TRUE, rseq' \in 0..MaxSeq,
         UNCHANGED <<owner, established, rtag, confirmed, msg, replies, sent, offer, info>>,
         NEW e \in Env, Close(obj, e)
  PROVE  IInv'
  <1>1. TypeOK
    BY DEF IInv
  <1>2. Remembers(obj)
    BY <1>1, LiveFacts DEF Remembers, TypeOK
  <1>3. Staged(obj, Pending')
    BY LiveFacts, PendingSame
  <1>4. Ended'
    BY <1>1, <1>2, <1>3, CloseLemma, LiveFacts DEF Live
  <1>5. TypeOK'
    BY <1>1, <1>4 DEF TypeOK, Ended, offer
  <1> QED BY <1>4, <1>5 DEF IInv, Ended

LEMMA CancelStep ==
  ASSUME IInv, cancel_handler
  PROVE  IInv'
  <1>1. Live /\ obj.terminated = 0
    BY LiveFacts DEF cancel_handler
  <1>2. PICK e \in Env : Close(obj, e)
    BY DEF cancel_handler
  <1>3. rseq' \in 0..MaxSeq
    BY DEF cancel_handler, IInv, TypeOK
  <1> QED BY <1>1, <1>2, <1>3, PeerEndLemma DEF cancel_handler

(* A request that only advances the peer's sequence number.                 *)
LEMMA QuietLemma ==
  ASSUME IInv, Live, rseq' \in 0..MaxSeq, peerterm' \in BOOLEAN, peerterm => peerterm',
         UNCHANGED <<obj, app, uas, offer, owner, established, rtag, confirmed, info, tmr>>
  PROVE  IInv'
  <1>1. TypeOK
    BY DEF IInv
  <1>2. Staged(obj', Pending') /\ Held(obj', appref', Pending')
    BY LiveFacts, PendingSame DEF uas, app
  <1>3. Core'
    BY <1>2, LiveFacts DEF Core, uas
  <1>4. TypeOK'
    BY <1>1 DEF TypeOK, app, uas, offer
  <1> QED BY <1>3, <1>4 DEF IInv

LEMMA ByeStep ==
  ASSUME IInv, NEW c \in 1..MaxSeq, bye_handler(c) \/ info_refer_handler(c)
  PROVE  IInv'
  <1>1. Live /\ rseq' = c /\ c \in 0..MaxSeq /\ TypeOK
    BY DEF bye_handler, info_refer_handler, InDialog, IInv
  <1>2. CASE info_refer_handler(c)
    BY <1>1, <1>2, QuietLemma DEF info_refer_handler, TypeOK
  <1>3. CASE bye_handler(c)
    <2>1. /\ peerterm' = TRUE
          /\ UNCHANGED <<owner, established, rtag, confirmed, msg, replies, sent, offer, info>>
      BY <1>3 DEF bye_handler
    <2>2. CASE obj.terminated # 0
      <3>1. UNCHANGED <<obj, app, st, tmr>>
        BY <1>3, <2>2 DEF bye_handler, Keep
      <3> QED BY <1>1, <2>1, <3>1, QuietLemma DEF uas
    <2>3. CASE obj.terminated = 0
      <3>1. PICK e \in Env : Close(obj, e)
        BY <1>3, <2>3 DEF bye_handler
      <3> QED BY <1>1, <2>1, <2>3, <3>1, PeerEndLemma
    <2> QED BY <2>2, <2>3
  <1> QED BY <1>2, <1>3

LEMMA PeerReinviteStep ==
  ASSUME IInv, NEW c \in 1..MaxSeq, reinvite_handler(c)
  PROVE  IInv'
  <1>1. /\ Live /\ obj.terminated = 0 /\ rseq' = c /\ c \in 0..MaxSeq /\ TypeOK
        /\ UNCHANGED <<obj, app, st, msg, owner, established, peerterm, rtag, info>>
    BY DEF reinvite_handler, InDialog, IInv
  <1>2. PICK awaits \in BOOLEAN, e \in Env :
          \/ UNCHANGED <<replies, sent, offer, confirmed, tmr>>
          \/ /\ sipsess_reply_2xx(c, awaits, e)
             /\ desc' = FALSE /\ modpend' = FALSE /\ tmr' = FALSE
             /\ UNCHANGED sentoffer
    BY DEF reinvite_handler
  <1>3. /\ replies' \subseteq Reply /\ sent' \in 0..MaxReplies
        /\ awaiting' \in BOOLEAN /\ confirmed' \in BOOLEAN
        /\ confirmed' => established \/ replies' # {}
        /\ desc' \in BOOLEAN /\ modpend' \in BOOLEAN /\ sentoffer' \in BOOLEAN
        /\ tmr' \in BOOLEAN
    <2>1. CASE UNCHANGED <<replies, sent, offer, confirmed, tmr>>
      BY <1>1, <2>1, LiveFacts DEF TypeOK, offer
    <2>2. CASE /\ sipsess_reply_2xx(c, awaits, e)
               /\ desc' = FALSE /\ modpend' = FALSE /\ tmr' = FALSE
               /\ UNCHANGED sentoffer
      <3>1. /\ replies' \subseteq Reply /\ sent' \in 0..MaxReplies
            /\ awaiting' \in BOOLEAN /\ confirmed' \in BOOLEAN
            /\ replies \subseteq replies'
            /\ confirmed' => confirmed \/ replies' # {}
        BY <1>1, <2>2, ReplyLemma
      <3>2. replies # {} => replies' # {}
        BY <3>1
      <3> QED BY <1>1, <2>2, <3>1, <3>2, LiveFacts DEF TypeOK
    <2> QED BY <1>2, <2>1, <2>2
  <1>4. /\ Same(obj, obj) /\ obj.req \notin {"several", "BYE"}
        /\ Remembers(obj)
    BY <1>1, <1>3, LiveFacts DEF Same, Staged, Remembers, TypeOK
  <1>5. Ended'
    BY <1>1, <1>3, <1>4, StayLemma DEF TypeOK
  <1>6. TypeOK'
    BY <1>1, <1>3, <1>5 DEF TypeOK, Ended
  <1> QED BY <1>5, <1>6 DEF IInv, Ended

(* The reference of replyl is given back with the last reply.               *)
LEMMA LastReplyLemma ==
  ASSUME IInv, Live, obj.terminated # 0, replies # {}, replies' = {}, info' = info
  PROVE  Staged(obj, Pending') /\ obj.refs = One(appref) + Due(obj, Pending') + 1
  <1>1. Staged(obj, Pending) /\ Held(obj, appref, Pending) /\ Pending # 0
    BY LiveFacts, PendingZero
  <1>2. obj.terminated = 1
    BY <1>1, LiveFacts DEF Staged
  <1>3. Pending = Pending' + 1 /\ Pending' \in 0..2
    BY PendingType DEF Pending, One
  <1>4. One(appref) \in Nat /\ One(obj.req # "none") \in Nat
    BY DEF One
  <1>5. /\ Due(obj, Pending) = One(obj.req # "none") + Pending
        /\ Due(obj, Pending') = One(obj.req # "none") + Pending'
    BY <1>2 DEF Due, Waits
  <1>6. obj.refs = One(appref) + Due(obj, Pending') + 1
    BY <1>1, <1>3, <1>4, <1>5 DEF Held
  <1> QED BY <1>1, <1>2, <1>6 DEF Staged

LEMMA RepliesLeftLemma ==
  ASSUME replies # {}, replies' # {}, info' = info
  PROVE  Pending' = Pending
  BY DEF Pending

LEMMA AckedLemma ==
  ASSUME IInv, Live, obj.terminated = 0, NEW awaited \in BOOLEAN, NEW e \in Env,
         Acked(awaited, e), UNCHANGED <<owner, peerterm, rtag, rseq, confirmed, sent, info>>
  PROVE  Ended' /\ OfferTyped' /\ established' \in BOOLEAN /\ msg' \in BOOLEAN
  <1>1. TypeOK /\ obj \in Object /\ obj.req \notin {"several", "BYE"}
    BY LiveFacts DEF IInv, Staged
  <1>2. PICK o : o = IF SendsPostponed THEN sipsess_reinvite(obj, e) ELSE obj
    OBVIOUS
  <1>3. /\ awaiting' = (awaiting /\ ~awaited)
        /\ IF SendsPostponed THEN modpend' = FALSE /\ sentoffer' = desc
           ELSE UNCHANGED <<modpend, sentoffer>>
        /\ UNCHANGED desc /\ established' = TRUE
        /\ IF established THEN UNCHANGED msg /\ Keep(o)
           ELSE /\ msg' = FALSE
                /\ IF awaited /\ ~e.app THEN Close(o, e) ELSE Establish(o, e)
    BY <1>2 DEF Acked
  <1>4. OfferTyped' /\ established' \in BOOLEAN /\ msg' \in BOOLEAN
    BY <1>1, <1>3 DEF OfferTyped, TypeOK
  <1>5. Same(o, obj) /\ o.req \notin {"several", "BYE"}
    <2>1. CASE o = obj
      BY <1>1, <2>1 DEF Same
    <2>2. CASE obj.req = "none" /\ o = sipsess_reinvite(obj, e)
      BY <1>1, <2>2, ReinviteLemma
    <2> QED BY <1>2, <2>1, <2>2 DEF SendsPostponed
  <1>6. Remembers(o)
    BY <1>1, <1>3, <1>5 DEF Remembers, Same, TypeOK
  <1>7. Ended'
    <2>1. CASE Keep(o)
      BY <1>1, <1>5, <1>6, <2>1, StayLemma DEF Keep, TypeOK
    <2>2. CASE Establish(o, e)
      <3>1. Callback(o, e) /\ estabs' \in Nat /\ closes' \in Nat
        BY <1>1, <2>2 DEF Establish, TypeOK
      <3> QED BY <1>5, <1>6, <3>1, CallbackInUseLemma
    <2>3. CASE Close(o, e)
      <3>1. Staged(o, Pending')
        BY <1>5, LiveFacts DEF Staged, Same
      <3> QED BY <1>1, <1>5, <1>6, <2>3, <3>1, CloseLemma, LiveFacts DEF Same, Live
    <2> QED BY <1>3, <2>1, <2>2, <2>3
  <1> QED BY <1>4, <1>7

LEMMA AckStep ==
  ASSUME IInv, NEW c \in 1..MaxSeq, ack_handler(c)
  PROVE  IInv'
  <1>1. /\ Live /\ rtag /\ TypeOK
        /\ UNCHANGED <<owner, peerterm, rtag, rseq, confirmed, sent, info>>
    BY DEF ack_handler, IInv
  <1>2. PICK r \in replies, e \in Env :
          /\ replies' = replies \ {r}
          /\ IF obj.terminated = 0 THEN Acked(r.awaiting, e)
             ELSE /\ UNCHANGED <<offer, msg>>
                  /\ IF replies' # {} THEN UNCHANGED established /\ Keep(obj)
                     ELSE established' = TRUE /\ Deref(obj, e)
    BY DEF ack_handler
  <1>3. replies # {} /\ r.awaiting \in BOOLEAN /\ replies' \subseteq Reply
    BY <1>1, <1>2 DEF TypeOK, Reply
  <1>4. Ended' /\ OfferTyped' /\ established' \in BOOLEAN /\ msg' \in BOOLEAN
    <2>1. CASE obj.terminated = 0
      BY <1>1, <1>2, <1>3, <2>1, AckedLemma
    <2>2. CASE obj.terminated # 0 /\ replies' # {}
      <3>1. UNCHANGED <<offer, msg, established>> /\ obj' = obj /\ UNCHANGED <<app, st, tmr>>
        BY <1>2, <2>2 DEF Keep
      <3>2. Staged(obj, Pending') /\ Held(obj, appref, Pending')
        BY <1>1, <1>3, <2>2, RepliesLeftLemma, LiveFacts
      <3>3. Remembers(obj)
        BY <1>1, <2>2, <3>1, LiveFacts DEF Remembers, TypeOK
      <3>4. Ended'
        BY <1>1, <3>1, <3>2, <3>3, KeepLemma, LiveFacts DEF IInv, TypeOK, Held, Live
      <3> QED BY <1>1, <3>1, <3>4 DEF TypeOK, OfferTyped, offer
    <2>3. CASE obj.terminated # 0 /\ replies' = {}
      <3>1. UNCHANGED <<offer, msg>> /\ established' = TRUE /\ Deref(obj, e)
        BY <1>2, <2>3
      <3>2. Remembers(obj)
        BY <1>1, <3>1, LiveFacts DEF Remembers, TypeOK
      <3>3. Ended'
        BY <1>1, <1>3, <2>3, <3>1, <3>2, LastReplyLemma, DerefEndLemma DEF Live
      <3> QED BY <1>1, <3>1, <3>3 DEF TypeOK, OfferTyped, offer
    <2> QED BY <2>1, <2>2, <2>3
  <1>5. TypeOK'
    BY <1>1, <1>3, <1>4 DEF TypeOK, Ended, OfferTyped
  <1> QED BY <1>4, <1>5 DEF IInv, Ended

LEMMA ReplyTmrStep ==
  ASSUME IInv, reply_tmr_handler
  PROVE  IInv'
  <1>1. /\ Live /\ TypeOK
        /\ UNCHANGED <<owner, peerterm, rtag, rseq, confirmed, msg, sent, offer, info>>
    BY DEF reply_tmr_handler, IInv
  <1>2. PICK r \in replies, e \in Env :
          /\ replies' = replies \ {r}
          /\ IF replies' # {} THEN UNCHANGED established /\ Keep(obj)
             ELSE established' = TRUE /\ CloseOrDeref(obj, e)
    BY DEF reply_tmr_handler
  <1>3. replies # {} /\ replies' \subseteq Reply
    BY <1>1, <1>2 DEF TypeOK
  <1>4. Ended' /\ established' \in BOOLEAN
    <2>1. CASE replies' # {}
      <3>1. UNCHANGED established /\ obj' = obj /\ UNCHANGED <<app, st, tmr>>
        BY <1>2, <2>1 DEF Keep
      <3>2. Staged(obj, Pending') /\ Held(obj, appref, Pending')
        BY <1>1, <1>3, <2>1, RepliesLeftLemma, LiveFacts
      <3>3. Remembers(obj)
        BY <1>1, <2>1, <3>1, LiveFacts DEF Remembers, TypeOK
      <3>4. Ended'
        BY <1>1, <3>1, <3>2, <3>3, KeepLemma, LiveFacts DEF IInv, TypeOK, Held, Live
      <3> QED BY <1>1, <3>1, <3>4 DEF TypeOK
    <2>2. CASE replies' = {}
      <3>1. established' = TRUE /\ CloseOrDeref(obj, e)
        BY <1>2, <2>2
      <3>2. Remembers(obj)
        BY <1>1, <3>1, LiveFacts DEF Remembers, TypeOK
      <3>3. CASE obj.terminated # 0
        BY <1>1, <1>3, <2>2, <3>1, <3>2, <3>3, LastReplyLemma, DerefEndLemma
           DEF Live, CloseOrDeref
      <3>4. CASE obj.terminated = 0
        <4>1. Staged(obj, Pending')
          BY <1>1, <3>4, LiveFacts DEF Staged
        <4> QED BY <1>1, <3>1, <3>2, <3>4, <4>1, LiveFacts, CloseLemma DEF Live, CloseOrDeref
      <3> QED BY <3>1, <3>3, <3>4
    <2> QED BY <2>1, <2>2
  <1>5. TypeOK'
    BY <1>1, <1>3, <1>4 DEF TypeOK, Ended, offer
  <1> QED BY <1>4, <1>5 DEF IInv, Ended

LEMMA ModifyTmrStep ==
  ASSUME IInv, modify_tmr_handler
  PROVE  IInv'
  <1>1. /\ Live /\ TypeOK /\ tmr /\ tmr' = FALSE /\ UNCHANGED <<app, uas, dialog, info>>
    BY DEF modify_tmr_handler, IInv
  <1>2. /\ obj.terminated = 0 /\ obj \in Object /\ obj.req \notin {"several", "BYE"}
    BY <1>1, LiveFacts DEF Staged
  <1>3. Same(obj', obj) /\ obj'.req \notin {"several", "BYE"} /\ OfferTyped'
    <2>1. CASE obj.req # "none"
      BY <1>1, <1>2, <2>1 DEF modify_tmr_handler, TypeOK, offer, OfferTyped, Same
    <2>2. CASE obj.req = "none"
      <3>1. PICK e \in Env : obj' = sipsess_reinvite(obj, e)
        BY <2>2 DEF modify_tmr_handler
      <3>2. OfferSent
        BY <2>2 DEF modify_tmr_handler
      <3> QED BY <1>1, <1>2, <2>2, <3>1, <3>2, ReinviteLemma, OfferSentLemma
    <2> QED BY <2>1, <2>2
  <1>4. Remembers(obj')
    BY <1>1, <1>2, <1>3, LiveFacts DEF Remembers, TypeOK, dialog, uas, Same
  <1>5. Ended'
    BY <1>1, <1>2, <1>3, <1>4, StayLemma DEF TypeOK, uas
  <1>6. TypeOK'
    BY <1>1, <1>3, <1>5 DEF TypeOK, Ended, OfferTyped, uas, dialog
  <1> QED BY <1>5, <1>6 DEF IInv, Ended

LEMMA InitLemma ==
  ASSUME Init
  PROVE  IInv
  <1>1. 0 \in 0..LoopMax /\ 0 \in 0..MaxSeq /\ 0 \in 0..MaxReplies
        /\ NoInfo \in NoInfo..(LoopMax - 1) /\ 0 \in Nat /\ 0 \in 0..2
    BY BoundsAssumption DEF NoInfo
  <1>2. obj \in Object
    BY <1>1, Zenon DEF Init, Object
  <1>3. TypeOK
    BY <1>1, <1>2 DEF Init, TypeOK
  <1>4. ~HasInfo(info)
    BY DEF Init, HasInfo
  <1>5. Staged(obj, Pending) /\ Blank
    BY <1>2, <1>4 DEF Init, Staged, Blank
  <1>6. Core
    BY <1>5 DEF Core, Init
  <1> QED BY <1>3, <1>6 DEF IInv

LEMMA NextLemma ==
  ASSUME IInv, [Next]_vars
  PROVE  IInv'
  <1>1. CASE AppStep
    BY <1>1, ConnectStep, AcceptStep, UnansweredStep, ModifyStep, InfoStep, ReleaseStep
       DEF AppStep
  <1>2. CASE Response
    BY <1>2, ProgressStep, InviteRespStep, ReinviteRespStep, ByeRespStep, InfoRespStep
       DEF Response
  <1>3. CASE PeerRequest
    BY <1>3, CancelStep, ByeStep, PeerReinviteStep, AckStep DEF PeerRequest
  <1>4. CASE Timer
    BY <1>4, ReplyTmrStep, ModifyTmrStep DEF Timer
  <1>5. CASE UNCHANGED vars
    <2>1. Core'
      <3>1. /\ obj' = obj /\ st' = st /\ tmr' = tmr /\ appref' = appref
            /\ replies' = replies /\ info' = info /\ confirmed' = confirmed
            /\ established' = established /\ peerterm' = peerterm
        BY <1>5 DEF vars, app, uas, dialog
      <3> QED BY <3>1, PendingSame DEF IInv, Core, Blank
    <2>2. TypeOK'
      BY <1>5 DEF IInv, TypeOK, vars, app, uas, offer, dialog
    <2> QED BY <2>1, <2>2 DEF IInv
  <1> QED BY <1>1, <1>2, <1>3, <1>4, <1>5 DEF Next

(* The invariant of every reachable state.                                  *)
THEOREM Invariance == Spec => []IInv
  <1>1. Init => IInv
    BY InitLemma
  <1>2. IInv /\ [Next]_vars => IInv'
    BY NextLemma
  <1> QED BY <1>1, <1>2, PTL DEF Spec

-----------------------------------------------------------------------------
(* Every variable of a session keeps its type through all handlers; the     *)
(* reference count never becomes negative.                                  *)
THEOREM TypeCorrect == Spec => []TypeOK
  <1>1. IInv => TypeOK
    BY DEF IInv
  <1> QED BY <1>1, Invariance, PTL

(* Teardown balances its references: a session in use holds one for the     *)
(* application and one for every kind of transaction it waits for.          *)
THEOREM Balanced == Spec => []RefBalance
  <1>1. IInv => RefBalance
    <2> SUFFICES ASSUME IInv, Live PROVE RefBalance
      BY DEF RefBalance
    <2>1. Held(obj, appref, Pending) /\ obj.terminated \in 0..2
      BY LiveFacts
    <2>2. Due(obj, Pending) = CASE obj.terminated = 0 -> 0
                                [] obj.terminated = 1 -> Waits(obj, Pending)
                                [] obj.terminated = 2 -> One(obj.req = "BYE")
      BY <2>1 DEF Due
    <2> QED BY <2>1, <2>2 DEF Held, RefBalance
  <1> QED BY <1>1, Invariance, PTL

(* No handler uses the session after the free() that a callback of its own  *)
(* may have caused.                                                         *)
THEOREM NeverUsedFreed == Spec => []NoUseAfterFree
  <1>1. IInv => NoUseAfterFree
    BY DEF IInv, Core, Blank, Held, Gone, NoUseAfterFree
  <1> QED BY <1>1, Invariance, PTL

(* A request in flight is never replaced in sess->req by another.           *)
THEOREM RequestsSerialised == Spec => []OneRequest
  <1>1. IInv => OneRequest
    BY DEF IInv, Core, Staged, OneRequest
  <1> QED BY <1>1, Invariance, PTL

(* Nothing still points to a session that has been freed.                   *)
THEOREM FreedWhenUnused == Spec => []NothingDangling
  <1>1. IInv => NothingDangling
    <2> SUFFICES ASSUME IInv, obj.life = "freed" PROVE NothingDangling
      BY DEF NothingDangling
    <2>1. Gone(obj, appref, Pending) /\ ~st /\ ~tmr
      BY DEF IInv, Core, Blank, Held, Gone
    <2> QED BY <2>1, PendingZero DEF Gone, NothingDangling
  <1> QED BY <1>1, Invariance, PTL

(* The life of the session: its references are accounted for, no request   *)
(* is lost sight of, and neither side of the free touches the other.        *)
THEOREM MemorySafe == Spec => []MemorySafety
  <1>1. RefBalance /\ NoUseAfterFree /\ NothingDangling /\ OneRequest => MemorySafety
    BY DEF MemorySafety
  <1> QED BY <1>1, Balanced, NeverUsedFreed, FreedWhenUnused, RequestsSerialised, PTL

(* A call the peer believes in is not forgotten without a BYE.              *)
THEOREM CallsAreEnded == Spec => []NoHalfOpenCall
  <1>1. IInv => NoHalfOpenCall
    BY DEF IInv, Core, Blank, Held, Gone, NoHalfOpenCall
  <1> QED BY <1>1, Invariance, PTL

-----------------------------------------------------------------------------
(* What the user of a session is told, and what is put off.                 *)

Untouched ==
  /\ obj.req = "none" /\ estabs = 0 /\ closes = 0 /\ sent = 0
  /\ ~owner /\ ~established /\ ~rtag /\ ~modpend /\ ~awaiting

(* The callbacks the application has had.                                   *)
Informed ==
  /\ obj.life = "none" => Untouched
  /\ closes \in {0, 1}
  /\ obj.terminated = 0 => closes = 0
  /\ obj.terminated # 0 /\ appref => closes = 1
  /\ obj.terminated = 0 /\ ~established => estabs = 0

(* What is on the wire, of our own and in answer to the peer.               *)
Exchanged ==
  /\ obj.req = "INVITE" => owner /\ ~established
  /\ owner /\ ~established => ~rtag /\ replies = {} /\ ~st
  /\ st => msg /\ replies = {} /\ ~established /\ obj.req = "none" /\ ~tmr
  /\ replies # {} => confirmed /\ obj.req # "reINVITE" /\ ~tmr
  /\ \A p \in replies : /\ p.id <= sent
                        /\ \A q \in replies : p.id = q.id => p = q

(* A reply whose ACK must bring an answer is the last that was sent.        *)
Awaited ==
  awaiting /\ obj.terminated = 0 =>
    \E r \in replies : r.awaiting /\ \A q \in replies : q.id <= r.id

Deals == Exchanged /\ ModifyHasTrigger /\ Awaited

SInv == IInv /\ Informed /\ Deals

(* What a step of a session in use may do to what its user sees.            *)
Frame ==
  /\ obj.life # "none" /\ obj'.life # "none" /\ owner' = owner
  /\ confirmed => confirmed'
  /\ established => established'
  /\ st' => st

Quiet  == UNCHANGED app /\ (obj.terminated = 0 <=> obj'.terminated = 0)
Drops  == appref /\ ~appref' /\ estabs' = estabs /\ closes' = closes
Closes ==
  /\ obj.terminated = 0 /\ obj'.terminated # 0
  /\ estabs' = estabs /\ closes' = closes + 1
Estabs ==
  /\ obj.terminated = 0 /\ ~established /\ established'
  /\ owner \/ (~st /\ confirmed)
  /\ estabs' = estabs + 1 /\ closes' = closes
  /\ appref' => obj'.terminated = 0

Acts == Frame /\ (Quiet \/ Drops \/ Closes \/ Estabs)

LEMMA StageFacts ==
  ASSUME IInv
  PROVE  /\ obj.terminated \in 0..2 /\ appref \in BOOLEAN
         /\ estabs \in Nat /\ closes \in Nat
         /\ obj.life # "none" /\ obj.terminated = 0 => appref /\ Live
         /\ obj.life = "none" => Blank
         /\ st => obj.terminated = 0
  BY DEF IInv, TypeOK, Object, Core, Held, Gone, Blank, Live

LEMMA InformedNext ==
  ASSUME IInv, IInv', Informed, Acts
  PROVE  Informed'
  <1>1. /\ closes \in {0, 1} /\ estabs \in Nat /\ obj.terminated \in 0..2
        /\ obj.terminated = 0 => closes = 0 /\ appref
        /\ obj.terminated # 0 /\ appref => closes = 1
        /\ obj.terminated = 0 /\ ~established => estabs = 0
        /\ obj'.terminated \in 0..2
        /\ obj'.terminated = 0 => appref'
    <2>1. obj'.terminated \in 0..2 /\ (obj'.terminated = 0 => appref')
      BY DEF Acts, Frame, IInv, TypeOK, Object, Core, Held, Gone, Blank
    <2> QED BY <2>1, StageFacts DEF Informed, Acts, Frame
  <1>2. /\ closes' \in {0, 1}
        /\ obj'.terminated = 0 => closes' = 0
        /\ obj'.terminated # 0 /\ appref' => closes' = 1
        /\ obj'.terminated = 0 /\ ~established' => estabs' = 0
    <2>1. CASE Quiet
      BY <1>1, <2>1 DEF Quiet, app, Acts, Frame
    <2>2. CASE Drops
      BY <1>1, <2>2 DEF Drops
    <2>3. CASE Closes
      BY <1>1, <2>3 DEF Closes
    <2>4. CASE Estabs
      BY <1>1, <2>4 DEF Estabs
    <2> QED BY <2>1, <2>2, <2>3, <2>4 DEF Acts
  <1> QED BY <1>2 DEF Informed, Acts, Frame

-----------------------------------------------------------------------------
(* The moves of SessionMoves.                                               *)

PhaseKnown ==
  /\ obj.life = "none" /\ ~appref => Phase = "idle"
  /\ obj.life # "none" /\ ~appref => Phase = "released"
  /\ obj.life # "none" /\ appref /\ closes > 0 => Phase = "ended"
  /\ obj.life # "none" /\ appref /\ closes = 0 /\ estabs > 0 => Phase = "up"
  /\ obj.life # "none" /\ appref /\ closes = 0 /\ estabs = 0 =>
       Phase = IF owner THEN "calling" ELSE IF st THEN "offered"
               ELSE IF confirmed THEN "answered" ELSE "rejected"

LEMMA PhaseLemma ==
  ASSUME TypeOK, TypeOK'
  PROVE  PhaseKnown /\ PhaseKnown'
  <1>1. appref \in BOOLEAN /\ closes \in Nat /\ estabs \in Nat
    BY DEF TypeOK
  <1>2. appref' \in BOOLEAN /\ closes' \in Nat /\ estabs' \in Nat
    BY DEF TypeOK
  <1>3. PhaseKnown
    BY <1>1 DEF PhaseKnown, Phase
  <1>4. PhaseKnown'
    BY <1>2 DEF PhaseKnown, Phase
  <1> QED BY <1>3, <1>4

LEMMA MovesLemma ==
  /\ \A to \in {"calling", "offered", "answered", "rejected"} :
       Service!Move("idle", to, "nothing") \in Service!Moves
  /\ \A to \in {"answered", "rejected"} :
       Service!Move("offered", to, "nothing") \in Service!Moves
  /\ Service!Move("rejected", "answered", "nothing") \in Service!Moves
  /\ \A p \in {"calling", "answered"}, to \in {"up", "released"} :
       Service!Move(p, to, "estab") \in Service!Moves
  /\ \A p \in {"calling", "offered", "answered", "rejected", "up"}, to \in {"ended", "released"} :
       Service!Move(p, to, "close") \in Service!Moves
  /\ \A p \in {"calling", "offered", "answered", "rejected", "up", "ended"} :
       Service!Move(p, "released", "nothing") \in Service!Moves
  <1>1. /\ \A to \in {"calling", "offered", "answered", "rejected"} :
             Service!Move("idle", to, "nothing") \in Service!Moves
        /\ \A to \in {"answered", "rejected"} :
             Service!Move("offered", to, "nothing") \in Service!Moves
        /\ Service!Move("rejected", "answered", "nothing") \in Service!Moves
    BY DEF Service!Moves
  <1>2. \A p \in {"calling", "answered"}, to \in {"up", "released"} :
          Service!Move(p, to, "estab") \in Service!Moves
    <2> SUFFICES ASSUME NEW p \in {"calling", "answered"}, NEW to \in {"up", "released"}
                 PROVE  Service!Move(p, to, "estab") \in Service!Moves
      OBVIOUS
    <2>1. Service!Move(p, to, "estab") \in Service!Told(p, "up", "estab")
      BY DEF Service!Told
    <2>2. p \in Service!Establishes
      BY DEF Service!Establishes
    <2>3. Service!Move(p, to, "estab") \in
            UNION {Service!Told(q, "up", "estab") : q \in Service!Establishes}
      BY <2>1, <2>2
    <2> QED BY <2>3 DEF Service!Moves
  <1>3. \A p \in {"calling", "offered", "answered", "rejected", "up"},
           to \in {"ended", "released"} :
          Service!Move(p, to, "close") \in Service!Moves
    <2> SUFFICES ASSUME NEW p \in {"calling", "offered", "answered", "rejected", "up"},
                        NEW to \in {"ended", "released"}
                 PROVE  Service!Move(p, to, "close") \in Service!Moves
      OBVIOUS
    <2>1. Service!Move(p, to, "close") \in Service!Told(p, "ended", "close")
      BY DEF Service!Told
    <2>2. p \in Service!Open
      BY DEF Service!Open, Service!InUse, Service!Phases
    <2>3. Service!Move(p, to, "close") \in
            UNION {Service!Told(q, "ended", "close") : q \in Service!Open}
      BY <2>1, <2>2
    <2> QED BY <2>3 DEF Service!Moves
  <1>4. \A p \in {"calling", "offered", "answered", "rejected", "up", "ended"} :
          Service!Move(p, "released", "nothing") \in Service!Moves
    <2> SUFFICES ASSUME NEW p \in {"calling", "offered", "answered", "rejected", "up", "ended"}
                 PROVE  Service!Move(p, "released", "nothing") \in Service!Moves
      OBVIOUS
    <2>1. p \in Service!InUse
      BY DEF Service!InUse, Service!Phases
    <2>2. Service!Move(p, "released", "nothing") \in
            {Service!Move(q, "released", "nothing") : q \in Service!InUse}
      BY <2>1
    <2> QED BY <2>2 DEF Service!Moves
  <1> QED BY <1>1, <1>2, <1>3, <1>4

LEMMA MoveStep ==
  ASSUME NEW tells, Service!Move(Phase, Phase', tells) \in Service!Moves,
         estabs' = IF tells = "estab" THEN estabs + 1 ELSE estabs,
         closes' = IF tells = "close" THEN closes + 1 ELSE closes
  PROVE  Service!Next
  <1>1. PICK m \in Service!Moves : m = Service!Move(Phase, Phase', tells)
    OBVIOUS
  <1>2. m.from = Phase /\ m.to = Phase' /\ m.tells = tells
    BY <1>1 DEF Service!Move
  <1>3. Service!Step(m)
    BY <1>2 DEF Service!Step
  <1> QED BY <1>3 DEF Service!Next

LEMMA ActsMove ==
  ASSUME IInv, IInv', Informed, Acts
  PROVE  Service!Next \/ UNCHANGED <<Phase, estabs, closes>>
  <1>1. PhaseKnown /\ PhaseKnown'
    BY PhaseLemma DEF IInv
  <1>2. /\ obj.life # "none" /\ obj'.life # "none" /\ owner' = owner
        /\ confirmed => confirmed'
        /\ st' => st
    BY DEF Acts, Frame
  <1>3. /\ appref \in BOOLEAN /\ appref' \in BOOLEAN /\ estabs \in Nat /\ closes \in {0, 1}
        /\ obj.terminated = 0 => closes = 0 /\ appref
        /\ obj.terminated # 0 /\ appref => closes = 1
        /\ obj.terminated = 0 /\ ~established => estabs = 0
        /\ owner \in BOOLEAN /\ st \in BOOLEAN /\ confirmed \in BOOLEAN
        /\ st' \in BOOLEAN /\ confirmed' \in BOOLEAN
    BY StageFacts, <1>2 DEF Informed, IInv, TypeOK
  <1>4. CASE Quiet
    <2>1. estabs' = estabs /\ closes' = closes /\ appref' = appref
      BY <1>4 DEF Quiet, app
    <2>2. CASE Phase' = Phase
      BY <2>1, <2>2
    <2>3. CASE Phase' # Phase
      <3>1. appref /\ closes = 0 /\ estabs = 0 /\ ~owner
        BY <1>1, <1>2, <1>3, <2>1, <2>3 DEF PhaseKnown
      <3>2. \/ Phase = "offered" /\ Phase' \in {"answered", "rejected"}
            \/ Phase = "rejected" /\ Phase' = "answered"
        BY <1>1, <1>2, <1>3, <2>1, <2>3, <3>1 DEF PhaseKnown
      <3>3. Service!Move(Phase, Phase', "nothing") \in Service!Moves
        BY <3>2, MovesLemma
      <3> QED BY <2>1, <3>3, MoveStep
    <2> QED BY <2>2, <2>3
  <1>5. CASE Drops
    <2>1. estabs' = estabs /\ closes' = closes /\ appref /\ ~appref'
      BY <1>5 DEF Drops
    <2>2. Phase' = "released"
      BY <1>1, <1>2, <2>1 DEF PhaseKnown
    <2>3. Phase \in {"calling", "offered", "answered", "rejected", "up", "ended"}
      BY <1>1, <1>2, <1>3, <2>1 DEF PhaseKnown
    <2>4. Service!Move(Phase, Phase', "nothing") \in Service!Moves
      BY <2>2, <2>3, MovesLemma
    <2> QED BY <2>1, <2>4, MoveStep
  <1>6. CASE Closes
    <2>1. estabs' = estabs /\ closes' = closes + 1 /\ appref /\ closes = 0
      BY <1>3, <1>6 DEF Closes
    <2>2. Phase' \in {"ended", "released"}
      BY <1>1, <1>2, <1>3, <2>1 DEF PhaseKnown
    <2>3. Phase \in {"calling", "offered", "answered", "rejected", "up"}
      BY <1>1, <1>2, <1>3, <2>1 DEF PhaseKnown
    <2>4. Service!Move(Phase, Phase', "close") \in Service!Moves
      BY <2>2, <2>3, MovesLemma
    <2> QED BY <2>1, <2>4, MoveStep
  <1>7. CASE Estabs
    <2>1. estabs' = estabs + 1 /\ closes' = closes /\ appref /\ closes = 0 /\ estabs = 0
          /\ (owner \/ (~st /\ confirmed))
      BY <1>3, <1>7 DEF Estabs
    <2>2. Phase' \in {"up", "released"}
      BY <1>1, <1>2, <1>3, <2>1 DEF PhaseKnown
    <2>3. Phase \in {"calling", "answered"}
      BY <1>1, <1>2, <1>3, <2>1 DEF PhaseKnown
    <2>4. Service!Move(Phase, Phase', "estab") \in Service!Moves
      BY <2>2, <2>3, MovesLemma
    <2> QED BY <2>1, <2>4, MoveStep
  <1> QED BY <1>4, <1>5, <1>6, <1>7 DEF Acts


-----------------------------------------------------------------------------
(* The ends of a handler, as its user sees them.                            *)

(* Teardown sends nothing but a BYE, and is not taken back.                 *)
LEMMA TermwaitOrTerminateStage ==
  ASSUME NEW o \in Object, NEW n \in 0..2, NEW hangup \in BOOLEAN, NEW e,
         NEW x, x = TermwaitOrTerminate(o, n, hangup, e)
  PROVE  x \in Object /\ x.life = o.life /\ x.terminated # 0 /\ x.req \in {o.req, "BYE"}
  <1>1. PICK w : w = termwait(o, n)
    OBVIOUS
  <1>2. w \in Object /\ w.life = o.life /\ w.req = o.req /\ w.terminated = 1
    BY <1>1, TermwaitLemma
  <1>3. CASE x = w
    BY <1>2, <1>3
  <1>4. CASE x = terminate(w, hangup, e)
    BY <1>2, <1>4, TerminateLemma
  <1> QED BY <1>1, <1>3, <1>4 DEF TermwaitOrTerminate

LEMMA DerefStage ==
  ASSUME NEW o \in Object, NEW n \in 0..2, NEW hangup \in BOOLEAN, NEW e,
         NEW d, d = mem_deref(o, n, hangup, e), o.life = "live"
  PROVE  /\ d.life # "none" /\ d.req \in {o.req, "BYE"}
         /\ o.terminated # 0 => d.terminated # 0
  <1>1. CASE o.refs > 1
    <2>1. d = [o EXCEPT !.refs = o.refs - 1]
      BY <1>1 DEF mem_deref
    <2> QED BY <2>1 DEF Object
  <1>2. CASE ~(o.refs > 1)
    <2>1. PICK z : z = [o EXCEPT !.refs = 0]
      OBVIOUS
    <2>2. z \in Object
      <3>1. 0 \in Nat
        OBVIOUS
      <3> QED BY <2>1, <3>1, Zenon DEF Object
    <2>3. z.life = "live" /\ z.req = o.req /\ z.terminated = o.terminated
      BY <2>1 DEF Object
    <2>4. PICK x : x = destructor(z, n, hangup, e)
      OBVIOUS
    <2>5. /\ x \in Object /\ x.life = "live" /\ x.req \in {o.req, "BYE"}
          /\ o.terminated # 0 => x.terminated # 0
      <3>1. CASE z.terminated = 0
        BY <2>2, <2>3, <2>4, <3>1, TermwaitOrTerminateStage DEF destructor
      <3>2. CASE z.terminated = 1
        <4>1. x = terminate(z, hangup, e)
          BY <2>4, <3>2 DEF destructor
        <4> QED BY <2>2, <2>3, <4>1, TerminateLemma
      <3>3. CASE z.terminated = 2
        BY <2>2, <2>3, <2>4, <3>3 DEF destructor
      <3> QED BY <2>2, <3>1, <3>2, <3>3 DEF Object
    <2>6. d = IF x.refs > 0 THEN x ELSE [x EXCEPT !.life = "freed"]
      BY <1>2, <2>1, <2>4 DEF mem_deref
    <2> QED BY <2>5, <2>6 DEF Object
  <1> QED BY <1>1, <1>2

LEMMA CloseStage ==
  ASSUME NEW o \in Object, NEW n \in 0..2, NEW hangup \in BOOLEAN, NEW e \in Env,
         NEW d, d = sipsess_terminate(o, n, hangup, e), o.life = "live"
  PROVE  d.life # "none" /\ d.req \in {o.req, "BYE"} /\ d.terminated # 0
  <1>1. PICK x : x = TermwaitOrTerminate(o, n, hangup, e)
    OBVIOUS
  <1>2. x \in Object /\ x.life = "live" /\ x.terminated # 0 /\ x.req \in {o.req, "BYE"}
    BY <1>1, TermwaitOrTerminateStage
  <1>3. CASE d = x
    BY <1>2, <1>3
  <1>4. CASE d = mem_deref(x, n, hangup, e)
    BY <1>2, <1>4, DerefStage
  <1> QED BY <1>1, <1>3, <1>4 DEF sipsess_terminate

LEMMA HangupKnown ==
  ASSUME IInv'
  PROVE  Hangup' \in BOOLEAN
  BY DEF IInv, TypeOK, Hangup

(* What every end of a handler does to the object: nothing new on the wire  *)
(* but a BYE.                                                               *)
Leaves(o) ==
  /\ obj'.life # "none" /\ obj'.req \in {o.req, "BYE"}
  /\ st' => st
  /\ tmr' => tmr

LEMMA CloseEnds ==
  ASSUME IInv, IInv', NEW o \in Object, NEW e \in Env, Close(o, e),
         o.life = "live", obj.terminated = 0
  PROVE  Closes /\ Leaves(o)
  <1>1. PICK d : d = sipsess_terminate(o, Pending', Hangup', e)
    OBVIOUS
  <1>2. d.life # "none" /\ d.req \in {o.req, "BYE"} /\ d.terminated # 0
    BY <1>1, CloseStage, PendingType, HangupKnown
  <1>3. Becomes(d) /\ estabs' = estabs /\ closes' = closes + 1
    BY <1>1 DEF Close
  <1> QED BY <1>2, <1>3 DEF Closes, Leaves, Becomes

LEMMA DerefEnds ==
  ASSUME IInv, IInv', NEW o \in Object, NEW e \in Env, Deref(o, e),
         o.life = "live", o.terminated # 0, obj.terminated # 0
  PROVE  Quiet /\ Leaves(o)
  <1>1. PICK d : d = mem_deref(o, Pending', Hangup', e)
    OBVIOUS
  <1>2. d.life # "none" /\ d.req \in {o.req, "BYE"} /\ d.terminated # 0
    BY <1>1, DerefStage, PendingType, HangupKnown
  <1>3. Becomes(d) /\ UNCHANGED app
    BY <1>1 DEF Deref
  <1> QED BY <1>2, <1>3 DEF Quiet, Leaves, Becomes

LEMMA CloseOrDerefEnds ==
  ASSUME IInv, IInv', NEW o, Same(o, obj), NEW e \in Env, CloseOrDeref(o, e), Live
  PROVE  (Quiet \/ Closes) /\ Leaves(o) /\ obj'.terminated # 0
  <1>1. o \in Object /\ o.life = "live" /\ o.terminated = obj.terminated
    BY DEF Same, Live
  <1>2. CASE o.terminated = 0
    BY <1>1, <1>2, CloseEnds DEF CloseOrDeref, Closes
  <1>3. CASE o.terminated # 0
    BY <1>1, <1>3, DerefEnds DEF CloseOrDeref, Quiet
  <1> QED BY <1>2, <1>3

LEMMA CallbackEnds ==
  ASSUME IInv, IInv', NEW o, Same(o, obj), NEW e \in Env, Callback(o, e), Live, appref
  PROVE  /\ Leaves(o)
         /\ \/ appref' = appref /\ obj' = o /\ (obj.terminated = 0 => st' = st /\ tmr' = tmr)
            \/ ~appref' /\ obj'.terminated # 0
  <1>1. o \in Object /\ o.life = "live" /\ o.terminated = obj.terminated
    BY DEF Same, Live
  <1>2. CASE ~e.release
    <2>1. Becomes(o) /\ appref'
      BY <1>2 DEF Callback
    <2>2. appref \in BOOLEAN /\ appref' \in BOOLEAN /\ st \in BOOLEAN /\ tmr \in BOOLEAN
          /\ st' \in BOOLEAN /\ tmr' \in BOOLEAN
      BY DEF IInv, TypeOK
    <2> QED BY <1>1, <2>1, <2>2 DEF Leaves, Becomes
  <1>3. CASE e.release
    <2>1. PICK d : d = mem_deref(o, Pending', Hangup', e)
      OBVIOUS
    <2>2. d.life # "none" /\ d.req \in {o.req, "BYE"}
      BY <1>1, <2>1, DerefStage, PendingType, HangupKnown
    <2>3. Becomes(d) /\ ~appref'
      BY <1>3, <2>1 DEF Callback
    <2>4. obj'.terminated # 0
      BY <2>2, <2>3, StageFacts DEF IInv, Core, Held, Gone, Blank, Becomes
    <2> QED BY <2>2, <2>3, <2>4 DEF Leaves, Becomes
  <1>4. e.release \in BOOLEAN
    BY DEF Env
  <1> QED BY <1>2, <1>3, <1>4

-----------------------------------------------------------------------------
(* What a step that sends no 2xx does to what is put off.                   *)

LEMMA DealsNext ==
  ASSUME SInv, owner' = owner, rtag' => rtag \/ established', confirmed => confirmed',
         replies' \subseteq replies, sent' = sent, established => established',
         established' => established \/ (obj'.req # "INVITE" /\ ~st'),
         st' => st /\ msg' /\ obj'.req = "none" /\ ~tmr',
         obj'.req = "INVITE" => obj.req = "INVITE",
         obj'.req = "reINVITE" => obj.req = "reINVITE" \/ replies' = {},
         tmr' => tmr \/ replies' = {},
         ModifyHasTrigger', Awaited'
  PROVE  Deals'
  <1>1. Exchanged'
    BY DEF SInv, Deals, Exchanged
  <1> QED BY <1>1 DEF Deals

LEMMA AwaitedSame ==
  ASSUME SInv, replies' = replies, awaiting' => awaiting,
         obj'.terminated = 0 => obj.terminated = 0
  PROVE  Awaited'
  BY DEF SInv, Deals, Awaited

(* One that leaves the talk alone but for the request in flight.            *)
LEMMA DealsKept ==
  ASSUME SInv, UNCHANGED <<owner, established, rtag, confirmed, replies, sent>>,
         awaiting' => awaiting,
         obj'.terminated = 0 => obj.terminated = 0,
         st' => st /\ msg' /\ obj'.req = "none" /\ ~tmr',
         obj'.req = "INVITE" => obj.req = "INVITE",
         obj'.req = "reINVITE" => obj.req = "reINVITE" \/ replies = {},
         tmr' => tmr \/ replies = {},
         ModifyHasTrigger'
  PROVE  Deals'
  BY DealsNext, AwaitedSame

(* One after which nothing can be put off.                                  *)
LEMMA DealsOver ==
  ASSUME SInv, IInv', obj'.terminated # 0, UNCHANGED <<owner, sent>>,
         replies' \subseteq replies,
         rtag' => rtag \/ established', confirmed => confirmed', established => established',
         established' => established \/ obj'.req # "INVITE",
         obj'.req = "INVITE" => obj.req = "INVITE",
         obj'.req = "reINVITE" => obj.req = "reINVITE" \/ replies' = {}
  PROVE  Deals'
  <1>1. ModifyHasTrigger' /\ Awaited' /\ ~st' /\ ~tmr'
    BY DEF ModifyHasTrigger, Awaited, IInv, Core
  <1> QED BY <1>1, DealsNext

(* A step after which the object is what it was but for its request.        *)
LEMMA StayActs ==
  ASSUME Live, Same(obj', obj), UNCHANGED <<app, owner>>, st' => st,
         confirmed => confirmed', established => established'
  PROVE  Acts
  BY DEF Live, Same, Acts, Frame, Quiet

(* The two ends of a session, with what the handler did to the dialog.      *)
LEMMA OverActs ==
  ASSUME SInv, IInv', Live, NEW o, Same(o, obj), o.req \in {obj.req, "none", "BYE"},
         Leaves(o), Quiet \/ Closes \/ Drops, obj'.terminated # 0, UNCHANGED <<owner, sent>>,
         replies' \subseteq replies,
         rtag' => rtag \/ established', confirmed => confirmed', established => established',
         established' => established \/ o.req # "INVITE"
  PROVE  Acts /\ Deals'
  <1>1. Acts
    BY DEF Acts, Frame, Leaves, Live
  <1>2. obj'.req \in {obj.req, "none", "BYE"} /\ (obj'.req = "INVITE" => o.req = "INVITE")
    BY DEF Leaves
  <1>3. Deals'
    BY <1>2, DealsOver
  <1> QED BY <1>1, <1>3

-----------------------------------------------------------------------------
(* Every action of a session in use keeps the invariant, and is a move of   *)
(* the service or none.                                                     *)

LEMMA UnansweredMoves ==
  ASSUME SInv, IInv', sipsess_progress \/ sipsess_answer \/ sipsess_reject
  PROVE  Acts /\ Deals'
  <1>1. /\ Live /\ st /\ obj \in Object
        /\ UNCHANGED <<obj, app, msg, modpend, desc, sentoffer, owner, established,
                       peerterm, rtag, rseq, info, tmr>>
    BY DEF sipsess_progress, sipsess_answer, sipsess_reject, Unanswered, offer, dialog,
           SInv, IInv, TypeOK
  <1>2. /\ msg /\ replies = {} /\ ~established /\ obj.req = "none" /\ ~tmr /\ ~owner
    BY <1>1 DEF SInv, Deals, Exchanged
  <1>3. CASE UNCHANGED <<replies, sent, awaiting, confirmed>>
    <2>1. Acts
      BY <1>1, <1>3, StayActs DEF Same
    <2>2. ModifyHasTrigger'
      BY <1>1, <1>3 DEF SInv, Deals, ModifyHasTrigger
    <2>3. Deals'
      BY <1>1, <1>2, <1>3, <2>2, DealsKept
    <2> QED BY <2>1, <2>3
  <1>4. ASSUME NEW awaits \in BOOLEAN, NEW e \in Env, e.send,
               sipsess_reply_2xx(1, awaits, e), ~st'
        PROVE  Acts /\ Deals'
    <2>1. /\ sent' = sent + 1 /\ confirmed' = TRUE /\ awaiting' = (awaiting \/ awaits)
          /\ replies' = {[id |-> sent + 1, cseq |-> 1, awaiting |-> awaits]}
      BY <1>2, <1>4 DEF sipsess_reply_2xx
    <2>2. Acts
      BY <1>1, <1>4, <2>1, StayActs DEF Same
    <2>3. obj.terminated = 0 => ~awaiting
      BY <1>2 DEF SInv, Deals, Awaited
    <2>4. Awaited'
      <3>1. PICK r \in replies' : r = [id |-> sent + 1, cseq |-> 1, awaiting |-> awaits]
        BY <2>1
      <3>2. sent + 1 \in Int
        BY DEF SInv, IInv, TypeOK
      <3>3. \A q \in replies' : q.id <= r.id
        BY <2>1, <3>1, <3>2
      <3> QED BY <1>1, <2>1, <2>3, <3>1, <3>3 DEF Awaited
    <2>5. ModifyHasTrigger'
      BY <2>1 DEF ModifyHasTrigger
    <2>6. Exchanged'
      <3>1. \A p \in replies' : p = [id |-> sent + 1, cseq |-> 1, awaiting |-> awaits]
        BY <2>1
      <3>2. \A p \in replies' : /\ p.id <= sent'
                                /\ \A q \in replies' : p.id = q.id => p = q
        <4>1. sent \in Int
          BY DEF SInv, IInv, TypeOK
        <4> QED BY <2>1, <3>1, <4>1
      <3> QED BY <1>1, <1>2, <1>4, <2>1, <3>2 DEF Exchanged
    <2> QED BY <2>2, <2>4, <2>5, <2>6 DEF Deals
  <1>5. CASE sipsess_answer
    <2>1. PICK awaits \in BOOLEAN, e \in Env : sipsess_reply_2xx(1, awaits, e)
      BY <1>5 DEF sipsess_answer
    <2>2. ~st'
      BY <1>5 DEF sipsess_answer
    <2>3. CASE ~e.send
      BY <1>3, <2>1, <2>3 DEF sipsess_reply_2xx
    <2> QED BY <1>4, <2>1, <2>2, <2>3
  <1>6. CASE sipsess_progress \/ sipsess_reject
    BY <1>3, <1>6 DEF sipsess_progress, sipsess_reject, offer, dialog
  <1> QED BY <1>5, <1>6

LEMMA ModifyMoves ==
  ASSUME SInv, IInv', sipsess_modify
  PROVE  Acts /\ Deals'
  <1>1. /\ Live /\ obj.terminated = 0 /\ obj \in Object /\ ~st
        /\ UNCHANGED <<app, uas, awaiting, dialog, info, tmr>>
    BY DEF sipsess_modify, SInv, IInv, TypeOK
  <1>2. /\ Same(obj', obj) /\ ModifyHasTrigger'
        /\ obj' = obj \/ (obj'.req \in {"none", "reINVITE"} /\ replies = {})
    <2>1. CASE obj.req # "none" \/ tmr \/ replies # {}
      <3>1. obj' = obj
        BY <2>1 DEF sipsess_modify
      <3> QED BY <1>1, <2>1, <3>1 DEF Same, ModifyHasTrigger, uas
    <2>2. CASE ~(obj.req # "none" \/ tmr \/ replies # {})
      <3>1. PICK e \in Env : obj' = sipsess_reinvite(obj, e)
        BY <2>2 DEF sipsess_modify
      <3>2. modpend' = FALSE
        BY <2>2 DEF sipsess_modify
      <3> QED BY <1>1, <2>2, <3>1, <3>2, ReinviteLemma DEF ModifyHasTrigger
    <2> QED BY <2>1, <2>2
  <1>3. Acts
    BY <1>1, <1>2, StayActs DEF uas, dialog
  <1>4. Deals'
    BY <1>1, <1>2, DealsKept DEF uas, dialog, Same
  <1> QED BY <1>3, <1>4

(* Steps that do not concern what is put off.                               *)
LEMMA QuietMoves ==
  ASSUME SInv, IInv', Live, UNCHANGED <<obj, app, uas, offer, owner, established, rtag,
                                        confirmed, tmr>>
  PROVE  Acts /\ Deals'
  <1>1. obj \in Object /\ (st => msg /\ obj.req = "none" /\ ~tmr)
    BY DEF SInv, IInv, TypeOK, Deals, Exchanged
  <1>2. Acts
    BY <1>1, StayActs DEF uas, Same
  <1>3. ModifyHasTrigger'
    BY DEF SInv, Deals, ModifyHasTrigger, uas, offer
  <1>4. Deals'
    BY <1>1, <1>3, DealsKept DEF uas, offer
  <1> QED BY <1>2, <1>4

LEMMA ReleaseMoves ==
  ASSUME SInv, IInv', Release
  PROVE  Acts /\ Deals'
  <1>1. /\ Live /\ appref /\ IInv
        /\ UNCHANGED <<estabs, closes, msg, replies, sent, offer, dialog, info>>
    BY DEF Release, SInv
  <1>2. PICK e \in Env : e.release /\ Callback(obj, e)
    BY DEF Release
  <1>3. Same(obj, obj) /\ ~appref'
    BY <1>1, <1>2 DEF Same, IInv, TypeOK, Callback
  <1>4. Leaves(obj) /\ obj'.terminated # 0
    BY <1>1, <1>2, <1>3, CallbackEnds
  <1>5. Drops
    BY <1>1, <1>3 DEF Drops
  <1> QED BY <1>1, <1>3, <1>4, <1>5, OverActs DEF dialog

LEMMA ProgressMoves ==
  ASSUME SInv, IInv', InviteProgress
  PROVE  Acts /\ Deals'
  <1>1. /\ Live /\ IInv /\ obj.terminated = 0 /\ appref
        /\ UNCHANGED <<estabs, closes, msg, replies, sent, offer, dialog, info>>
    BY LiveFacts DEF InviteProgress, SInv
  <1>2. PICK e \in Env : Callback(obj, e)
    BY DEF InviteProgress
  <1>3. Same(obj, obj)
    BY <1>1 DEF Same, IInv, TypeOK
  <1>4. CASE appref' = appref /\ obj' = obj /\ st' = st /\ tmr' = tmr
    BY <1>1, <1>4, QuietMoves DEF dialog, uas, app
  <1>5. CASE ~appref' /\ obj'.terminated # 0
    <2>1. Drops
      BY <1>1, <1>5 DEF Drops
    <2>2. Leaves(obj)
      BY <1>1, <1>2, <1>3, CallbackEnds
    <2> QED BY <1>1, <1>3, <1>5, <2>1, <2>2, OverActs DEF dialog
  <1> QED BY <1>1, <1>2, <1>3, <1>4, <1>5, CallbackEnds

(* The INVITE of ours in flight has not made a call yet.                    *)
LEMMA InviteOut ==
  ASSUME SInv, obj.req = "INVITE"
  PROVE  owner /\ ~established /\ ~rtag /\ replies = {} /\ ~st
  BY DEF SInv, Deals, Exchanged

LEMMA InviteAnsweredMoves ==
  ASSUME SInv, IInv', Live, obj.req = "INVITE", NEW e \in Env,
         NEW o, Same(o, obj), o.req = "none", InviteAnswered(o, e)
  PROVE  Acts /\ Deals'
  <1>1. /\ established' = TRUE /\ rtag' = TRUE /\ confirmed' = TRUE
        /\ UNCHANGED <<owner, peerterm, rseq, msg, replies, sent, info>>
    BY DEF InviteAnswered
  <1>2. owner /\ ~established /\ ~rtag /\ replies = {} /\ ~st /\ IInv
    BY InviteOut DEF SInv
  <1>3. CASE o.terminated # 0 \/ ~e.app \/ ~e.ack
    <2>1. CloseOrDeref(o, e)
      BY <1>3 DEF InviteAnswered
    <2>2. (Quiet \/ Closes) /\ Leaves(o) /\ obj'.terminated # 0
      BY <1>2, <2>1, CloseOrDerefEnds
    <2> QED BY <1>1, <1>2, <2>2, OverActs
  <1>4. ASSUME NEW x, Same(x, obj), x.req \in {"none", "reINVITE"}, Establish(x, e),
               o.terminated = 0, ~modpend', awaiting' = awaiting
        PROVE  Acts /\ Deals'
    <2>1. obj.terminated = 0 /\ appref /\ Callback(x, e)
      BY <1>2, <1>4, LiveFacts DEF Same, Establish
    <2>2. /\ Leaves(x)
          /\ \/ appref' = appref /\ obj' = x /\ (obj.terminated = 0 => st' = st /\ tmr' = tmr)
             \/ ~appref' /\ obj'.terminated # 0
      BY <1>2, <1>4, <2>1, CallbackEnds
    <2>3. appref' => obj' = x /\ obj'.terminated = 0
      BY <1>4, <2>1, <2>2 DEF Same
    <2>4. Estabs
      BY <1>1, <1>2, <1>4, <2>1, <2>3 DEF Estabs, Establish
    <2>5. Acts
      BY <1>1, <1>2, <2>2, <2>4 DEF Acts, Frame, Leaves, Live
    <2>6. /\ obj'.req \in {"none", "reINVITE", "BYE"} /\ ~st' /\ (tmr' => tmr)
      BY <1>2, <1>4, <2>2 DEF Leaves
    <2>7. ModifyHasTrigger'
      BY <1>4 DEF ModifyHasTrigger
    <2>8. Awaited'
      BY <1>1, <1>4, <2>1, AwaitedSame
    <2>9. Deals'
      BY <1>1, <1>2, <2>6, <2>7, <2>8, DealsNext
    <2> QED BY <2>5, <2>9
  <1>5. CASE ~(o.terminated # 0 \/ ~e.app \/ ~e.ack) /\ modpend /\ sentoffer
    <2>1. PICK x : x = sipsess_reinvite(o, e)
      OBVIOUS
    <2>2. OfferSent /\ Establish(x, e)
      BY <1>5, <2>1 DEF InviteAnswered
    <2>3. Same(x, obj) /\ x.req \in {"none", "reINVITE"}
      BY <2>1, ReinviteLemma DEF Same
    <2> QED BY <1>4, <1>5, <2>2, <2>3 DEF OfferSent
  <1>6. CASE ~(o.terminated # 0 \/ ~e.app \/ ~e.ack) /\ ~(modpend /\ sentoffer)
    <2>1. /\ modpend' = FALSE /\ desc' = FALSE /\ UNCHANGED <<awaiting, sentoffer>>
          /\ Establish(o, e)
      BY <1>6 DEF InviteAnswered
    <2> QED BY <1>4, <1>6, <2>1
  <1> QED BY <1>3, <1>5, <1>6

LEMMA InviteRefusedMoves ==
  ASSUME SInv, IInv', Live, obj.req = "INVITE", NEW e \in Env, NEW kind,
         NEW o, Same(o, obj), o.req = "none", InviteRefused(o, kind, e)
  PROVE  Acts /\ Deals'
  <1>1. UNCHANGED <<dialog, msg, replies, sent, info>> /\ IInv /\ ~st
    BY InviteOut DEF InviteRefused, SInv
  <1>2. CASE OfferSent /\ Keep(Sent(o, "INVITE", e))
    <2>1. PICK x : x = Sent(o, "INVITE", e)
      OBVIOUS
    <2>2. Same(x, obj) /\ x.req \in {"none", "INVITE"}
      BY <2>1, SentLemma DEF Same, Methods
    <2>3. /\ obj' = x /\ UNCHANGED <<app, st, tmr>>
          /\ modpend' = FALSE /\ awaiting' = awaiting
      BY <1>2, <2>1 DEF Keep, OfferSent
    <2>4. Acts
      BY <1>1, <2>2, <2>3, StayActs DEF dialog
    <2>5. ModifyHasTrigger'
      BY <2>3 DEF ModifyHasTrigger
    <2>6. Deals'
      BY <1>1, <2>2, <2>3, <2>5, DealsKept DEF dialog, Same
    <2> QED BY <2>4, <2>6
  <1>3. CASE CloseOrDeref(o, e)
    <2>1. (Quiet \/ Closes) /\ Leaves(o) /\ obj'.terminated # 0
      BY <1>1, <1>3, CloseOrDerefEnds
    <2> QED BY <1>1, <2>1, OverActs DEF dialog
  <1> QED BY <1>2, <1>3 DEF InviteRefused

LEMMA InviteRespMoves ==
  ASSUME SInv, IInv', NEW kind, invite_resp_handler(kind)
  PROVE  Acts /\ Deals'
  <1>1. Live /\ obj.req = "INVITE" /\ IInv
    BY DEF invite_resp_handler, SInv
  <1>2. PICK e \in Env : IF kind = "2xx" THEN InviteAnswered(Fresh(Done(obj)), e)
                         ELSE InviteRefused(Fail(Done(obj)), kind, e)
    BY DEF invite_resp_handler
  <1> QED BY <1>1, <1>2, FreshDone, InviteAnsweredMoves, InviteRefusedMoves

(* No answer of ours is unacknowledged while our re-INVITE is in flight.    *)
LEMMA ReinviteOut ==
  ASSUME SInv, obj.req = "reINVITE"
  PROVE  replies = {} /\ ~st
  BY DEF SInv, Deals, Exchanged

(* The re-INVITE is over and the handler keeps the session.                 *)
LEMMA ReinviteKept ==
  ASSUME SInv, IInv', Live, obj.req = "reINVITE", NEW x, Same(x, obj),
         x.req \in {"none", "reINVITE"}, obj' = x, UNCHANGED <<app, st>>,
         UNCHANGED <<dialog, msg, replies, sent, info>>, awaiting' = awaiting,
         ModifyHasTrigger'
  PROVE  Acts /\ Deals'
  <1>1. replies = {} /\ ~st
    BY ReinviteOut
  <1>2. Acts
    BY StayActs DEF dialog
  <1>3. Deals'
    BY <1>1, DealsKept DEF dialog, Same
  <1> QED BY <1>2, <1>3

LEMMA ReinviteEnded ==
  ASSUME SInv, IInv', Live, obj.req = "reINVITE", NEW o, Same(o, obj), o.req = "none",
         NEW e \in Env, CloseOrDeref(o, e), UNCHANGED <<dialog, msg, replies, sent, info>>
  PROVE  Acts /\ Deals'
  <1>1. (Quiet \/ Closes) /\ Leaves(o) /\ obj'.terminated # 0
    BY CloseOrDerefEnds DEF SInv
  <1> QED BY <1>1, OverActs DEF dialog

LEMMA ReinviteOverMoves ==
  ASSUME SInv, IInv', Live, obj.req = "reINVITE", NEW mp, NEW timeout,
         NEW e \in Env, NEW o, Same(o, obj), o.req = "none",
         ReinviteOver(o, mp, timeout, e), UNCHANGED <<dialog, msg, replies, sent, info>>
  PROVE  Acts /\ Deals'
  <1>1. CASE o.terminated # 0 \/ timeout
    <2>1. CloseOrDeref(o, e)
      BY <1>1 DEF ReinviteOver
    <2> QED BY <2>1, ReinviteEnded
  <1>2. CASE ~(o.terminated # 0 \/ timeout) /\ mp
    <2>1. PICK x : x = sipsess_reinvite(o, e)
      OBVIOUS
    <2>2. OfferSent /\ obj' = x /\ UNCHANGED <<app, st, tmr>>
      BY <1>2, <2>1 DEF ReinviteOver, Keep
    <2>3. Same(x, obj) /\ x.req \in {"none", "reINVITE"}
      BY <2>1, ReinviteLemma DEF Same
    <2> QED BY <2>2, <2>3, ReinviteKept DEF OfferSent, ModifyHasTrigger
  <1>3. CASE ~(o.terminated # 0 \/ timeout) /\ ~mp
    <2>1. /\ modpend' = FALSE /\ UNCHANGED <<awaiting, sentoffer>>
          /\ obj' = o /\ UNCHANGED <<app, st, tmr>>
      BY <1>3 DEF ReinviteOver, Keep
    <2> QED BY <2>1, ReinviteKept DEF ModifyHasTrigger
  <1> QED BY <1>1, <1>2, <1>3

LEMMA ReinviteRefusedMoves ==
  ASSUME SInv, IInv', Live, obj.req = "reINVITE", NEW kind, NEW e \in Env,
         NEW o, Same(o, obj), o.req = "none",
         ReinviteRefused(o, kind, e), UNCHANGED <<dialog, msg, replies, sent, info>>
  PROVE  Acts /\ Deals'
  <1>1. CASE ReinviteOver(o, modpend, FALSE, e)
    BY <1>1, ReinviteOverMoves
  <1>2. CASE ReinviteChallenged(o, e)
    <2>1. CASE ~e.app
      BY <1>1, <1>2, <2>1 DEF ReinviteChallenged
    <2>2. CASE e.app /\ e.send
      <3>1. PICK x : x = Sent(o, "reINVITE", e)
        OBVIOUS
      <3>2. OfferSent /\ obj' = x /\ UNCHANGED <<app, st, tmr>>
        BY <1>2, <2>2, <3>1 DEF ReinviteChallenged, Keep
      <3>3. Same(x, obj) /\ x.req \in {"none", "reINVITE"}
        BY <3>1, SentLemma DEF Same, Methods
      <3> QED BY <3>2, <3>3, ReinviteKept DEF OfferSent, ModifyHasTrigger
    <2>3. CASE e.app /\ ~e.send
      <3>1. /\ modpend' = FALSE /\ UNCHANGED awaiting
            /\ obj' = o /\ UNCHANGED <<app, st, tmr>>
        BY <1>2, <2>3 DEF ReinviteChallenged, Keep
      <3> QED BY <3>1, ReinviteKept DEF ModifyHasTrigger
    <2> QED BY <2>1, <2>2, <2>3
  <1>3. CASE o.terminated = 0 /\ Close(o, e)
    BY <1>3, ReinviteEnded DEF CloseOrDeref
  <1>4. CASE obj' = o /\ tmr' = TRUE /\ UNCHANGED <<app, st, offer>>
    <2>1. ModifyHasTrigger'
      BY <1>4 DEF ModifyHasTrigger
    <2> QED BY <1>4, <2>1, ReinviteKept DEF offer
  <1> QED BY <1>1, <1>2, <1>3, <1>4 DEF ReinviteRefused

LEMMA ReinviteRespMoves ==
  ASSUME SInv, IInv', NEW kind, reinvite_resp_handler(kind)
  PROVE  Acts /\ Deals'
  <1>1. /\ Live /\ obj.req = "reINVITE" /\ IInv
        /\ UNCHANGED <<dialog, msg, replies, sent, info>>
    BY DEF reinvite_resp_handler, SInv
  <1>2. PICK e \in Env :
          CASE kind = "2xx" ->
                 ReinviteOver(Fresh(Done(obj)), modpend /\ sentoffer, FALSE, e)
            [] kind = "timeout" -> ReinviteOver(Done(obj), modpend, TRUE, e)
            [] OTHER -> ReinviteRefused(Fail(Done(obj)), kind, e)
    BY DEF reinvite_resp_handler
  <1>3. CASE kind = "2xx"
    <2>1. PICK mp : mp = (modpend /\ sentoffer)
      OBVIOUS
    <2>2. ReinviteOver(Fresh(Done(obj)), mp, FALSE, e)
      BY <1>2, <1>3, <2>1
    <2> QED BY <1>1, <2>2, FreshDone, ReinviteOverMoves
  <1>4. CASE kind = "timeout"
    <2>1. ReinviteOver(Done(obj), modpend, TRUE, e)
      BY <1>2, <1>4
    <2> QED BY <1>1, <2>1, FreshDone, ReinviteOverMoves
  <1>5. CASE kind # "2xx" /\ kind # "timeout"
    <2>1. ReinviteRefused(Fail(Done(obj)), kind, e)
      BY <1>2, <1>5
    <2> QED BY <1>1, <2>1, FreshDone, ReinviteRefusedMoves
  <1> QED BY <1>3, <1>4, <1>5

LEMMA ByeRespMoves ==
  ASSUME SInv, IInv', NEW kind, bye_resp_handler(kind)
  PROVE  Acts /\ Deals'
  <1>1. /\ Live /\ obj.req = "BYE" /\ IInv /\ obj.terminated # 0
        /\ UNCHANGED <<msg, replies, sent, offer, dialog, info>>
    BY LiveFacts DEF bye_resp_handler, SInv, Staged
  <1>2. PICK o : o = Fail(Done(obj))
    OBVIOUS
  <1>3. PICK e \in Env : Keep(Sent(o, "BYE", e)) \/ Deref(o, e)
    BY <1>2 DEF bye_resp_handler
  <1>4. Same(o, obj) /\ o.req = "none"
    BY <1>1, <1>2, FreshDone
  <1>5. Quiet /\ Leaves(o) /\ obj'.terminated # 0
    <2>1. CASE Keep(Sent(o, "BYE", e))
      <3>1. PICK x : x = Sent(o, "BYE", e)
        OBVIOUS
      <3>2. Same(x, o) /\ x.req \in {"none", "BYE"}
        BY <1>4, <3>1, SentLemma DEF Same, Methods
      <3>3. obj' = x /\ UNCHANGED <<app, st, tmr>>
        BY <2>1, <3>1 DEF Keep
      <3> QED BY <1>1, <1>4, <3>2, <3>3 DEF Quiet, Leaves, Same, Live
    <2>2. CASE Deref(o, e)
      BY <1>1, <1>4, <2>2, DerefEnds DEF Same, Live, Quiet
    <2> QED BY <1>3, <2>1, <2>2
  <1> QED BY <1>1, <1>4, <1>5, OverActs DEF dialog

(* The end of an INFO, which may end the session too.                       *)
LEMMA InfoDoneMoves ==
  ASSUME SInv, IInv', Live, NEW i \in Infos, NEW dead \in BOOLEAN,
         dead => obj.terminated = 0, NEW e \in Env, InfoDone(i, dead, e)
  PROVE  Acts /\ Deals'
  <1>1. PICK o : o = IF dead THEN sipsess_terminate(obj, Pending, Hangup, e) ELSE obj
    OBVIOUS
  <1>2. PICK d : d = IF o.life # "live" THEN [o EXCEPT !.life = "corrupt"]
                     ELSE IF o.terminated # 0 /\ ~HasInfo(info')
                     THEN mem_deref(o, Pending', Hangup', e) ELSE o
    OBVIOUS
  <1>3. /\ closes' = closes + One(dead) /\ estabs' = estabs
        /\ appref' = (appref /\ ~(dead /\ e.release))
        /\ UNCHANGED <<msg, replies, sent, offer, dialog>>
        /\ Becomes(d)
    BY <1>1, <1>2 DEF InfoDone
  <1>4. /\ IInv /\ TypeOK /\ Same(obj, obj) /\ Hangup \in BOOLEAN /\ Hangup' \in BOOLEAN
        /\ appref' \in BOOLEAN
    BY <1>3 DEF SInv, IInv, TypeOK, Hangup, Same, dialog
  <1>5. /\ o \in Object /\ o.req \in {obj.req, "BYE"} /\ o.life # "none"
        /\ (dead \/ obj.terminated # 0) => o.terminated # 0
        /\ ~dead => o = obj
    <2>1. CASE dead
      <3>1. o = sipsess_terminate(obj, Pending, Hangup, e)
        BY <1>1, <2>1
      <3>2. appref' <=> ~e.release
        BY <1>3, <1>4, <2>1, LiveFacts
      <3>3. Sound(o, appref', Pending)
        BY <1>4, <2>1, <3>1, <3>2, CloseDownLemma, PendingType, LiveFacts DEF Live
      <3>4. o.life # "none" /\ o.req \in {obj.req, "BYE"} /\ o.terminated # 0
        BY <1>4, <3>1, CloseStage, PendingType, LiveFacts DEF Live
      <3> QED BY <2>1, <3>3, <3>4 DEF Sound, Staged
    <2>2. CASE ~dead
      <3>1. o = obj
        BY <1>1, <2>2
      <3> QED BY <1>4, <2>2, <3>1 DEF Same, Live
    <2> QED BY <2>1, <2>2
  <1>6. /\ d.life # "none" /\ d.req \in {obj.req, "BYE"}
        /\ (dead \/ obj.terminated # 0) => d.terminated # 0
        /\ ~dead /\ obj.terminated = 0 => d = obj
    <2>1. CASE o.life # "live"
      BY <1>2, <1>5, <2>1 DEF Object, Live
    <2>2. CASE o.life = "live" /\ o.terminated # 0 /\ ~HasInfo(info')
      <3>1. d = mem_deref(o, Pending', Hangup', e)
        BY <1>2, <2>2
      <3>2. d.life # "none" /\ d.req \in {o.req, "BYE"} /\ d.terminated # 0
        BY <1>4, <1>5, <2>2, <3>1, DerefStage, PendingType
      <3> QED BY <1>5, <2>2, <3>2
    <2>3. CASE o.life = "live" /\ ~(o.terminated # 0 /\ ~HasInfo(info'))
      <3>1. d = o
        BY <1>2, <2>3
      <3> QED BY <1>5, <3>1
    <2> QED BY <2>1, <2>2, <2>3
  <1>7. Leaves(obj)
    BY <1>3, <1>6 DEF Leaves, Becomes
  <1>8. CASE dead
    <2>1. Closes
      BY <1>3, <1>6, <1>8 DEF Closes, Becomes, One
    <2> QED BY <1>3, <1>4, <1>7, <2>1, OverActs DEF dialog, Closes
  <1>9. CASE ~dead /\ obj.terminated # 0
    <2>1. UNCHANGED app
      BY <1>3, <1>4, <1>9, LiveFacts DEF app, One, TypeOK
    <2>2. Quiet /\ obj'.terminated # 0
      BY <1>3, <1>6, <1>9, <2>1 DEF Quiet, Becomes
    <2> QED BY <1>3, <1>4, <1>7, <2>2, OverActs DEF dialog
  <1>10. CASE ~dead /\ obj.terminated = 0
    <2>1. UNCHANGED <<app, obj, st, tmr>>
      BY <1>3, <1>4, <1>6, <1>10, LiveFacts DEF app, One, TypeOK, Becomes, IInv
    <2> QED BY <1>3, <2>1, QuietMoves DEF uas, dialog
  <1> QED BY <1>8, <1>9, <1>10

LEMMA InfoRespMoves ==
  ASSUME SInv, IInv', NEW i \in Infos, NEW kind, info_resp_handler(i, kind)
  PROVE  Acts /\ Deals'
  <1>1. Live
    BY DEF info_resp_handler
  <1>2. CASE InfoRetried(i)
    BY <1>1, <1>2, QuietMoves DEF InfoRetried, dialog
  <1>3. \/ InfoRetried(i)
        \/ \E dead \in BOOLEAN, e \in Env : InfoDone(i, dead, e) /\ (dead => obj.terminated = 0)
    BY DEF info_resp_handler
  <1> QED BY <1>1, <1>2, <1>3, InfoDoneMoves

LEMMA PeerEndMoves ==
  ASSUME SInv, IInv', Live, obj.terminated = 0,
         UNCHANGED <<owner, established, rtag, confirmed, replies, sent>>,
         NEW e \in Env, Close(obj, e)
  PROVE  Acts /\ Deals'
  <1>1. IInv /\ Same(obj, obj)
    BY DEF SInv, IInv, TypeOK, Same
  <1>2. Closes /\ Leaves(obj)
    BY <1>1, CloseEnds DEF Same, Live
  <1> QED BY <1>1, <1>2, OverActs DEF Closes

LEMMA CancelMoves ==
  ASSUME SInv, IInv', cancel_handler
  PROVE  Acts /\ Deals'
  <1>1. Live /\ obj.terminated = 0
    BY LiveFacts DEF cancel_handler, SInv
  <1>2. PICK e \in Env : Close(obj, e)
    BY DEF cancel_handler
  <1> QED BY <1>1, <1>2, PeerEndMoves DEF cancel_handler

LEMMA ByeMoves ==
  ASSUME SInv, IInv', NEW c, bye_handler(c) \/ info_refer_handler(c)
  PROVE  Acts /\ Deals'
  <1>1. Live
    BY DEF bye_handler, info_refer_handler, InDialog
  <1>2. CASE info_refer_handler(c)
    BY <1>1, <1>2, QuietMoves DEF info_refer_handler
  <1>3. CASE bye_handler(c)
    <2>1. UNCHANGED <<owner, established, rtag, confirmed, msg, replies, sent, offer, info>>
      BY <1>3 DEF bye_handler
    <2>2. CASE obj.terminated # 0
      <3>1. UNCHANGED <<obj, app, st, tmr>>
        BY <1>3, <2>2 DEF bye_handler, Keep
      <3> QED BY <1>1, <2>1, <3>1, QuietMoves DEF uas
    <2>3. CASE obj.terminated = 0
      <3>1. PICK e \in Env : Close(obj, e)
        BY <1>3, <2>3 DEF bye_handler
      <3> QED BY <1>1, <2>1, <2>3, <3>1, PeerEndMoves
    <2> QED BY <2>2, <2>3
  <1> QED BY <1>2, <1>3

LEMMA PeerReinviteMoves ==
  ASSUME SInv, IInv', NEW c \in 1..MaxSeq, reinvite_handler(c)
  PROVE  Acts /\ Deals'
  <1>1. /\ Live /\ obj.terminated = 0 /\ rtag /\ TypeOK
        /\ UNCHANGED <<obj, app, st, msg, owner, established, peerterm, rtag, info>>
    BY DEF reinvite_handler, InDialog, SInv, IInv
  <1>2. PICK awaits \in BOOLEAN, e \in Env :
          IF Refuses \/ ~e.app
          THEN UNCHANGED <<replies, sent, offer, confirmed, tmr>>
          ELSE /\ sipsess_reply_2xx(c, awaits, e)
               /\ desc' = FALSE /\ modpend' = FALSE /\ tmr' = FALSE /\ UNCHANGED sentoffer
    BY DEF reinvite_handler
  <1>3. CASE Refuses \/ ~e.app
    BY <1>1, <1>2, <1>3, QuietMoves DEF uas
  <1>4. CASE ~(Refuses \/ ~e.app)
    <2>1. ~st /\ ~awaiting /\ obj.req = "none"
      BY <1>4 DEF Refuses
    <2>2. /\ sipsess_reply_2xx(c, awaits, e)
          /\ modpend' = FALSE /\ tmr' = FALSE
      BY <1>2, <1>4
    <2>3. ModifyHasTrigger'
      BY <2>2 DEF ModifyHasTrigger
    <2>4. CASE ~e.send
      <3>1. UNCHANGED <<replies, sent, awaiting, confirmed>>
        BY <2>2, <2>4 DEF sipsess_reply_2xx
      <3>2. Acts
        BY <1>1, <3>1, StayActs DEF Same, TypeOK
      <3>3. Deals'
        BY <1>1, <2>1, <2>2, <2>3, <3>1, DealsKept
      <3> QED BY <3>2, <3>3
    <2>5. CASE e.send
      <3>1. PICK n : n = [id |-> sent + 1, cseq |-> c, awaiting |-> awaits]
        OBVIOUS
      <3>2. /\ sent' = sent + 1 /\ confirmed' = TRUE /\ awaiting' = awaits
            /\ replies' = replies \cup {n}
            /\ n.id = sent + 1 /\ n.awaiting = awaits
        BY <2>1, <2>2, <2>5, <3>1 DEF sipsess_reply_2xx
      <3>3. Acts
        BY <1>1, <3>2, StayActs DEF Same, TypeOK
      <3>4. sent \in Int /\ \A q \in replies : q.id \in Int
        BY <1>1 DEF TypeOK, Reply
      <3>5. /\ \A p \in replies : /\ p.id <= sent
                                  /\ \A q \in replies : p.id = q.id => p = q
            /\ owner => established
        BY <1>1 DEF SInv, Deals, Exchanged
      <3>6. \A p \in replies' : /\ p.id <= sent'
                                /\ \A q \in replies' : p.id = q.id => p = q
        BY <3>2, <3>4, <3>5
      <3>7. Awaited'
        <4>1. \A q \in replies' : q.id <= n.id
          BY <3>2, <3>4, <3>5
        <4>2. n \in replies' /\ (awaiting' => n.awaiting)
          BY <3>2
        <4> QED BY <4>1, <4>2 DEF Awaited
      <3>8. Exchanged'
        BY <1>1, <2>1, <2>2, <3>2, <3>5, <3>6 DEF Exchanged
      <3> QED BY <2>3, <3>3, <3>7, <3>8 DEF Deals
    <2> QED BY <2>4, <2>5, <1>1 DEF Env
  <1> QED BY <1>3, <1>4

(* The rest of the replies still holds the one an answer is awaited from.   *)
LEMMA AwaitedLeft ==
  ASSUME SInv, NEW r \in replies, replies' = replies \ {r},
         awaiting' => awaiting, ~r.awaiting \/ ~awaiting' \/ (Oldest(r, replies) /\ replies' # {}),
         obj'.terminated = 0 => obj.terminated = 0
  PROVE  Awaited'
  <1> SUFFICES ASSUME awaiting', obj'.terminated = 0
               PROVE  \E w \in replies' : w.awaiting /\ \A q \in replies' : q.id <= w.id
    BY DEF Awaited
  <1>1. PICK w \in replies : w.awaiting /\ \A q \in replies : q.id <= w.id
    BY DEF SInv, Deals, Awaited
  <1>2. w # r
    <2>1. CASE ~r.awaiting
      BY <1>1, <2>1
    <2>2. CASE Oldest(r, replies) /\ replies' # {}
      <3>1. PICK q \in replies' : TRUE
        BY <2>2
      <3>2. q \in replies /\ q # r /\ r.id <= q.id /\ q.id <= w.id
        BY <1>1, <2>2, <3>1 DEF Oldest
      <3>3. q.id \in Int /\ r.id \in Int
        BY <3>2 DEF SInv, IInv, TypeOK, Reply
      <3>4. q.id # r.id
        BY <3>2 DEF SInv, Deals, Exchanged
      <3> QED BY <3>2, <3>3, <3>4
    <2> QED BY <2>1, <2>2
  <1> QED BY <1>1, <1>2

(* What a reply that waits for its ACK says of the session.                 *)
LEMMA ReplyOut ==
  ASSUME SInv, replies # {}
  PROVE  /\ confirmed /\ obj.req # "reINVITE" /\ ~tmr /\ ~st
         /\ owner => established
         /\ ~established => obj.req # "INVITE"
  BY DEF SInv, Deals, Exchanged

(* A session that is torn down, or is kept while other replies wait.        *)
LEMMA RepliesLeftMoves ==
  ASSUME SInv, IInv', Live, NEW r \in replies, replies' = replies \ {r}, replies' # {},
         Keep(obj), UNCHANGED <<owner, established, rtag, confirmed, sent, awaiting, msg>>,
         obj.terminated # 0 \/ Oldest(r, replies)
  PROVE  Acts /\ Deals'
  <1>1. /\ obj' = obj /\ UNCHANGED <<app, st, tmr>> /\ Same(obj, obj)
        /\ ~st /\ ~tmr /\ obj.req # "reINVITE"
    BY ReplyOut DEF Keep, Same, SInv, IInv, TypeOK
  <1>2. Acts
    BY <1>1, StayActs
  <1>3. Awaited'
    <2>1. CASE obj.terminated # 0
      BY <1>1, <2>1 DEF Awaited
    <2>2. CASE Oldest(r, replies)
      BY <1>1, <2>2, AwaitedLeft
    <2> QED BY <2>1, <2>2
  <1>4. ModifyHasTrigger'
    BY DEF ModifyHasTrigger
  <1>5. Deals'
    BY <1>1, <1>3, <1>4, DealsNext
  <1> QED BY <1>2, <1>5

LEMMA AckedMoves ==
  ASSUME SInv, IInv', Live, obj.terminated = 0, NEW r \in replies, replies' = replies \ {r},
         NEW e \in Env, Acked(r.awaiting, e), rtag,
         UNCHANGED <<owner, peerterm, rtag, rseq, confirmed, sent, info>>
  PROVE  Acts /\ Deals'
  <1>1. IInv /\ obj \in Object /\ obj.req \notin {"several", "BYE"} /\ appref
    BY LiveFacts DEF SInv, Staged
  <1>2. PICK o : o = IF SendsPostponed THEN sipsess_reinvite(obj, e) ELSE obj
    OBVIOUS
  <1>3. /\ awaiting' = (awaiting /\ ~r.awaiting)
        /\ IF SendsPostponed THEN modpend' = FALSE /\ sentoffer' = desc
           ELSE UNCHANGED <<modpend, sentoffer>>
        /\ UNCHANGED desc /\ established' = TRUE
        /\ IF established THEN UNCHANGED msg /\ Keep(o)
           ELSE /\ msg' = FALSE
                /\ IF r.awaiting /\ ~e.app THEN Close(o, e) ELSE Establish(o, e)
    BY <1>2 DEF Acked
  <1>4. /\ confirmed /\ obj.req # "reINVITE" /\ ~tmr /\ ~st
        /\ ~established => obj.req # "INVITE"
    BY ReplyOut
  <1>5. Same(o, obj) /\ o.req \in {obj.req, "reINVITE"} /\ (o.req = "reINVITE" => replies' = {})
    <2>1. CASE ~SendsPostponed
      BY <1>1, <1>2, <1>4, <2>1 DEF Same
    <2>2. CASE SendsPostponed
      <3>1. obj.req = "none" /\ replies' = {} /\ o = sipsess_reinvite(obj, e)
        BY <1>2, <2>2 DEF SendsPostponed
      <3>2. Same(o, obj) /\ o.req \in {"none", "reINVITE"}
        BY <1>1, <3>1, ReinviteLemma
      <3> QED BY <3>1, <3>2
    <2> QED BY <2>1, <2>2
  <1>6. obj'.terminated = 0 => obj.terminated = 0
    OBVIOUS
  <1>7. Awaited'
    BY <1>3, AwaitedLeft
  <1>8. obj' = o \/ obj'.terminated # 0 => ModifyHasTrigger'
    <2>1. CASE obj'.terminated # 0
      BY <2>1 DEF ModifyHasTrigger
    <2>2. CASE obj' = o /\ SendsPostponed
      BY <1>3, <2>2 DEF ModifyHasTrigger
    <2>3. CASE obj' = o /\ ~SendsPostponed
      BY <1>2, <1>3, <2>3 DEF ModifyHasTrigger, SendsPostponed
    <2> QED BY <2>1, <2>2, <2>3
  <1>9. ASSUME Acts, Leaves(o) \/ (obj' = o /\ UNCHANGED <<st, tmr>>),
               obj' = o \/ obj'.terminated # 0
        PROVE  Acts /\ Deals'
    <2>1. /\ obj'.req \in {o.req, "BYE"} /\ ~st' /\ ~tmr'
      BY <1>4, <1>9 DEF Leaves
    <2> QED BY <1>3, <1>4, <1>5, <1>7, <1>8, <1>9, <2>1, DealsNext
  <1>10. CASE Keep(o)
    <2>1. obj' = o /\ UNCHANGED <<app, st, tmr>>
      BY <1>10 DEF Keep
    <2>2. Acts
      BY <1>3, <1>5, <2>1, StayActs
    <2> QED BY <1>9, <2>1, <2>2
  <1>11. CASE ~established /\ Close(o, e)
    <2>1. Closes /\ Leaves(o)
      BY <1>1, <1>5, <1>11, CloseEnds DEF Same, Live
    <2>2. Acts
      BY <1>3, <2>1 DEF Acts, Frame, Leaves, Live
    <2> QED BY <1>9, <2>1, <2>2 DEF Closes
  <1>12. CASE ~established /\ Establish(o, e)
    <2>1. Callback(o, e) /\ estabs' = estabs + 1 /\ closes' = closes
      BY <1>12 DEF Establish
    <2>2. /\ Leaves(o)
          /\ \/ appref' = appref /\ obj' = o /\ (obj.terminated = 0 => st' = st /\ tmr' = tmr)
             \/ ~appref' /\ obj'.terminated # 0
      BY <1>1, <1>5, <2>1, CallbackEnds
    <2>3. Estabs
      BY <1>3, <1>4, <1>5, <1>12, <2>1, <2>2 DEF Estabs, Same
    <2>4. Acts
      BY <1>3, <2>2, <2>3 DEF Acts, Frame, Leaves, Live
    <2> QED BY <1>9, <2>2, <2>4
  <1> QED BY <1>3, <1>10, <1>11, <1>12

LEMMA AckMoves ==
  ASSUME SInv, IInv', NEW c \in 1..MaxSeq, ack_handler(c)
  PROVE  Acts /\ Deals'
  <1>1. /\ Live /\ rtag /\ IInv /\ Same(obj, obj)
        /\ UNCHANGED <<owner, peerterm, rtag, rseq, confirmed, sent, info>>
    BY DEF ack_handler, SInv, IInv, TypeOK, Same
  <1>2. PICK r \in replies, e \in Env :
          /\ replies' = replies \ {r}
          /\ IF obj.terminated = 0 THEN Acked(r.awaiting, e)
             ELSE /\ UNCHANGED <<offer, msg>>
                  /\ IF replies' # {} THEN UNCHANGED established /\ Keep(obj)
                     ELSE established' = TRUE /\ Deref(obj, e)
    BY DEF ack_handler
  <1>3. CASE obj.terminated = 0
    BY <1>1, <1>2, <1>3, AckedMoves
  <1>4. CASE obj.terminated # 0 /\ replies' # {}
    BY <1>1, <1>2, <1>4, RepliesLeftMoves DEF offer
  <1>5. CASE obj.terminated # 0 /\ replies' = {}
    <2>1. established' = TRUE /\ Deref(obj, e)
      BY <1>2, <1>5
    <2>2. Quiet /\ Leaves(obj) /\ obj'.terminated # 0
      BY <1>1, <1>5, <2>1, DerefEnds DEF Same, Live, Quiet
    <2>3. ~established => obj.req # "INVITE"
      BY <1>2, ReplyOut
    <2> QED BY <1>1, <1>2, <2>1, <2>2, <2>3, OverActs
  <1> QED BY <1>3, <1>4, <1>5

LEMMA ReplyTmrMoves ==
  ASSUME SInv, IInv', reply_tmr_handler
  PROVE  Acts /\ Deals'
  <1>1. /\ Live /\ IInv /\ Same(obj, obj)
        /\ UNCHANGED <<owner, peerterm, rtag, rseq, confirmed, msg, sent, offer, info>>
    BY DEF reply_tmr_handler, SInv, IInv, TypeOK, Same
  <1>2. PICK r \in replies, e \in Env :
          /\ Oldest(r, replies)
          /\ replies' = replies \ {r}
          /\ IF replies' # {} THEN UNCHANGED established /\ Keep(obj)
             ELSE established' = TRUE /\ CloseOrDeref(obj, e)
    BY DEF reply_tmr_handler
  <1>3. CASE replies' # {}
    BY <1>1, <1>2, <1>3, RepliesLeftMoves DEF offer
  <1>4. CASE replies' = {}
    <2>1. established' = TRUE /\ CloseOrDeref(obj, e)
      BY <1>2, <1>4
    <2>2. (Quiet \/ Closes) /\ Leaves(obj) /\ obj'.terminated # 0
      BY <1>1, <2>1, CloseOrDerefEnds
    <2>3. ~established => obj.req # "INVITE"
      BY <1>2, ReplyOut
    <2> QED BY <1>1, <1>2, <2>1, <2>2, <2>3, OverActs
  <1> QED BY <1>3, <1>4

LEMMA ModifyTmrMoves ==
  ASSUME SInv, IInv', modify_tmr_handler
  PROVE  Acts /\ Deals'
  <1>1. /\ Live /\ tmr /\ obj \in Object /\ UNCHANGED <<app, uas, dialog, info>>
    BY DEF modify_tmr_handler, SInv, IInv, TypeOK
  <1>2. replies = {} /\ ~st /\ tmr' = FALSE
    BY <1>1 DEF SInv, Deals, Exchanged, modify_tmr_handler
  <1>3. /\ Same(obj', obj) /\ ModifyHasTrigger' /\ awaiting' = awaiting
        /\ obj' = obj \/ obj'.req \in {"none", "reINVITE"}
    <2>1. CASE obj.req # "none"
      BY <1>1, <2>1 DEF modify_tmr_handler, offer, Same, ModifyHasTrigger
    <2>2. CASE obj.req = "none"
      <3>1. PICK e \in Env : obj' = sipsess_reinvite(obj, e)
        BY <2>2 DEF modify_tmr_handler
      <3>2. modpend' = FALSE /\ awaiting' = awaiting
        BY <2>2 DEF modify_tmr_handler, OfferSent
      <3> QED BY <1>1, <2>2, <3>1, <3>2, ReinviteLemma DEF ModifyHasTrigger
    <2> QED BY <2>1, <2>2
  <1>4. Acts
    BY <1>1, <1>3, StayActs DEF uas, dialog
  <1>5. Deals'
    BY <1>1, <1>2, <1>3, DealsKept DEF uas, dialog, Same
  <1> QED BY <1>4, <1>5

-----------------------------------------------------------------------------
(* The session begins.                                                      *)

LEMMA IdleFacts ==
  ASSUME SInv, obj.life = "none"
  PROVE  Untouched /\ Blank /\ Phase = "idle"
  <1>1. Blank
    BY StageFacts DEF SInv
  <1>2. Phase = "idle"
    BY <1>1 DEF Blank, Phase
  <1> QED BY <1>1, <1>2 DEF SInv, Informed

LEMMA ConnectMoves ==
  ASSUME SInv, IInv', sipsess_connect
  PROVE  Informed' /\ Deals' /\ Service!Next
  <1>1. PICK e \in Env :
          /\ obj.life = "none" /\ e.send
          /\ obj' = Sent(New, "INVITE", e) /\ owner' = TRUE /\ appref' = TRUE
          /\ UNCHANGED <<estabs, closes, uas, modpend, awaiting, established, rtag,
                         confirmed, tmr>>
    BY DEF sipsess_connect
  <1>2. Untouched /\ Blank /\ Phase = "idle"
    BY <1>1, IdleFacts
  <1>3. obj'.life = "live" /\ obj'.terminated = 0 /\ obj'.req = "INVITE"
    BY <1>1 DEF Sent, New
  <1>4. Informed'
    BY <1>1, <1>2, <1>3 DEF Informed, Untouched
  <1>5. Deals'
    <2>1. Exchanged'
      BY <1>1, <1>2, <1>3 DEF Exchanged, Untouched, Blank, uas
    <2>2. ModifyHasTrigger' /\ Awaited'
      BY <1>1, <1>2, <1>3 DEF ModifyHasTrigger, Awaited, Untouched
    <2> QED BY <2>1, <2>2 DEF Deals
  <1>6. Phase' = "calling"
    BY <1>1, <1>2, <1>3 DEF Phase, Untouched
  <1>7. Service!Move(Phase, Phase', "nothing") \in Service!Moves
    BY <1>2, <1>6, MovesLemma
  <1> QED BY <1>1, <1>4, <1>5, <1>7, MoveStep

LEMMA AcceptMoves ==
  ASSUME SInv, IInv', sipsess_accept
  PROVE  Informed' /\ Deals' /\ Service!Next
  <1>1. PICK final \in BOOLEAN, awaits \in BOOLEAN, e \in Env :
          /\ e.send
          /\ st' = ~final
          /\ IF final THEN sipsess_reply_2xx(1, awaits, e)
             ELSE UNCHANGED <<replies, sent, awaiting, confirmed>>
    BY DEF sipsess_accept
  <1>2. /\ obj.life = "none" /\ obj' = New /\ appref' = TRUE /\ msg' = TRUE
        /\ UNCHANGED <<estabs, closes, modpend, owner, established, tmr>>
    BY DEF sipsess_accept
  <1>3. Untouched /\ Blank /\ Phase = "idle"
    BY <1>2, IdleFacts
  <1>4. obj'.life = "live" /\ obj'.terminated = 0 /\ obj'.req = "none"
    BY <1>2 DEF New
  <1>5. Informed'
    BY <1>2, <1>3, <1>4 DEF Informed, Untouched
  <1>6. final => /\ sent' = 1 /\ confirmed' = TRUE /\ awaiting' = awaits
                 /\ replies' = {[id |-> 1, cseq |-> 1, awaiting |-> awaits]}
    BY <1>1, <1>3 DEF sipsess_reply_2xx, Untouched, Blank
  <1>7. ~final => replies' = {} /\ ~awaiting' /\ st'
    BY <1>1, <1>3 DEF Untouched, Blank
  <1>8. Deals'
    <2>1. ModifyHasTrigger'
      BY <1>2, <1>3 DEF ModifyHasTrigger, Untouched
    <2>2. CASE final
      <3>1. PICK n : n = [id |-> 1, cseq |-> 1, awaiting |-> awaits]
        OBVIOUS
      <3>2. replies' = {n} /\ n.id = 1 /\ n.awaiting = awaits
        BY <1>6, <2>2, <3>1
      <3>3. Awaited'
        <4>1. \A q \in replies' : q.id <= n.id
          BY <3>2
        <4>2. n \in replies' /\ (awaiting' => n.awaiting)
          BY <1>6, <2>2, <3>2
        <4> QED BY <4>1, <4>2 DEF Awaited
      <3>4. Exchanged'
        <4>1. \A p \in replies' : /\ p.id <= sent'
                                  /\ \A q \in replies' : p.id = q.id => p = q
          BY <1>6, <2>2, <3>2
        <4>2. /\ obj'.req = "none" /\ ~owner' /\ ~st' /\ ~tmr' /\ confirmed' = TRUE
          BY <1>1, <1>2, <1>3, <1>4, <1>6, <2>2 DEF Untouched, Blank
        <4> QED BY <4>1, <4>2 DEF Exchanged
      <3> QED BY <2>1, <3>3, <3>4 DEF Deals
    <2>3. CASE ~final
      <3>1. Awaited'
        BY <1>7, <2>3 DEF Awaited
      <3>2. Exchanged'
        BY <1>2, <1>3, <1>4, <1>7, <2>3 DEF Exchanged, Untouched, Blank
      <3> QED BY <2>1, <3>1, <3>2 DEF Deals
    <2> QED BY <2>2, <2>3
  <1>9. Phase' \in {"offered", "answered"}
    BY <1>1, <1>2, <1>3, <1>4, <1>6, <1>7 DEF Phase, Untouched
  <1>10. Service!Move(Phase, Phase', "nothing") \in Service!Moves
    BY <1>3, <1>9, MovesLemma
  <1> QED BY <1>2, <1>5, <1>8, <1>10, MoveStep

-----------------------------------------------------------------------------
(* What the session's user is told, for every run of the session.           *)

LEMMA SInit ==
  ASSUME Init
  PROVE  SInv /\ Service!Init
  <1>1. /\ obj.life = "none" /\ obj.terminated = 0 /\ obj.req = "none"
        /\ owner = FALSE /\ established = FALSE /\ rtag = FALSE /\ st = FALSE
        /\ replies = {} /\ sent = 0 /\ modpend = FALSE /\ awaiting = FALSE
        /\ appref = FALSE /\ estabs = 0 /\ closes = 0
    BY DEF Init
  <1>2. IInv
    BY InitLemma
  <1>3. Informed
    BY <1>1 DEF Informed, Untouched
  <1>4. Deals
    BY <1>1 DEF Deals, Exchanged, ModifyHasTrigger, Awaited
  <1>5. Phase = "idle"
    BY <1>1 DEF Phase
  <1> QED BY <1>1, <1>2, <1>3, <1>4, <1>5 DEF SInv, Service!Init

LEMMA SNext ==
  ASSUME SInv, [Next]_vars
  PROVE  SInv' /\ (Service!Next \/ UNCHANGED <<Phase, estabs, closes>>)
  <1>1. IInv /\ IInv' /\ Informed
    BY NextLemma DEF SInv
  <1>2. CASE Acts /\ Deals'
    BY <1>1, <1>2, InformedNext, ActsMove DEF SInv
  <1>3. CASE AppStep
    <2>1. CASE sipsess_connect \/ sipsess_accept
      BY <1>1, <2>1, ConnectMoves, AcceptMoves DEF SInv
    <2>2. CASE sipsess_progress \/ sipsess_answer \/ sipsess_reject
      BY <1>1, <1>2, <2>2, UnansweredMoves
    <2>3. CASE sipsess_modify
      BY <1>1, <1>2, <2>3, ModifyMoves
    <2>4. CASE Release
      BY <1>1, <1>2, <2>4, ReleaseMoves
    <2>5. ASSUME NEW i \in Infos, sipsess_info(i)
          PROVE  Acts /\ Deals'
      BY <1>1, <2>5, QuietMoves DEF sipsess_info, dialog
    <2> QED BY <1>2, <1>3, <2>1, <2>2, <2>3, <2>4, <2>5 DEF AppStep
  <1>4. CASE Response
    BY <1>1, <1>2, <1>4, ProgressMoves, InviteRespMoves, ReinviteRespMoves, ByeRespMoves,
       InfoRespMoves DEF Response
  <1>5. CASE PeerRequest
    BY <1>1, <1>2, <1>5, CancelMoves, ByeMoves, PeerReinviteMoves, AckMoves DEF PeerRequest
  <1>6. CASE Timer
    BY <1>1, <1>2, <1>6, ReplyTmrMoves, ModifyTmrMoves DEF Timer
  <1>7. CASE UNCHANGED vars
    <2>1. UNCHANGED <<obj, app, uas, offer, dialog, info, tmr>>
      BY <1>7 DEF vars
    <2>2. UNCHANGED <<obj, appref, estabs, closes, st, msg, replies, sent, modpend, awaiting,
                      owner, established, rtag, confirmed, tmr>>
      BY <2>1 DEF app, uas, offer, dialog
    <2>3. Informed'
      BY <1>1, <2>2 DEF Informed, Untouched
    <2>4. Deals'
      BY <2>2 DEF SInv, Deals, Exchanged, ModifyHasTrigger, Awaited
    <2>5. Phase' = Phase
      BY <2>2 DEF Phase
    <2> QED BY <1>1, <2>2, <2>3, <2>4, <2>5 DEF SInv
  <1> QED BY <1>3, <1>4, <1>5, <1>6, <1>7 DEF Next

LEMMA TalkInvariance == Spec => []SInv
  <1>1. Init => SInv
    BY SInit
  <1>2. SInv /\ [Next]_vars => SInv'
    BY SNext
  <1> QED BY <1>1, <1>2, PTL DEF Spec

(* The application hears of the end of a session it holds, exactly once,    *)
(* whichever handler meets the end first.                                   *)
THEOREM EndIsTold == Spec => []ToldOfEnd
  <1>1. SInv => ToldOfEnd
    BY DEF SInv, Informed, ToldOfEnd
  <1> QED BY <1>1, TalkInvariance, PTL

(* A modification waits for the ACK it must not cross and is not forgotten, *)
(* nor is the answer awaited in an ACK, nor the INVITE to be answered.      *)
THEOREM PutOffIsKept == Spec => []PutOffNotForgotten
  <1>1. SInv => PutOffNotForgotten
    <2> SUFFICES ASSUME SInv PROVE PutOffNotForgotten
      OBVIOUS
    <2>1. NoGlare /\ PendingInviteKept /\ ModifyHasTrigger
      BY DEF SInv, Deals, Exchanged, NoGlare, PendingInviteKept
    <2>2. AwaitingHasReply
      BY DEF SInv, Deals, Awaited, AwaitingHasReply
    <2> QED BY <2>1, <2>2 DEF PutOffNotForgotten, NothingForgotten
  <1> QED BY <1>1, TalkInvariance, PTL

(* Every handler moves the session, and calls its user back, only as the    *)
(* table of SessionMoves allows: SipSession implements SessionService.      *)
THEOREM Implements == Spec => ImplementsSession
  <1>1. Init => SInv /\ Service!Init
    BY SInit
  <1>2. SInv /\ [Next]_vars => [Service!Next]_<<Phase, estabs, closes>>
    BY SNext
  <1> QED BY <1>1, <1>2, TalkInvariance, PTL DEF Spec, ImplementsSession, Service!Spec

=============================================================================
