---------------------------- MODULE SipRegProofs ----------------------------
(***************************************************************************)
(* Theorems about SipReg, for any number of registration clients and any    *)
(* loop limit.                                                              *)
(***************************************************************************)
EXTENDS SipReg, TLAPS

(* A client between two steps; used says that baresip's register client     *)
(* points to it, bound that the registrar's binding is the one it made.     *)
Live(o, used, bound) ==
  /\ o.req # "several"
  /\ (o.req # "none") # o.tmr
  /\ o.terminated = ~used
  /\ o.terminated => o.req # "none"
  /\ o.expires = (o.req # "unREGISTER")
  /\ ~o.expires => o.terminated
  /\ o.req # "none" => o.failc # LoopMax
  /\ bound => o.registered \/ o.trouble \/ (o.req = "REGISTER" /\ o.answer = "2xx")
  /\ bound => ~(o.req = "unREGISTER" /\ o.answer = "2xx")

Inert(o, used, bound) ==
  /\ o.life # "corrupt" /\ ~used
  /\ o.req = "none" /\ ~o.tmr /\ ~o.ka
  /\ bound => o.life = "freed" /\ o.trouble

Steady(o, used, bound) ==
  /\ o \in Client
  /\ o.life = "live" => Live(o, used, bound)
  /\ o.life # "live" => Inert(o, used, bound)

(* A client inside a handler, its last request being over.                  *)
Handling(o, used, bound) ==
  /\ o \in Client
  /\ o.life = "live" /\ o.req = "none" /\ o.answer = "none" /\ ~o.tmr
  /\ o.terminated = ~used
  /\ ~o.expires => o.terminated
  /\ bound => o.trouble \/ (o.registered /\ o.expires)

IInv ==
  /\ TypeOK
  /\ \A i \in Regs : Steady(reg[i], i = cur, i = binding)
  /\ \A i \in Regs : i > created => reg[i] = Unused

-----------------------------------------------------------------------------
(* The operations on a client.                                              *)

LEMMA UnusedLemma ==
  /\ Unused \in Client /\ Unused.life = "none" /\ Unused.req = "none"
  /\ Unused.tmr = FALSE /\ Unused.ka = FALSE
  BY BoundsAssumption DEF Unused, Client, Answers

LEMMA RequestLemma ==
  ASSUME NEW o \in Client, NEW e \in Env, NEW x, x = request(o, e), o.req = "none"
  PROVE  /\ x \in Client
         /\ x.life = o.life /\ x.tmr = o.tmr /\ x.ka = o.ka /\ x.failc = o.failc
         /\ x.registered = o.registered /\ x.terminated = o.terminated
         /\ x.expires = (o.expires /\ ~o.terminated)
         /\ ~e.send => x.req = "none" /\ x.trouble
         /\ e.send => /\ x.req = IF x.expires THEN "REGISTER" ELSE "unREGISTER"
                      /\ x.answer = "none" /\ x.trouble = o.trouble
  <1>1. PICK b \in BOOLEAN : b = (o.expires /\ ~o.terminated)
    BY DEF Client
  <1>2. PICK y : y = [o EXCEPT !.expires = b]
    OBVIOUS
  <1>3. y \in Client
    BY <1>2, Zenon DEF Client
  <1>4. /\ y.life = o.life /\ y.tmr = o.tmr /\ y.ka = o.ka /\ y.failc = o.failc
        /\ y.registered = o.registered /\ y.terminated = o.terminated
        /\ y.expires = b /\ y.req = "none" /\ y.trouble = o.trouble
    BY <1>2 DEF Client
  <1>5. y = [o EXCEPT !.expires = @ /\ ~o.terminated]
    BY <1>1, <1>2, Zenon
  <1>6. CASE e.send
    <2>1. PICK m : m = IF y.expires THEN "REGISTER" ELSE "unREGISTER"
      OBVIOUS
    <2>2. x = [y EXCEPT !.req = m, !.answer = "none"]
      BY <1>4, <1>5, <1>6, <2>1 DEF request, Sent
    <2>3. m \in {"none", "REGISTER", "unREGISTER", "several"}
      BY <2>1
    <2>4. x \in Client
      BY <1>3, <2>2, <2>3, Zenon DEF Client
    <2> QED BY <1>1, <1>3, <1>4, <1>6, <2>1, <2>2, <2>4 DEF Client
  <1>7. CASE ~e.send
    <2>1. PICK t : t = TRUE
      OBVIOUS
    <2>2. x = [y EXCEPT !.trouble = t]
      BY <1>5, <1>7, <2>1 DEF request
    <2>3. x \in Client
      BY <1>3, <2>1, <2>2, Zenon DEF Client
    <2>4. x.trouble = t
      BY <1>3, <2>2 DEF Client
    <2>5. x.trouble
      BY <2>1, <2>4, Zenon
    <2>6. /\ x.life = y.life /\ x.tmr = y.tmr /\ x.ka = y.ka /\ x.failc = y.failc
          /\ x.registered = y.registered /\ x.terminated = y.terminated
          /\ x.expires = y.expires /\ x.req = y.req
      BY <1>3, <2>2 DEF Client
    <2> QED BY <1>1, <1>4, <1>7, <2>3, <2>5, <2>6
  <1> QED BY <1>6, <1>7

LEMMA ResetLemma ==
  ASSUME NEW o \in Client, NEW x, x = Reset(o)
  PROVE  /\ x \in Client /\ x.failc # LoopMax
         /\ x.life = o.life /\ x.req = o.req /\ x.answer = o.answer
         /\ x.tmr = o.tmr /\ x.ka = o.ka /\ x.expires = o.expires
         /\ x.registered = o.registered /\ x.terminated = o.terminated
         /\ x.trouble = o.trouble
  <1>1. 0 \in 0..LoopMax /\ 0 # LoopMax
    BY BoundsAssumption
  <1>2. x \in Client
    BY <1>1, Zenon DEF Reset, Client
  <1> QED BY <1>1, <1>2 DEF Reset, Client

LEMMA FreedLemma ==
  ASSUME NEW o \in Client, o.req = "none", NEW bound \in BOOLEAN, bound => o.trouble,
         NEW x, x = Freed(o)
  PROVE  Steady(x, FALSE, bound)
  <1>1. x \in Client
    BY Zenon DEF Freed, Client
  <1>2. /\ x.life = "freed" /\ x.req = "none" /\ x.tmr = FALSE /\ x.ka = FALSE
        /\ x.trouble = o.trouble
    BY DEF Freed, Client
  <1> QED BY <1>1, <1>2 DEF Steady, Inert

LEMMA SettleLemma ==
  ASSUME NEW o, NEW e \in Env, NEW used \in BOOLEAN, NEW bound \in BOOLEAN,
         Handling(o, used, bound), NEW x, x = Settle(o, e)
  PROVE  Steady(x, used, bound) /\ (o.terminated => x.req # "REGISTER")
  <1>1. o \in Client /\ o.life = "live" /\ o.req = "none" /\ ~o.tmr
    BY DEF Handling
  <1>2. o.expires \in BOOLEAN /\ o.terminated \in BOOLEAN /\ o.registered \in BOOLEAN
    BY <1>1 DEF Client
  <1>3. PICK s : s = Reset(o)
    OBVIOUS
  <1>4. /\ s \in Client /\ s.failc # LoopMax
        /\ s.life = o.life /\ s.req = o.req /\ s.answer = o.answer
        /\ s.tmr = o.tmr /\ s.ka = o.ka /\ s.expires = o.expires
        /\ s.registered = o.registered /\ s.terminated = o.terminated
        /\ s.trouble = o.trouble
    BY <1>1, <1>3, ResetLemma
  <1>5. PICK r : r = request(s, e)
    OBVIOUS
  <1>6. /\ r \in Client
        /\ r.life = s.life /\ r.tmr = s.tmr /\ r.ka = s.ka /\ r.failc = s.failc
        /\ r.registered = s.registered /\ r.terminated = s.terminated
        /\ r.expires = (s.expires /\ ~s.terminated)
        /\ ~e.send => r.req = "none" /\ r.trouble
        /\ e.send => /\ r.req = IF r.expires THEN "REGISTER" ELSE "unREGISTER"
                     /\ r.answer = "none" /\ r.trouble = s.trouble
    BY <1>1, <1>4, <1>5, RequestLemma
  <1>7. CASE ~o.expires \/ (o.terminated /\ ~o.registered)
    <2>1. o.terminated /\ ~used
      BY <1>7 DEF Handling
    <2>2. x = Freed(o)
      BY <1>1, <1>7, <2>1 DEF Settle, mem_deref, destructor
    <2>3. bound => o.trouble
      BY <1>7 DEF Handling
    <2>4. Steady(x, FALSE, bound)
      BY <1>1, <2>2, <2>3, FreedLemma
    <2>5. used = FALSE
      BY <2>1
    <2>6. x.req = "none"
      BY <1>1, <2>2 DEF Freed, Client
    <2>7. Steady(x, used, bound)
      BY <2>4, <2>5, Zenon
    <2> QED BY <2>6, <2>7
  <1>8. CASE ~(~o.expires \/ (o.terminated /\ ~o.registered)) /\ ~o.terminated
    <2>1. x = [o EXCEPT !.tmr = TRUE]
      BY <1>8 DEF Settle
    <2>2. x \in Client
      BY <1>1, <2>1, Zenon DEF Client
    <2>3. /\ x.life = o.life /\ x.req = o.req /\ x.answer = o.answer
          /\ x.tmr = TRUE /\ x.expires = o.expires /\ x.failc = o.failc
          /\ x.registered = o.registered /\ x.terminated = o.terminated
          /\ x.trouble = o.trouble
      BY <1>1, <2>1 DEF Client
    <2>4. Live(x, used, bound)
      BY <1>1, <1>2, <1>8, <2>3 DEF Handling, Live
    <2> QED BY <1>1, <1>8, <2>2, <2>3, <2>4 DEF Steady
  <1>9. CASE ~(~o.expires \/ (o.terminated /\ ~o.registered)) /\ o.terminated /\ e.send
    <2>1. x = r
      BY <1>3, <1>5, <1>9 DEF Settle
    <2>2. Live(x, used, bound)
      BY <1>1, <1>2, <1>4, <1>6, <1>9, <2>1 DEF Handling, Live
    <2> QED BY <1>1, <1>4, <1>6, <1>9, <2>1, <2>2 DEF Steady
  <1>10. CASE ~(~o.expires \/ (o.terminated /\ ~o.registered)) /\ o.terminated /\ ~e.send
    <2>1. ~used /\ r.terminated /\ r.life = "live" /\ r.req = "none" /\ r.trouble
      BY <1>1, <1>4, <1>6, <1>10 DEF Handling
    <2>2. x = Freed(r)
      BY <1>3, <1>5, <1>10, <2>1 DEF Settle, mem_deref, destructor
    <2>3. Steady(x, FALSE, bound)
      BY <1>6, <2>1, <2>2, FreedLemma
    <2>4. used = FALSE
      BY <2>1
    <2>5. x.req = "none"
      BY <1>6, <2>1, <2>2 DEF Freed, Client
    <2>6. Steady(x, used, bound)
      BY <2>3, <2>4, Zenon
    <2> QED BY <2>5, <2>6
  <1> QED BY <1>2, <1>7, <1>8, <1>9, <1>10

(* The client in use is dropped by its owner.                               *)
LEMMA DropLemma ==
  ASSUME NEW o, NEW e \in Env, NEW bound \in BOOLEAN, Steady(o, TRUE, bound),
         NEW x, x = mem_deref(o, e)
  PROVE  Steady(x, FALSE, bound)
  <1>1. o \in Client /\ o.life = "live" /\ Live(o, TRUE, bound)
    BY DEF Steady, Inert
  <1>2. ~o.terminated /\ o.registered \in BOOLEAN /\ o.tmr \in BOOLEAN
    BY <1>1 DEF Live, Client
  <1>3. PICK t : t = [o EXCEPT !.terminated = TRUE, !.tmr = FALSE]
    OBVIOUS
  <1>4. t \in Client
    BY <1>1, <1>3, Zenon DEF Client
  <1>5. /\ t.life = o.life /\ t.req = o.req /\ t.answer = o.answer
        /\ t.tmr = FALSE /\ t.ka = o.ka /\ t.expires = o.expires
        /\ t.registered = o.registered /\ t.terminated = TRUE
        /\ t.trouble = o.trouble /\ t.failc = o.failc
    BY <1>1, <1>3 DEF Client
  <1>6. x = destructor(o, e)
    BY <1>1 DEF mem_deref
  <1>7. CASE o.req # "none"
    <2>1. x = t
      BY <1>2, <1>3, <1>6, <1>7 DEF destructor
    <2>2. Live(x, FALSE, bound)
      BY <1>1, <1>2, <1>5, <1>7, <2>1 DEF Live
    <2> QED BY <1>1, <1>4, <1>5, <2>1, <2>2 DEF Steady
  <1>8. CASE o.req = "none" /\ ~o.registered
    <2>1. x = Freed(t)
      BY <1>2, <1>3, <1>6, <1>8 DEF destructor
    <2>2. bound => t.trouble
      BY <1>1, <1>5, <1>8 DEF Live
    <2> QED BY <1>4, <1>5, <1>8, <2>1, <2>2, FreedLemma
  <1>9. CASE o.req = "none" /\ o.registered
    <2>1. PICK s : s = Reset(t)
      OBVIOUS
    <2>2. /\ s \in Client /\ s.failc # LoopMax
          /\ s.life = t.life /\ s.req = t.req /\ s.answer = t.answer
          /\ s.tmr = t.tmr /\ s.ka = t.ka /\ s.expires = t.expires
          /\ s.registered = t.registered /\ s.terminated = t.terminated
          /\ s.trouble = t.trouble
      BY <1>4, <2>1, ResetLemma
    <2>3. PICK r : r = request(s, e)
      OBVIOUS
    <2>4. /\ r \in Client
          /\ r.life = s.life /\ r.tmr = s.tmr /\ r.ka = s.ka /\ r.failc = s.failc
          /\ r.registered = s.registered /\ r.terminated = s.terminated
          /\ r.expires = (s.expires /\ ~s.terminated)
          /\ ~e.send => r.req = "none" /\ r.trouble
          /\ e.send => /\ r.req = IF r.expires THEN "REGISTER" ELSE "unREGISTER"
                       /\ r.answer = "none" /\ r.trouble = s.trouble
      <3>1. s \in Client /\ s.req = "none"
        BY <1>5, <1>9, <2>2
      <3> QED BY <2>3, <3>1, RequestLemma
    <2>5. CASE e.send
      <3>1. x = r
        BY <1>2, <1>3, <1>6, <1>9, <2>1, <2>3, <2>5 DEF destructor
      <3>2. Live(x, FALSE, bound)
        BY <1>5, <1>9, <2>2, <2>4, <2>5, <3>1 DEF Live
      <3> QED BY <1>1, <1>5, <2>2, <2>4, <3>1, <3>2 DEF Steady
    <2>6. CASE ~e.send
      <3>1. x = Freed(r)
        BY <1>2, <1>3, <1>6, <1>9, <2>1, <2>3, <2>6 DEF destructor
      <3> QED BY <2>4, <2>6, <3>1, FreedLemma
    <2> QED BY <2>5, <2>6
  <1> QED BY <1>2, <1>7, <1>8, <1>9

(* The final response, or the end of the transaction without one.           *)
LEMMA ResponseLemma ==
  ASSUME NEW o, NEW used \in BOOLEAN, NEW bound \in BOOLEAN, Steady(o, used, bound),
         o.life = "live", o.req # "none",
         NEW e \in Env, NEW a \in Answers \cap {o.answer, "fail"},
         NEW x, x = response_handler(o, a, e)
  PROVE  Steady(x, used, bound) /\ (o.terminated => x.req # "REGISTER")
  <1>1. o \in Client /\ Live(o, used, bound)
    BY DEF Steady
  <1>2. PICK d : d = [o EXCEPT !.req = "none", !.answer = "none"]
    OBVIOUS
  <1>3. d \in Client
    BY <1>1, <1>2, Zenon DEF Client
  <1>4. /\ d.life = "live" /\ d.req = "none" /\ d.answer = "none" /\ ~d.tmr
        /\ d.ka = o.ka /\ d.expires = o.expires /\ d.failc = o.failc
        /\ d.registered = o.registered /\ d.terminated = o.terminated
        /\ d.trouble = o.trouble
    <2>1. ~o.tmr
      BY <1>1 DEF Live
    <2> QED BY <1>1, <1>2, <2>1 DEF Client
  <1>5. CASE a = "2xx"
    <2>1. PICK f \in BOOLEAN : f = (o.ka \/ (e.flow /\ ~o.terminated))
      BY <1>1 DEF Client
    <2>2. PICK s : s = Reset(d)
      OBVIOUS
    <2>3. /\ s \in Client
          /\ s.life = d.life /\ s.req = d.req /\ s.answer = d.answer
          /\ s.tmr = d.tmr /\ s.ka = d.ka /\ s.expires = d.expires
          /\ s.registered = d.registered /\ s.terminated = d.terminated
          /\ s.trouble = d.trouble
      BY <1>3, <2>2, ResetLemma
    <2>4. PICK y : y = [s EXCEPT !.registered = TRUE, !.ka = f]
      OBVIOUS
    <2>5. y \in Client
      BY <2>3, <2>4, Zenon DEF Client
    <2>6. /\ y.life = s.life /\ y.req = s.req /\ y.answer = s.answer
          /\ y.tmr = s.tmr /\ y.expires = s.expires
          /\ y.registered = TRUE /\ y.terminated = s.terminated
          /\ y.trouble = s.trouble
      BY <2>3, <2>4 DEF Client
    <2>7. y = [Reset(d) EXCEPT !.registered = TRUE,
                               !.ka = @ \/ (e.flow /\ ~o.terminated)]
      BY <1>4, <2>1, <2>2, <2>3, <2>4, Zenon
    <2>8. x = Settle(y, e)
      BY <1>2, <1>5, <2>7, Zenon DEF response_handler
    <2>9. o.answer = "2xx"
      BY <1>5
    <2>10. bound => o.expires
      BY <1>1, <2>9 DEF Live, Client
    <2>11. Handling(y, used, bound)
      BY <1>1, <1>4, <2>3, <2>5, <2>6, <2>10 DEF Handling, Live
    <2>12. y.terminated = o.terminated
      BY <1>4, <2>3, <2>6
    <2> QED BY <2>8, <2>11, <2>12, SettleLemma
  <1>6. CASE a # "2xx"
    <2>1. PICK g : g = Fail(d)
      OBVIOUS
    <2>2. o.failc + 1 \in 0..LoopMax
      BY <1>1, BoundsAssumption DEF Live, Client
    <2>3. g = [d EXCEPT !.failc = o.failc + 1]
      BY <1>3, <1>4, <2>1 DEF Fail, Client
    <2>4. g \in Client
      BY <1>3, <2>2, <2>3, Zenon DEF Client
    <2>5. /\ g.life = d.life /\ g.req = d.req /\ g.answer = d.answer
          /\ g.tmr = d.tmr /\ g.expires = d.expires /\ g.failc = o.failc + 1
          /\ g.registered = d.registered /\ g.terminated = d.terminated
          /\ g.trouble = d.trouble
      BY <1>3, <2>3 DEF Client
    <2>6. CASE Retries(o, a, e)
      <3>1. x = request(g, e)
        BY <1>2, <1>6, <2>1, <2>6 DEF response_handler
      <3>2. e.send
        BY <2>6 DEF Retries
      <3>3. g.failc # LoopMax
        BY <1>1, <2>5, <2>6 DEF Retries, Loops, Fail, Client
      <3>4. a = o.answer /\ o.answer # "2xx"
        BY <1>6, <2>6 DEF Retries
      <3>5. g \in Client /\ g.req = "none"
        BY <1>4, <2>4, <2>5
      <3>6. /\ x \in Client
            /\ x.life = g.life /\ x.tmr = g.tmr /\ x.failc = g.failc
            /\ x.registered = g.registered /\ x.terminated = g.terminated
            /\ x.expires = (g.expires /\ ~g.terminated)
            /\ x.req = IF x.expires THEN "REGISTER" ELSE "unREGISTER"
            /\ x.answer = "none" /\ x.trouble = g.trouble
        BY <3>1, <3>2, <3>5, RequestLemma
      <3>7. bound => o.registered \/ o.trouble
        BY <1>1, <3>4 DEF Live
      <3>8. Live(x, used, bound)
        <4>1. o.expires \in BOOLEAN /\ o.terminated \in BOOLEAN /\ (~o.expires => o.terminated)
          BY <1>1 DEF Live, Client
        <4>2. o.terminated = ~used
          BY <1>1 DEF Live
        <4>3. /\ x.failc # LoopMax /\ x.tmr = FALSE /\ x.terminated = o.terminated
              /\ x.expires = ~o.terminated
          BY <1>3, <1>4, <2>5, <3>3, <3>6, <4>1 DEF Client
        <4> QED BY <1>4, <2>5, <3>6, <3>7, <4>1, <4>2, <4>3 DEF Live
      <3>9. x.life = "live"
        BY <1>4, <2>5, <3>6
      <3>10. o.terminated => x.req # "REGISTER"
        BY <1>4, <2>5, <3>6
      <3> QED BY <3>6, <3>8, <3>9, <3>10 DEF Steady
    <2>7. CASE ~Retries(o, a, e)
      <3>1. PICK t : t = TRUE
        OBVIOUS
      <3>2. PICK y : y = [g EXCEPT !.trouble = t]
        OBVIOUS
      <3>3. x = Settle(y, e)
        BY <1>2, <1>6, <2>1, <2>7, <3>1, <3>2 DEF response_handler
      <3>4. y \in Client
        BY <2>4, <3>1, <3>2, Zenon DEF Client
      <3>5. y.trouble = t
        BY <2>4, <3>2 DEF Client
      <3>6. y.trouble
        BY <3>1, <3>5, Zenon
      <3>7. /\ y.life = g.life /\ y.req = g.req /\ y.answer = g.answer
            /\ y.tmr = g.tmr /\ y.expires = g.expires
            /\ y.registered = g.registered /\ y.terminated = g.terminated
        BY <2>4, <3>2 DEF Client
      <3>8. Handling(y, used, bound)
        BY <1>1, <1>4, <2>5, <3>4, <3>6, <3>7 DEF Handling, Live
      <3>9. y.terminated = o.terminated
        BY <1>4, <2>5, <3>7
      <3> QED BY <3>3, <3>8, <3>9, SettleLemma
    <2> QED BY <2>6, <2>7
  <1> QED BY <1>5, <1>6

(* Losing the binding to another client changes nothing for this one.       *)
LEMMA UnboundLemma ==
  ASSUME NEW o, NEW used, NEW bound, Steady(o, used, bound)
  PROVE  Steady(o, used, FALSE)
  BY DEF Steady, Live, Inert

-----------------------------------------------------------------------------
(* The steps.                                                               *)

(* A step of client i that makes it o and leaves the others alone.          *)
LEMMA BecomesLemma ==
  ASSUME IInv, NEW i \in Regs, NEW o, Becomes(i, o),
         Steady(o, i = cur, i = binding), i <= created,
         scode' \in {"none", "2xx", "error"}, attempt' \in BOOLEAN
  PROVE  IInv'
  <1>1. /\ cur' = cur /\ created' = created /\ binding' = binding
        /\ reg' = [reg EXCEPT ![i] = o]
    BY DEF Becomes
  <1>2. o \in Client
    BY DEF Steady
  <1>3. TypeOK'
    BY <1>1, <1>2 DEF IInv, TypeOK
  <1>4. \A j \in Regs : reg'[j] = IF j = i THEN o ELSE reg[j]
    BY <1>1 DEF IInv, TypeOK
  <1>5. ASSUME NEW j \in Regs PROVE Steady(reg'[j], j = cur', j = binding')
    <2>1. CASE j = i
      <3>1. reg'[j] = o
        BY <1>4, <2>1
      <3> QED BY <1>1, <2>1, <3>1
    <2>2. CASE j # i
      <3>1. reg'[j] = reg[j]
        BY <1>4, <2>2
      <3>2. Steady(reg[j], j = cur, j = binding)
        BY DEF IInv
      <3> QED BY <1>1, <3>1, <3>2
    <2> QED BY <2>1, <2>2
  <1>6. ASSUME NEW j \in Regs, j > created' PROVE reg'[j] = Unused
    <2>1. j # i
      BY <1>1, <1>6 DEF IInv, TypeOK, Regs
    <2> QED BY <1>1, <1>4, <1>6, <2>1 DEF IInv
  <1> QED BY <1>3, <1>5, <1>6 DEF IInv

(* A client that is alive is one that has been created.                     *)
LEMMA CreatedLemma ==
  ASSUME IInv, NEW i \in Regs, reg[i].life = "live"
  PROVE  i <= created
  <1>1. CASE i > created
    BY <1>1, UnusedLemma DEF IInv
  <1> QED BY <1>1 DEF IInv, TypeOK, Regs

LEMMA TimerStep == ASSUME IInv, NEW i \in Regs, tmr_handler(i) PROVE IInv'
  <1>1. PICK o : o = reg[i]
    OBVIOUS
  <1>2. Steady(o, i = cur, i = binding) /\ o.tmr
    BY <1>1 DEF IInv, tmr_handler
  <1>3. o \in Client /\ o.life = "live" /\ Live(o, i = cur, i = binding)
    BY <1>2 DEF Steady, Inert
  <1>4. PICK e \in Env : /\ Becomes(i, [request(Reset(o), e) EXCEPT !.tmr = ~e.send])
                         /\ scode' = IF e.send THEN scode ELSE "error"
    BY <1>1 DEF tmr_handler
  <1>5. PICK s : s = Reset(o)
    OBVIOUS
  <1>6. /\ s \in Client /\ s.failc # LoopMax
        /\ s.life = o.life /\ s.req = o.req /\ s.answer = o.answer
        /\ s.tmr = o.tmr /\ s.ka = o.ka /\ s.expires = o.expires
        /\ s.registered = o.registered /\ s.terminated = o.terminated
        /\ s.trouble = o.trouble
    BY <1>3, <1>5, ResetLemma
  <1>7. o.req = "none" /\ ~o.terminated /\ o.expires
    BY <1>2, <1>3 DEF Live
  <1>8. PICK r : r = request(s, e)
    OBVIOUS
  <1>9. /\ r \in Client
        /\ r.life = s.life /\ r.tmr = s.tmr /\ r.failc = s.failc
        /\ r.registered = s.registered /\ r.terminated = s.terminated
        /\ r.expires = (s.expires /\ ~s.terminated)
        /\ ~e.send => r.req = "none" /\ r.trouble
        /\ e.send => /\ r.req = IF r.expires THEN "REGISTER" ELSE "unREGISTER"
                     /\ r.answer = "none" /\ r.trouble = s.trouble
    <2>1. s \in Client /\ s.req = "none"
      BY <1>6, <1>7
    <2> QED BY <1>8, <2>1, RequestLemma
  <1>10. PICK b \in BOOLEAN : b = ~e.send
    BY DEF Env
  <1>11. PICK x : x = [r EXCEPT !.tmr = b]
    OBVIOUS
  <1>12. x \in Client
    BY <1>9, <1>11, Zenon DEF Client
  <1>13. /\ x.life = r.life /\ x.tmr = b /\ x.failc = r.failc /\ x.req = r.req
         /\ x.registered = r.registered /\ x.terminated = r.terminated
         /\ x.expires = r.expires /\ x.answer = r.answer /\ x.trouble = r.trouble
    BY <1>9, <1>11 DEF Client
  <1>14. Becomes(i, x)
    BY <1>4, <1>5, <1>8, <1>10, <1>11, Zenon
  <1>15. Live(x, i = cur, i = binding)
    <2>1. (i = binding) => o.registered \/ o.trouble
      BY <1>3, <1>7 DEF Live
    <2>2. o.terminated = ~(i = cur) /\ e.send \in BOOLEAN
      BY <1>3 DEF Live, Env
    <2>3. (i = cur) /\ x.terminated = FALSE /\ x.expires = TRUE
      BY <1>3, <1>6, <1>7, <1>9, <1>13, <2>2 DEF Client
    <2>4. CASE e.send
      <3>1. x.req = "REGISTER" /\ x.answer = "none" /\ x.tmr = FALSE
        BY <1>6, <1>7, <1>9, <1>10, <1>13, <2>4
      <3> QED BY <1>6, <1>9, <1>13, <2>1, <2>3, <2>4, <3>1 DEF Live
    <2>5. CASE ~e.send
      <3>1. x.req = "none" /\ x.tmr = TRUE /\ x.trouble
        BY <1>9, <1>10, <1>13, <2>5
      <3> QED BY <1>6, <1>9, <1>13, <2>3, <3>1 DEF Live
    <2> QED BY <2>4, <2>5
  <1>16. Steady(x, i = cur, i = binding)
    BY <1>3, <1>6, <1>9, <1>12, <1>13, <1>15 DEF Steady
  <1>17. i <= created
    BY <1>1, <1>3, CreatedLemma
  <1>18. scode' \in {"none", "2xx", "error"} /\ attempt' \in BOOLEAN
    BY <1>4 DEF IInv, TypeOK, tmr_handler
  <1> QED BY <1>14, <1>16, <1>17, <1>18, BecomesLemma

(* With no request outstanding the client's timer is armed already.         *)
LEMMA KeepaliveStep == ASSUME IInv, NEW i \in Regs, keepalive_handler(i) PROVE IInv'
  <1>1. PICK o : o = reg[i]
    OBVIOUS
  <1>2. Steady(o, i = cur, i = binding) /\ o.ka
    BY <1>1 DEF IInv, keepalive_handler
  <1>3. o \in Client /\ o.life = "live" /\ Live(o, i = cur, i = binding)
    BY <1>2 DEF Steady, Inert
  <1>4. PICK b : b = (o.tmr \/ (o.req = "none" /\ ~o.terminated))
    OBVIOUS
  <1>5. b = o.tmr
    BY <1>3, <1>4 DEF Live, Client
  <1>6. PICK x : x = [o EXCEPT !.ka = FALSE, !.tmr = b]
    OBVIOUS
  <1>7. b \in BOOLEAN
    BY <1>3, <1>5 DEF Client
  <1>8. x \in Client
    BY <1>3, <1>6, <1>7, Zenon DEF Client
  <1>9. /\ x.life = o.life /\ x.tmr = o.tmr /\ x.failc = o.failc /\ x.req = o.req
        /\ x.registered = o.registered /\ x.terminated = o.terminated
        /\ x.expires = o.expires /\ x.answer = o.answer /\ x.trouble = o.trouble
    BY <1>3, <1>5, <1>6 DEF Client
  <1>10. Becomes(i, x)
    BY <1>1, <1>4, <1>6, Zenon DEF keepalive_handler
  <1>11. Steady(x, i = cur, i = binding)
    BY <1>3, <1>8, <1>9 DEF Steady, Live
  <1>12. i <= created
    BY <1>1, <1>3, CreatedLemma
  <1>13. scode' \in {"none", "2xx", "error"} /\ attempt' \in BOOLEAN
    BY DEF IInv, TypeOK, keepalive_handler
  <1> QED BY <1>10, <1>11, <1>12, <1>13, BecomesLemma

LEMMA AnsweredStep == ASSUME IInv, NEW i \in Regs, Answered(i) PROVE IInv'
  <1>1. PICK o : o = reg[i]
    OBVIOUS
  <1>2. PICK e \in Env, a \in Answers \cap {o.answer, "fail"} :
          /\ Becomes(i, response_handler(o, a, e))
          /\ scode' \in {scode, "2xx", "error"}
    BY <1>1 DEF Answered
  <1>3. PICK x : x = response_handler(o, a, e)
    OBVIOUS
  <1>4. Steady(o, i = cur, i = binding) /\ o.life = "live" /\ o.req # "none"
    BY <1>1 DEF IInv, Answered
  <1>5. Steady(x, i = cur, i = binding)
    BY <1>3, <1>4, ResponseLemma
  <1>6. i <= created
    BY <1>1, <1>4, CreatedLemma
  <1>7. scode' \in {"none", "2xx", "error"} /\ attempt' \in BOOLEAN
    BY <1>2 DEF IInv, TypeOK, Answered
  <1> QED BY <1>2, <1>3, <1>5, <1>6, <1>7, BecomesLemma

LEMMA RegistrarStep == ASSUME IInv, NEW i \in Regs, Registrar(i) PROVE IInv'
  <1>1. PICK o : o = reg[i]
    OBVIOUS
  <1>2. Steady(o, i = cur, i = binding) /\ o.req # "none" /\ o.answer = "none"
    BY <1>1 DEF IInv, Registrar
  <1>3. o \in Client /\ o.life = "live" /\ Live(o, i = cur, i = binding)
    BY <1>2 DEF Steady, Inert
  <1>4. PICK a \in Answers :
          /\ reg' = [reg EXCEPT ![i].answer = a]
          /\ binding' = IF a # "2xx" THEN binding
                        ELSE IF o.req = "REGISTER" THEN i ELSE 0
    BY <1>1 DEF Registrar
  <1>5. PICK x : x = [o EXCEPT !.answer = a]
    OBVIOUS
  <1>6. reg \in [Regs -> Client] /\ cur \in 0..MaxRegs /\ binding \in 0..MaxRegs
    BY DEF IInv, TypeOK
  <1>7. x \in Client
    BY <1>3, <1>5, Zenon DEF Client
  <1>8. /\ x.life = o.life /\ x.tmr = o.tmr /\ x.failc = o.failc /\ x.req = o.req
        /\ x.registered = o.registered /\ x.terminated = o.terminated
        /\ x.expires = o.expires /\ x.answer = a /\ x.trouble = o.trouble
    BY <1>3, <1>5 DEF Client
  <1>9. reg' = [reg EXCEPT ![i] = x]
    BY <1>1, <1>4, <1>5, <1>6
  <1>10. \A j \in Regs : reg'[j] = IF j = i THEN x ELSE reg[j]
    BY <1>6, <1>9
  <1>11. cur' = cur /\ created' = created /\ scode' = scode /\ attempt' = attempt
    BY DEF Registrar
  <1>12. binding' \in 0..MaxRegs
    BY <1>4, <1>6, BoundsAssumption DEF Regs
  <1>13. TypeOK'
    BY <1>6, <1>7, <1>9, <1>11, <1>12 DEF IInv, TypeOK
  <1>14. Steady(x, i = cur, i = binding')
    <2>1. Live(x, i = cur, i = binding')
      <3>1. (i = binding') => x.registered \/ x.trouble \/ (x.req = "REGISTER" /\ x.answer = "2xx")
        BY <1>2, <1>3, <1>4, <1>8 DEF Live, Regs
      <3>2. (i = binding') => ~(x.req = "unREGISTER" /\ x.answer = "2xx")
        BY <1>4, <1>8 DEF Regs
      <3> QED BY <1>3, <1>8, <3>1, <3>2 DEF Live
    <2> QED BY <1>3, <1>7, <1>8, <2>1 DEF Steady
  <1>15. ASSUME NEW j \in Regs PROVE Steady(reg'[j], j = cur', j = binding')
    <2>1. CASE j = i
      <3>1. reg'[j] = x
        BY <1>10, <2>1
      <3> QED BY <1>11, <1>14, <2>1, <3>1
    <2>2. CASE j # i
      <3>1. reg'[j] = reg[j]
        BY <1>10, <2>2
      <3>2. Steady(reg[j], j = cur, j = binding)
        BY DEF IInv
      <3>3. (j = binding') = (j = binding) \/ (j = binding') = FALSE
        BY <1>4, <2>2 DEF Regs
      <3>4. CASE (j = binding') = (j = binding)
        BY <1>11, <3>1, <3>2, <3>4, Zenon
      <3>5. CASE (j = binding') = FALSE
        <4>1. Steady(reg[j], j = cur, FALSE)
          BY <3>2, UnboundLemma, Zenon
        <4> QED BY <1>11, <3>1, <3>5, <4>1, Zenon
      <3> QED BY <3>3, <3>4, <3>5
    <2> QED BY <2>1, <2>2
  <1>16. i <= created
    BY <1>1, <1>3, CreatedLemma
  <1>17. ASSUME NEW j \in Regs, j > created' PROVE reg'[j] = Unused
    <2>1. j # i
      BY <1>11, <1>16, <1>17 DEF IInv, TypeOK, Regs
    <2> QED BY <1>10, <1>11, <1>17, <2>1 DEF IInv
  <1> QED BY <1>13, <1>15, <1>17 DEF IInv

(* After the client in use has been dropped none is in use.                 *)
LEMMA DroppedLemma ==
  ASSUME IInv, NEW e \in Env, NEW f, f = Dropped(e)
  PROVE  /\ f \in [Regs -> Client]
         /\ \A j \in Regs : Steady(f[j], FALSE, j = binding)
         /\ \A j \in Regs : j > created => f[j] = Unused
  <1>1. reg \in [Regs -> Client]
    BY DEF IInv, TypeOK
  <1>2. \A j \in Regs : f[j] = IF j = cur THEN mem_deref(reg[j], e) ELSE reg[j]
    BY DEF Dropped
  <1>3. ASSUME NEW j \in Regs PROVE Steady(f[j], FALSE, j = binding)
    <2>1. Steady(reg[j], j = cur, j = binding)
      BY DEF IInv
    <2>2. CASE j = cur
      <3>1. Steady(reg[j], TRUE, j = binding)
        BY <2>1, <2>2
      <3>2. f[j] = mem_deref(reg[j], e)
        BY <1>2, <2>2
      <3> QED BY <3>1, <3>2, DropLemma
    <2>3. CASE j # cur
      <3>1. Steady(reg[j], FALSE, j = binding)
        BY <2>1, <2>3
      <3>2. f[j] = reg[j]
        BY <1>2, <2>3
      <3> QED BY <3>1, <3>2
    <2> QED BY <2>2, <2>3
  <1>4. f \in [Regs -> Client]
    <2>1. \A j \in Regs : f[j] \in Client
      BY <1>3 DEF Steady
    <2>2. f = [j \in Regs |-> f[j]]
      BY DEF Dropped
    <2> QED BY <2>1, <2>2
  <1>5. ASSUME NEW j \in Regs, j > created PROVE f[j] = Unused
    <2>1. reg[j] = Unused
      BY <1>5 DEF IInv
    <2>2. j # cur
      <3>1. reg[j].life # "live"
        BY <2>1, UnusedLemma
      <3>2. ~Steady(reg[j], TRUE, j = binding)
        BY <3>1 DEF Steady, Inert
      <3>3. Steady(reg[j], j = cur, j = binding)
        BY DEF IInv
      <3> QED BY <3>2, <3>3
    <2> QED BY <1>2, <2>1, <2>2
  <1> QED BY <1>3, <1>4, <1>5

LEMMA UnregisterStep == ASSUME IInv, reg_unregister PROVE IInv'
  <1>1. PICK e \in Env : reg' = Dropped(e)
    BY DEF reg_unregister
  <1>2. cur' = 0 /\ scode' = "none" /\ created' = created /\ binding' = binding
        /\ attempt' = attempt
    BY DEF reg_unregister
  <1>3. /\ reg' \in [Regs -> Client]
        /\ \A j \in Regs : Steady(reg'[j], FALSE, j = binding)
        /\ \A j \in Regs : j > created => reg'[j] = Unused
    <2>1. PICK f : f = Dropped(e)
      OBVIOUS
    <2>2. /\ f \in [Regs -> Client]
          /\ \A j \in Regs : Steady(f[j], FALSE, j = binding)
          /\ \A j \in Regs : j > created => f[j] = Unused
      BY <2>1, DroppedLemma
    <2>3. reg' = f
      BY <1>1, <2>1
    <2> QED BY <2>2, <2>3
  <1>4. TypeOK'
    BY <1>2, <1>3, BoundsAssumption DEF IInv, TypeOK
  <1>5. \A j \in Regs : (j = cur') = FALSE
    BY <1>2 DEF Regs
  <1> QED BY <1>2, <1>3, <1>4, <1>5 DEF IInv

LEMMA RegisterStep == ASSUME IInv, reg_register PROVE IInv'
  <1>1. PICK n : n = created + 1
    OBVIOUS
  <1>2. PICK e \in Env, f \in Env :
          LET o == request([Unused EXCEPT !.life = "live"], f)
          IN /\ reg' = [Dropped(e) EXCEPT ![n] = IF f.send THEN o ELSE Freed(o)]
             /\ cur' = IF f.send THEN n ELSE 0
    BY <1>1 DEF reg_register
  <1>3. /\ created' = n /\ created < MaxRegs
        /\ scode' = "none" /\ binding' = binding /\ attempt' = attempt
    BY <1>1 DEF reg_register
  <1>4. /\ n \in Regs /\ n > created /\ n \in 0..MaxRegs /\ n # 0
        /\ \A j \in Regs : j > n => j > created
    <2>1. created \in Nat /\ MaxRegs \in Nat
      BY BoundsAssumption DEF IInv, TypeOK
    <2>2. \A j \in Regs : j > n => j > created
      BY <1>1, <2>1 DEF Regs
    <2> QED BY <1>1, <1>3, <2>1, <2>2 DEF Regs
  <1>5. PICK y : y = [Unused EXCEPT !.life = "live"]
    OBVIOUS
  <1>6. y \in Client
    BY <1>5, UnusedLemma, Zenon DEF Client
  <1>7. /\ y.life = "live" /\ y.req = "none" /\ y.tmr = FALSE /\ y.expires = TRUE
        /\ y.terminated = FALSE /\ y.failc = 0
    BY <1>5 DEF Unused
  <1>8. PICK o : o = request(y, f)
    OBVIOUS
  <1>9. /\ o \in Client
        /\ o.life = y.life /\ o.tmr = y.tmr /\ o.failc = y.failc
        /\ o.terminated = y.terminated
        /\ o.expires = (y.expires /\ ~y.terminated)
        /\ ~f.send => o.req = "none"
        /\ f.send => o.req = IF o.expires THEN "REGISTER" ELSE "unREGISTER"
    BY <1>6, <1>7, <1>8, RequestLemma
  <1>10. PICK x : x = IF f.send THEN o ELSE Freed(o)
    OBVIOUS
  <1>11. PICK g : g = Dropped(e)
    OBVIOUS
  <1>12. reg' = [g EXCEPT ![n] = x] /\ cur' = IF f.send THEN n ELSE 0
    BY <1>2, <1>5, <1>8, <1>10, <1>11, Zenon
  <1>13. /\ g \in [Regs -> Client]
         /\ \A j \in Regs : Steady(g[j], FALSE, j = binding)
         /\ \A j \in Regs : j > created => g[j] = Unused
    BY <1>11, DroppedLemma
  <1>14. (n = binding) = FALSE
    <2>1. reg[n] = Unused
      BY <1>4 DEF IInv
    <2>2. ~Steady(reg[n], n = cur, TRUE)
      BY <2>1, UnusedLemma DEF Steady, Inert
    <2>3. Steady(reg[n], n = cur, n = binding)
      BY <1>4 DEF IInv
    <2> QED BY <2>2, <2>3
  <1>15. Steady(x, n = cur', FALSE)
    <2>1. CASE f.send
      <3>1. (n = cur') = TRUE /\ x = o
        BY <1>10, <1>12, <2>1
      <3>2. LoopMax # 0
        BY BoundsAssumption
      <3>3. Live(o, TRUE, FALSE)
        BY <1>7, <1>9, <2>1, <3>2 DEF Live
      <3>4. Steady(o, TRUE, FALSE)
        BY <1>7, <1>9, <3>3 DEF Steady
      <3> QED BY <3>1, <3>4, Zenon
    <2>2. CASE ~f.send
      <3>1. (n = cur') = FALSE /\ x = Freed(o)
        BY <1>4, <1>10, <1>12, <2>2
      <3>2. Steady(x, FALSE, FALSE)
        BY <1>9, <2>2, <3>1, FreedLemma
      <3> QED BY <3>1, <3>2, Zenon
    <2> QED BY <2>1, <2>2
  <1>16. \A j \in Regs : reg'[j] = IF j = n THEN x ELSE g[j]
    BY <1>12, <1>13
  <1>17. ASSUME NEW j \in Regs PROVE Steady(reg'[j], j = cur', j = binding')
    <2>1. CASE j = n
      <3>1. reg'[j] = x
        BY <1>16, <2>1
      <3> QED BY <1>3, <1>14, <1>15, <2>1, <3>1, Zenon
    <2>2. CASE j # n
      <3>1. (j = cur') = FALSE
        BY <1>12, <2>2 DEF Regs
      <3>2. reg'[j] = g[j] /\ Steady(g[j], FALSE, j = binding)
        BY <1>13, <1>16, <2>2
      <3> QED BY <1>3, <3>1, <3>2, Zenon
    <2> QED BY <2>1, <2>2
  <1>18. x \in Client
    BY <1>15 DEF Steady
  <1>19. TypeOK'
    BY <1>3, <1>4, <1>12, <1>13, <1>18, BoundsAssumption DEF IInv, TypeOK
  <1>20. ASSUME NEW j \in Regs, j > created' PROVE reg'[j] = Unused
    <2>1. j # n /\ j > created
      BY <1>3, <1>4, <1>20 DEF Regs
    <2> QED BY <1>13, <1>16, <2>1
  <1> QED BY <1>17, <1>19, <1>20 DEF IInv

-----------------------------------------------------------------------------
(* The invariant of re/src/sipreg and baresip/src/reg.c: every client has   *)
(* exactly one thing to wait for, and un-registers what it registered.      *)
THEOREM Invariance == Spec => []IInv
  <1>1. ASSUME Init PROVE IInv
    <2>1. ASSUME NEW i \in Regs PROVE reg[i] = Unused
      BY <1>1 DEF Init
    <2>2. reg \in [Regs -> Client]
      BY <1>1, UnusedLemma DEF Init
    <2>3. TypeOK
      <3>1. attempt \in BOOLEAN
        BY <1>1 DEF Init
      <3> QED BY <1>1, <2>2, <3>1, BoundsAssumption DEF Init, TypeOK
    <2>4. ASSUME NEW i \in Regs PROVE Steady(reg[i], i = cur, i = binding)
      <3>1. (i = cur) = FALSE /\ (i = binding) = FALSE
        BY <1>1 DEF Init, Regs
      <3>2. Steady(Unused, FALSE, FALSE)
        BY UnusedLemma DEF Steady, Inert
      <3> QED BY <2>1, <3>1, <3>2, Zenon
    <2> QED BY <2>1, <2>3, <2>4 DEF IInv
  <1>2. ASSUME IInv, [Next]_vars PROVE IInv'
    <2>1. CASE reg_register
      BY <1>2, <2>1, RegisterStep
    <2>2. CASE reg_unregister
      BY <1>2, <2>2, UnregisterStep
    <2>3. ASSUME NEW i \in Regs, tmr_handler(i) PROVE IInv'
      BY <1>2, <2>3, TimerStep
    <2>4. ASSUME NEW i \in Regs, keepalive_handler(i) PROVE IInv'
      BY <1>2, <2>4, KeepaliveStep
    <2>5. ASSUME NEW i \in Regs, Answered(i) PROVE IInv'
      BY <1>2, <2>5, AnsweredStep
    <2>6. ASSUME NEW i \in Regs, Registrar(i) PROVE IInv'
      BY <1>2, <2>6, RegistrarStep
    <2>7. CASE UNCHANGED vars
      BY <1>2, <2>7 DEF vars, IInv, TypeOK
    <2> QED BY <1>2, <2>1, <2>2, <2>3, <2>4, <2>5, <2>6, <2>7 DEF Next
  <1> QED BY <1>1, <1>2, PTL DEF Spec

(* Every variable keeps its type.                                           *)
THEOREM TypeCorrect == Spec => []TypeOK
  <1>1. IInv => TypeOK
    BY DEF IInv
  <1> QED BY <1>1, Invariance, PTL

(* A registration is always waiting for an answer or for its timer, and a   *)
(* dropped one for an answer: neither goes dormant.                         *)
THEOREM AlwaysAwake == Spec => []NeverDormant
  <1>1. ASSUME IInv PROVE NeverDormant
    <2>1. ASSUME NEW i \in Regs, reg[i].life = "live"
          PROVE  /\ reg[i].req # "several"
                 /\ (reg[i].req # "none") # reg[i].tmr
                 /\ reg[i].terminated = (i # cur)
      <3>1. Live(reg[i], i = cur, i = binding)
        BY <1>1, <2>1 DEF IInv, Steady
      <3> QED BY <3>1 DEF Live
    <2> QED BY <2>1 DEF NeverDormant
  <1> QED BY <1>1, Invariance, PTL

(* No client is used after its free: baresip forgets it when it drops it,   *)
(* and the one request or timer that points to it is gone.                  *)
THEOREM NoUseAfterFree == Spec => []MemorySafe
  <1>1. ASSUME IInv PROVE MemorySafe
    <2>1. ASSUME NEW i \in Regs
          PROVE  /\ reg[i].life # "corrupt"
                 /\ reg[i].life \in {"none", "freed"} =>
                      reg[i].req = "none" /\ ~reg[i].tmr /\ ~reg[i].ka /\ i # cur
      <3>1. Steady(reg[i], i = cur, i = binding)
        BY <1>1 DEF IInv
      <3> QED BY <3>1 DEF Steady, Inert
    <2> QED BY <2>1 DEF MemorySafe
  <1> QED BY <1>1, Invariance, PTL

(* A client that has been freed has removed the binding it made, unless one *)
(* of its requests failed.                                                  *)
THEOREM UnregistersFirst == Spec => []LeavesNoBinding
  <1>1. ASSUME IInv PROVE LeavesNoBinding
    <2>1. ASSUME NEW i \in Regs, reg[i].life = "freed", binding = i
          PROVE  reg[i].trouble
      <3>1. Steady(reg[i], i = cur, i = binding)
        BY <1>1 DEF IInv
      <3> QED BY <2>1, <3>1 DEF Steady, Inert
    <2> QED BY <2>1 DEF LeavesNoBinding
  <1> QED BY <1>1, Invariance, PTL

(* What one step may do to a client that has been dropped.                  *)
Quiet(o, x) ==
  o.terminated /\ x.req = "REGISTER"
    => o.req = "REGISTER" /\ (x.answer = "none" => o.answer = "none")

LEMMA QuietLemma ==
  ASSUME TypeOK, NEW i \in Regs, NEW o, reg' = [reg EXCEPT ![i] = o], Quiet(reg[i], o),
         NEW j \in Regs
  PROVE  Quiet(reg[j], reg'[j])
  <1>1. reg'[j] = IF j = i THEN o ELSE reg[j]
    BY DEF TypeOK
  <1> QED BY <1>1 DEF Quiet

(* A client that has been dropped never asks for a binding again, though it *)
(* goes on talking to the registrar until its un-REGISTER is answered.      *)
THEOREM DroppedAsksNoMore == Spec => NoRegisterOnceDropped
  <1>1. ASSUME IInv, [Next]_vars, NEW j \in Regs PROVE Quiet(reg[j], reg'[j])
    <2>1. TypeOK /\ \A i \in Regs : Steady(reg[i], i = cur, i = binding)
      BY <1>1 DEF IInv
    <2>2. ASSUME NEW e \in Env, NEW f, f = Dropped(e) PROVE Quiet(reg[j], f[j])
      <3>1. CASE j = cur
        <4>1. ~reg[j].terminated
          BY <2>1, <3>1 DEF Steady, Inert, Live
        <4> QED BY <4>1 DEF Quiet
      <3>2. CASE j # cur
        <4>1. f[j] = reg[j]
          BY <2>2, <3>2 DEF Dropped
        <4> QED BY <4>1 DEF Quiet
      <3> QED BY <3>1, <3>2
    <2>3. CASE reg_unregister
      <3>1. PICK e \in Env : reg' = Dropped(e)
        BY <2>3 DEF reg_unregister
      <3> QED BY <2>2, <3>1
    <2>4. CASE reg_register
      <3>0. PICK e \in Env : \E x : reg' = [Dropped(e) EXCEPT ![created + 1] = x]
        BY <2>4 DEF reg_register
      <3>1. PICK x : reg' = [Dropped(e) EXCEPT ![created + 1] = x]
        BY <3>0
      <3>2. PICK f : f = Dropped(e)
        OBVIOUS
      <3>3. reg'[j] = IF j = created + 1 THEN x ELSE f[j]
        BY <3>1, <3>2 DEF Dropped
      <3>4. CASE j = created + 1
        <4>1. j > created
          BY <2>1, <3>4 DEF TypeOK
        <4>2. reg[j] = Unused
          BY <1>1, <4>1 DEF IInv
        <4>3. ~reg[j].terminated
          BY <4>2 DEF Unused
        <4> QED BY <4>3 DEF Quiet
      <3>5. CASE j # created + 1
        <4>1. reg'[j] = f[j]
          BY <3>3, <3>5
        <4>2. Quiet(reg[j], f[j])
          BY <2>2, <3>2
        <4> QED BY <4>1, <4>2
      <3> QED BY <3>4, <3>5
    <2>5. ASSUME NEW i \in Regs, tmr_handler(i) PROVE Quiet(reg[j], reg'[j])
      <3>1. PICK o : reg' = [reg EXCEPT ![i] = o]
        BY <2>5 DEF tmr_handler, Becomes
      <3>2. ~reg[i].terminated
        BY <2>1, <2>5 DEF Steady, Inert, Live, tmr_handler
      <3>3. Quiet(reg[i], o)
        BY <3>2 DEF Quiet
      <3> QED BY <2>1, <3>1, <3>3, QuietLemma
    <2>6. ASSUME NEW i \in Regs, keepalive_handler(i) PROVE Quiet(reg[j], reg'[j])
      <3>1. PICK t : reg' = [reg EXCEPT ![i] = [reg[i] EXCEPT !.ka = FALSE, !.tmr = t]]
        BY <2>6, Zenon DEF keepalive_handler, Becomes
      <3>2. PICK o : o = [reg[i] EXCEPT !.ka = FALSE, !.tmr = t]
        OBVIOUS
      <3>3. reg[i] \in Client
        BY <2>1 DEF TypeOK
      <3>4. o.req = reg[i].req /\ o.answer = reg[i].answer
        BY <3>2, <3>3 DEF Client
      <3>5. Quiet(reg[i], o)
        BY <3>4 DEF Quiet
      <3> QED BY <2>1, <3>1, <3>2, <3>5, QuietLemma
    <2>7. ASSUME NEW i \in Regs, Answered(i) PROVE Quiet(reg[j], reg'[j])
      <3>1. PICK e \in Env, a \in Answers \cap {reg[i].answer, "fail"} :
              reg' = [reg EXCEPT ![i] = response_handler(reg[i], a, e)]
        BY <2>7 DEF Answered, Becomes
      <3>2. PICK o : o = response_handler(reg[i], a, e)
        OBVIOUS
      <3>3. reg[i].life = "live" /\ reg[i].req # "none"
        BY <2>7 DEF Answered
      <3>4. Steady(reg[i], i = cur, i = binding)
        BY <2>1
      <3>5. reg[i].terminated => o.req # "REGISTER"
        <4> DEFINE c == reg[i]
                   u == i = cur
                   b == i = binding
        <4>1. u \in BOOLEAN /\ b \in BOOLEAN
          OBVIOUS
        <4>2. Steady(c, u, b) /\ c.life = "live" /\ c.req # "none"
          BY <3>3, <3>4
        <4>3. a \in Answers \cap {c.answer, "fail"} /\ o = response_handler(c, a, e)
          BY <3>2
        <4> HIDE DEF c, u, b
        <4>4. c.terminated => o.req # "REGISTER"
          BY <4>1, <4>2, <4>3, ResponseLemma
        <4> QED BY <4>4 DEF c
      <3>6. Quiet(reg[i], o)
        BY <3>5 DEF Quiet
      <3> QED BY <2>1, <3>1, <3>2, <3>6, QuietLemma
    <2>8. ASSUME NEW i \in Regs, Registrar(i) PROVE Quiet(reg[j], reg'[j])
      <3>1. PICK a \in Answers : reg' = [reg EXCEPT ![i].answer = a]
        BY <2>8 DEF Registrar
      <3>2. PICK o : o = [reg[i] EXCEPT !.answer = a]
        OBVIOUS
      <3>3. reg \in [Regs -> Client]
        BY <2>1 DEF TypeOK
      <3>4. reg[i] \in Client
        BY <3>3
      <3>5. o.req = reg[i].req /\ o.answer = a /\ a # "none"
        BY <3>2, <3>4 DEF Client, Answers
      <3>6. Quiet(reg[i], o)
        BY <3>5 DEF Quiet
      <3>7. reg' = [reg EXCEPT ![i] = o]
        BY <3>1, <3>2, <3>3
      <3> QED BY <2>1, <3>6, <3>7, QuietLemma
    <2>9. CASE UNCHANGED vars
      BY <2>9 DEF vars, Quiet
    <2> QED BY <1>1, <2>3, <2>4, <2>5, <2>6, <2>7, <2>8, <2>9 DEF Next
  <1>2. ASSUME IInv, [Next]_vars
        PROVE  [\A i \in Regs :
                  reg[i].terminated /\ reg'[i].req = "REGISTER"
                    => /\ reg[i].req = "REGISTER"
                       /\ reg'[i].answer = "none" => reg[i].answer = "none"]_vars
    BY <1>1, <1>2 DEF Quiet
  <1> QED BY <1>2, Invariance, PTL DEF Spec, NoRegisterOnceDropped

=============================================================================
