------------------------------- MODULE SipReg -------------------------------
(***************************************************************************)
(* SIP registration: the registration clients (struct sipreg) of            *)
(* re/src/sipreg, the register client of baresip/src/reg.c that creates and *)
(* drops them, and the registrar they keep a binding at.                    *)
(*                                                                          *)
(* Registering again drops the client in use and creates another.  A client *)
(* that was dropped lives on until its un-REGISTER is answered, so several  *)
(* of them may be talking to the registrar about the same contact.          *)
(***************************************************************************)
EXTENDS Integers

CONSTANTS
  MaxRegs,  \* bound: how many clients are created in all
  LoopMax   \* failures in a row before sip_request_loops gives up: 16

ASSUME BoundsAssumption == MaxRegs \in Nat \ {0} /\ LoopMax \in Nat \ {0}

VARIABLES
  reg,      \* the clients, by the order of their creation
  cur,      \* reg->sipreg of baresip: the client in use, 0 if none
  created,  \* how many have been created
  scode,    \* reg->scode of baresip: the status it shows
  binding,  \* registrar: the client whose REGISTER made the binding, 0 if none
  attempt   \* history: alternates when a timer has a refresh or retry attempted

vars == <<reg, cur, created, scode, binding, attempt>>

Regs    == 1..MaxRegs
Answers == {"2xx", "401", "423", "fail"}

Client == [ life       : {"none", "live", "freed", "corrupt"},
            req        : {"none", "REGISTER", "unREGISTER", "several"},
            answer     : Answers \cup {"none"}, \* the registrar's, to req
            tmr        : BOOLEAN,   \* the refresh or retry timer is armed
            ka         : BOOLEAN,   \* keepalives run on the flow (outbound)
            expires    : BOOLEAN,   \* reg->expires is not zero
            registered : BOOLEAN,
            terminated : BOOLEAN,
            failc      : 0..LoopMax,
            trouble    : BOOLEAN ]  \* history: a request was not granted

(* What a step finds outside: whether a request can be sent, whether the    *)
(* credentials answer the challenge (or Min-Expires is given), and whether  *)
(* the registrar asks for keepalives.                                       *)
Env == [send : BOOLEAN, usable : BOOLEAN, flow : BOOLEAN]

Unused == [life |-> "none", req |-> "none", answer |-> "none", tmr |-> FALSE,
           ka |-> FALSE, expires |-> TRUE, registered |-> FALSE,
           terminated |-> FALSE, failc |-> 0, trouble |-> FALSE]

Init ==
  /\ reg = [i \in Regs |-> Unused]
  /\ cur = 0 /\ created = 0 /\ scode = "none" /\ binding = 0
  /\ attempt = FALSE

-----------------------------------------------------------------------------
(* A client, as functions of its value.                                     *)

Sent(o, method) ==
  [o EXCEPT !.req = IF @ = "none" THEN method ELSE "several", !.answer = "none"]

(* Fault: the request of a client being dropped is a REGISTER like another. *)
request_again(o, e) ==
  IF ~e.send THEN [o EXCEPT !.trouble = TRUE] ELSE Sent(o, "REGISTER")

(* A client being dropped asks for an expiry of zero from then on.          *)
request(o, e) ==
  LET x == [o EXCEPT !.expires = @ /\ ~o.terminated]
  IN IF ~e.send THEN [x EXCEPT !.trouble = TRUE]
     ELSE Sent(x, IF x.expires THEN "REGISTER" ELSE "unREGISTER")

Reset(o) == [o EXCEPT !.failc = 0]   \* sip_loopstate_reset
Fail(o)  == [o EXCEPT !.failc = @ + 1]
Loops(o) == o.failc = LoopMax

Freed(o) == [o EXCEPT !.life = "freed", !.tmr = FALSE, !.ka = FALSE]

(* Dropped by its owner, a client lives until its request is answered, and  *)
(* un-registers before it goes if it is registered.                         *)
destructor(o, e) ==
  LET t == [o EXCEPT !.terminated = TRUE, !.tmr = FALSE]
      r == request(Reset(t), e)
  IN CASE o.terminated                       -> Freed(o)
       [] ~o.terminated /\ o.req # "none"    -> t
       [] ~o.terminated /\ o.req = "none"    ->
            IF ~o.registered THEN Freed(t) ELSE IF e.send THEN r ELSE Freed(r)

mem_deref(o, e) ==
  IF o.life = "live" THEN destructor(o, e) ELSE [o EXCEPT !.life = "corrupt"]

(* Fault: whatever its request was, a client being dropped goes with it.    *)
Settle_gone(o, e) ==
  IF ~o.expires \/ o.terminated THEN mem_deref(o, e) ELSE [o EXCEPT !.tmr = TRUE]

(* Fault: a client that has nothing to un-register is not freed.            *)
Settle_leak(o, e) ==
  LET r == request(Reset(o), e)
  IN IF ~o.expires THEN mem_deref(o, e)
     ELSE IF ~o.terminated THEN [o EXCEPT !.tmr = TRUE]
     ELSE IF ~o.registered THEN o
     ELSE IF e.send THEN r ELSE mem_deref(r, e)

(* The end of response_handler ("out:").                                    *)
Settle(o, e) ==
  LET r == request(Reset(o), e)
  IN IF ~o.expires \/ (o.terminated /\ ~o.registered) THEN mem_deref(o, e)
     ELSE IF ~o.terminated THEN [o EXCEPT !.tmr = TRUE]
     ELSE IF e.send THEN r ELSE mem_deref(r, e)

(* A 401 or a 423 is tried again, unless the client is being dropped and    *)
(* has nothing to un-register.                                              *)
Retries(o, a, e) ==
  /\ a \in {"401", "423"} /\ e.usable /\ e.send
  /\ ~Loops(Fail(o)) /\ (o.terminated => o.registered)
  /\ a = "423" => o.expires

(* Fault: a challenge that cannot be met leaves the client as it is.        *)
response_handler_dormant(o, a, e) ==
  LET d == [o EXCEPT !.req = "none", !.answer = "none"]
  IN IF a = "2xx"
     THEN Settle([Reset(d) EXCEPT !.registered = TRUE,
                                  !.ka = @ \/ (e.flow /\ ~o.terminated)], e)
     ELSE IF Retries(o, a, e) THEN request(Fail(d), e)
     ELSE IF a = "401" THEN Fail(d)
     ELSE Settle([Fail(d) EXCEPT !.trouble = TRUE], e)

(* The final response a; "fail" is also a request that had none.            *)
response_handler(o, a, e) ==
  LET d == [o EXCEPT !.req = "none", !.answer = "none"]
  IN IF a = "2xx"
     THEN Settle([Reset(d) EXCEPT !.registered = TRUE,
                                  !.ka = @ \/ (e.flow /\ ~o.terminated)], e)
     ELSE IF Retries(o, a, e) THEN request(Fail(d), e)
     ELSE Settle([Fail(d) EXCEPT !.trouble = TRUE], e)

-----------------------------------------------------------------------------
(* The steps of a client.                                                   *)

Becomes(i, o) == reg' = [reg EXCEPT ![i] = o] /\ UNCHANGED <<cur, created, binding>>

(* Fault: a failure is the end of it.                                       *)
tmr_handler_once(i) ==
  /\ reg[i].tmr /\ attempt' = ~attempt
  /\ \E e \in Env :
       /\ Becomes(i, [request(Reset(reg[i]), e) EXCEPT !.tmr = FALSE])
       /\ scode' = IF e.send THEN scode ELSE "error"

(* A refresh, or a retry; one that cannot be sent is retried later.  Such a *)
(* failure after another leaves the client as it was: attempt makes it a    *)
(* step all the same, so that fairness lets it happen for ever.             *)
tmr_handler(i) ==
  /\ reg[i].tmr /\ attempt' = ~attempt
  /\ \E e \in Env :
       /\ Becomes(i, [request(Reset(reg[i]), e) EXCEPT !.tmr = ~e.send])
       /\ scode' = IF e.send THEN scode ELSE "error"

(* Fault: the failure of a flow is handled whatever else is going on.       *)
keepalive_handler_always(i) ==
  /\ reg[i].ka
  /\ Becomes(i, [reg[i] EXCEPT !.ka = FALSE, !.tmr = TRUE])
  /\ scode' = "error" /\ UNCHANGED attempt

(* The flow failed: left to the response handler if a request is in flight. *)
keepalive_handler(i) ==
  LET idle == reg[i].req = "none" /\ ~reg[i].terminated
  IN /\ reg[i].ka
     /\ Becomes(i, [reg[i] EXCEPT !.ka = FALSE, !.tmr = @ \/ idle])
     /\ scode' = IF idle THEN "error" ELSE scode
     /\ UNCHANGED attempt

(* The response arrives, or (a = "fail") the transaction ends without one.  *)
(* The user is told when the client settles down to wait for its timer.     *)
Answered(i) ==
  /\ reg[i].life = "live" /\ reg[i].req # "none" /\ UNCHANGED attempt
  /\ \E e \in Env, a \in Answers \cap {reg[i].answer, "fail"} :
       LET o == response_handler(reg[i], a, e)
       IN /\ Becomes(i, o)
          /\ scode' = IF ~o.tmr THEN scode ELSE IF a = "2xx" THEN "2xx" ELSE "error"

-----------------------------------------------------------------------------
(* The register client of baresip.                                          *)

Dropped(e) == [i \in Regs |-> IF i = cur THEN mem_deref(reg[i], e) ELSE reg[i]]

(* A new client replaces the one in use, which un-registers on its own.     *)
reg_register ==
  /\ created < MaxRegs /\ created' = created + 1
  /\ \E e, f \in Env :
       LET o == request([Unused EXCEPT !.life = "live"], f)
       IN /\ reg' = [Dropped(e) EXCEPT ![created'] = IF f.send THEN o ELSE Freed(o)]
          /\ cur' = IF f.send THEN created' ELSE 0
  /\ scode' = "none" /\ UNCHANGED <<binding, attempt>>

(* Fault: the pointer to the dropped client is kept.                        *)
reg_unregister_kept ==
  /\ cur # 0 /\ cur' = cur /\ scode' = "none"
  /\ \E e \in Env : reg' = Dropped(e)
  /\ UNCHANGED <<created, binding, attempt>>

reg_unregister ==
  /\ cur # 0 /\ cur' = 0 /\ scode' = "none"
  /\ \E e \in Env : reg' = Dropped(e)
  /\ UNCHANGED <<created, binding, attempt>>

-----------------------------------------------------------------------------
(* The registrar grants a request or turns it down.  All the clients        *)
(* register the same contact.                                               *)
Registrar(i) ==
  /\ reg[i].req # "none" /\ reg[i].answer = "none"
  /\ \E a \in Answers :
       /\ reg' = [reg EXCEPT ![i].answer = a]
       /\ binding' = IF a # "2xx" THEN binding
                     ELSE IF reg[i].req = "REGISTER" THEN i ELSE 0
  /\ UNCHANGED <<cur, created, scode, attempt>>

Next ==
  \/ reg_register \/ reg_unregister
  \/ \E i \in Regs : tmr_handler(i) \/ keepalive_handler(i) \/ Answered(i) \/ Registrar(i)

Spec == Init /\ [][Next]_vars

(* Timers that are armed fire, whether or not what they send goes out, and  *)
(* transactions end (SipTransaction!Ends).  Nothing is assumed of the       *)
(* network, which may fail every send, nor of the registrar.                *)
FairSpec ==
  Spec /\ \A i \in Regs : WF_vars(tmr_handler(i)) /\ WF_vars(Answered(i))

-----------------------------------------------------------------------------
TypeOK ==
  /\ reg \in [Regs -> Client]
  /\ cur \in 0..MaxRegs /\ created \in 0..MaxRegs
  /\ scode \in {"none", "2xx", "error"} /\ binding \in 0..MaxRegs
  /\ attempt \in BOOLEAN

(* A registration never goes dormant and never asks twice: the client in    *)
(* use either has its one request outstanding or its timer armed, and one   *)
(* that was dropped is either gone or waiting for its last answer.          *)
NeverDormant ==
  \A i \in Regs : reg[i].life = "live" =>
    /\ reg[i].req # "several"
    /\ (reg[i].req # "none") # reg[i].tmr
    /\ reg[i].terminated = (i # cur)

(* No client is used after it has been freed.                               *)
MemorySafe ==
  \A i \in Regs :
    /\ reg[i].life # "corrupt"
    /\ reg[i].life \in {"none", "freed"} =>
         reg[i].req = "none" /\ ~reg[i].tmr /\ ~reg[i].ka /\ i # cur

(* A client that has been dropped never asks for a binding again: its       *)
(* REGISTER is the one it had outstanding, all it still sends un-REGISTERs. *)
NoRegisterOnceDropped ==
  [][\A i \in Regs :
       reg[i].terminated /\ reg'[i].req = "REGISTER"
         => /\ reg[i].req = "REGISTER"
            /\ reg'[i].answer = "none" => reg[i].answer = "none"]_vars

(* A client that is gone has left no binding behind, unless one of its      *)
(* requests failed.                                                         *)
LeavesNoBinding ==
  \A i \in Regs : reg[i].life = "freed" /\ binding = i => reg[i].trouble

(* Liveness: a client that is dropped is freed, whatever the registrar does.*)
DroppedIsFreed ==
  \A i \in Regs : reg[i].terminated ~> reg[i].life = "freed"

(* Liveness: a client that stays in use has the next refresh or retry       *)
(* attempted again and again, whatever became of the one before: not sent,  *)
(* not answered, refused, challenged or granted.                            *)
KeepsAsking ==
  \A i \in Regs : <>[](cur = i) => []<><<attempt' # attempt>>_vars

(* Liveness: no client rests.  It goes on trying, or it goes.               *)
AsksOrGoes == DroppedIsFreed /\ KeepsAsking

(* What ua_isregistered reports, "it is enough if one of the registrations  *)
(* work": that the registrar has a binding for us.                          *)
RegisteredIsBound == scode = "2xx" => binding # 0
=============================================================================
