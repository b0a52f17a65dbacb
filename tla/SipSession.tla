----------------------------- MODULE SipSession -----------------------------
(***************************************************************************)
(* One SIP session object (struct sipsess) of re/src/sipsess, from its      *)
(* allocation by sipsess_connect or sipsess_accept to the free() that ends  *)
(* it, together with everything that can call into it: the application,     *)
(* the transaction layer answering its requests, the peer's in-dialog       *)
(* requests, and its own timers.  re runs all of these from one event loop, *)
(* so each action is one complete handler, callbacks included.              *)
(*                                                                          *)
(* Several transactions outlive the application's interest in the session,  *)
(* and all of them hold a bare pointer to it.  The object therefore counts  *)
(* references: one for the application and, once it is being torn down,     *)
(* one for every kind of transaction it still has to wait for.              *)
(***************************************************************************)
EXTENDS Integers

CONSTANTS
  Infos,      \* the INFO requests that may be outstanding at once (requestl)
  MaxSeq,     \* bound: the largest CSeq the peer uses
  MaxReplies, \* bound: how many 2xx replies one session sends
  LoopMax     \* failures in a row before sip_request_loops gives up: 16

ASSUME BoundsAssumption ==
  /\ MaxSeq \in Nat \ {0}
  /\ MaxReplies \in Nat \ {0}
  /\ LoopMax \in Nat \ {0}

VARIABLES
  obj,         \* the memory, its count, the teardown stage, sess->req and ls
  owner,       \* we sent the first INVITE
  st,          \* the peer's first INVITE is not answered yet
  msg,         \* that INVITE is still stored
  replies,     \* replyl: 2xx replies the peer has not acknowledged
  sent,        \* how many 2xx replies have been sent
  info,        \* requestl: the failures of each INFO outstanding
  tmr,         \* the re-INVITE retry timer is armed
  established,
  peerterm,
  modpend,     \* modify_pending
  awaiting,    \* awaiting_answer
  desc,        \* a description is stored
  sentoffer,
  rtag,        \* the dialog has a remote tag
  rseq,        \* the last CSeq of the peer
  appref,      \* the application holds its reference
  estabs,      \* history: calls of the application's estabh
  closes,      \* history: calls of the application's closeh
  confirmed    \* history: the peer believes in a call

app    == <<appref, estabs, closes>>
uas    == <<st, msg, replies, sent>>
offer  == <<modpend, awaiting, desc, sentoffer>>
dialog == <<owner, established, peerterm, rtag, rseq, confirmed>>
vars   == <<obj, app, uas, offer, dialog, info, tmr>>

NoInfo  == -1  \* an INFO slot with no request outstanding
Methods == {"INVITE", "reINVITE", "BYE"}
Finals  == {"2xx", "2xxbad", "3xx", "401", "408", "491", "500", "fail", "timeout"}

(* "several" is a request whose handle was overwritten by another's,        *)
(* "corrupt" memory that was used after it had been freed.                  *)
Object == [ life       : {"none", "live", "freed", "corrupt"},
            refs       : Nat,                  \* mem.c's nrefs
            terminated : 0..2,
            req        : Methods \cup {"none", "several"},
            failc      : 0..LoopMax,           \* failures in a row (ls)
            bye        : {"no", "sent", "lost"} ]

(* id is the order of sending, awaiting that the ACK must bring an answer.  *)
Reply == [id : 1..MaxReplies, cseq : 1..MaxSeq, awaiting : BOOLEAN]

(***************************************************************************)
(* What a step finds outside the session: whether sip_drequestf (or a       *)
(* reply) can be sent, whether the ACK can, whether the application's       *)
(* offer/answer handler or its credentials succeed, and whether the         *)
(* application drops its reference from inside the callback it is given.    *)
(***************************************************************************)
Env == [send : BOOLEAN, ack : BOOLEAN, app : BOOLEAN, release : BOOLEAN]

One(b) == IF b THEN 1 ELSE 0

Init ==
  /\ obj = [life |-> "none", refs |-> 0, terminated |-> 0, req |-> "none",
            failc |-> 0, bye |-> "no"]
  /\ owner = FALSE /\ established = FALSE /\ peerterm = FALSE
  /\ rtag = FALSE /\ rseq = 0 /\ confirmed = FALSE
  /\ st = FALSE /\ msg = FALSE /\ replies = {} /\ sent = 0
  /\ modpend = FALSE /\ awaiting = FALSE /\ desc = FALSE /\ sentoffer = FALSE
  /\ info = [i \in Infos |-> NoInfo] /\ tmr = FALSE
  /\ appref = FALSE /\ estabs = 0 /\ closes = 0

Live == obj.life = "live"
New  == [life |-> "live", refs |-> 1, terminated |-> 0, req |-> "none",
         failc |-> 0, bye |-> "no"]

-----------------------------------------------------------------------------
(* The object: requests and reference counting, as functions of its value.  *)
(* n is how many of replyl and requestl are non-empty, hangup whether a BYE *)
(* is due (established and not ended by the peer).                          *)

Sent(o, method, e) ==
  [o EXCEPT !.req = IF ~e.send THEN @
                    ELSE IF @ = "none" THEN method ELSE "several"]

Fresh(o) == [o EXCEPT !.failc = 0]

(* Fault: the handle is cleared only after the response handler has run.    *)
Done_late(o) == o

Done(o)  == [o EXCEPT !.req = "none"]   \* the request has its final response

(* sip_request_loops counts a failure; LoopMax of them in a row are a loop. *)
(* The same code twice running is one too, and ends a request as "fail".    *)
Fail(o)  == [o EXCEPT !.failc = IF @ < LoopMax THEN @ + 1 ELSE @]
Loops(o) == o.failc = LoopMax

Waits(o, n) == One(o.req # "none") + n

(* Fault: one reference however many kinds of transactions are waited for.  *)
termwait_shared(o, n) ==
  [o EXCEPT !.terminated = 1, !.refs = o.refs + One(Waits(o, n) > 0)]

termwait(o, n) == [o EXCEPT !.terminated = 1, !.refs = o.refs + Waits(o, n)]

(* A request still in flight makes sipsess_bye fail.                        *)
terminate(o, hangup, e) ==
  IF ~hangup \/ o.req # "none" THEN [o EXCEPT !.terminated = 2]
  ELSE IF ~e.send THEN [o EXCEPT !.terminated = 2, !.bye = "lost"]
  ELSE [o EXCEPT !.terminated = 2, !.refs = o.refs + 1, !.req = "BYE",
                 !.bye = "sent", !.failc = 0]

TermwaitOrTerminate(o, n, hangup, e) ==
  IF Waits(o, n) > 0 THEN termwait(o, n) ELSE terminate(termwait(o, n), hangup, e)

destructor(o, n, hangup, e) ==
  CASE o.terminated = 0 -> TermwaitOrTerminate(o, n, hangup, e)
    [] o.terminated = 1 -> terminate(o, hangup, e)
    [] OTHER            -> o

mem_deref(o, n, hangup, e) ==
  IF o.life # "live" THEN [o EXCEPT !.life = "corrupt"]
  ELSE IF o.refs > 1 THEN [o EXCEPT !.refs = @ - 1]
  ELSE LET d == destructor([o EXCEPT !.refs = 0], n, hangup, e)
       IN IF d.refs > 0 THEN d ELSE [d EXCEPT !.life = "freed"]

(* The close handler is the last thing called: it may drop the reference.   *)
sipsess_terminate(o, n, hangup, e) ==
  LET x == TermwaitOrTerminate(o, n, hangup, e)
  IN IF e.release THEN mem_deref(x, n, hangup, e) ELSE x

-----------------------------------------------------------------------------
(* The same as ends of a handler: o is the object as the handler leaves it, *)
(* the primed variables what the handler has assigned.                      *)

HasInfo(f) == \E i \in Infos : f[i] # NoInfo

(* Faults: the teardown forgets the INFOs, or the unacknowledged replies.   *)
Pending_replies == One(replies # {})
Pending_infos   == One(HasInfo(info))

Pending    == One(replies # {}) + One(HasInfo(info))
Hangup     == established /\ ~peerterm

(* Teardown answers a pending INVITE and stops the retry timer.             *)
Becomes(o) ==
  /\ obj' = o
  /\ st' = (st /\ o.terminated = 0)
  /\ tmr' = (tmr /\ o.terminated = 0)

Callback(o, e) ==
  /\ appref' = (appref /\ ~e.release)
  /\ Becomes(IF e.release THEN mem_deref(o, Pending', Hangup', e) ELSE o)

Establish(o, e) ==
  /\ estabs' = estabs + 1 /\ closes' = closes
  /\ Callback(o, e)

Close(o, e) ==
  /\ closes' = closes + 1 /\ estabs' = estabs
  /\ appref' = (appref /\ ~e.release)
  /\ Becomes(sipsess_terminate(o, Pending', Hangup', e))

Deref(o, e) ==
  /\ UNCHANGED app
  /\ Becomes(mem_deref(o, Pending', Hangup', e))

(* Fault: the session is terminated whether it already is or not.           *)
CloseOrDeref_again(o, e) == Close(o, e)

CloseOrDeref(o, e) == IF o.terminated = 0 THEN Close(o, e) ELSE Deref(o, e)

(* Nothing but sess->req changes in the object.                             *)
Keep(o) == obj' = o /\ UNCHANGED <<app, st, tmr>>

-----------------------------------------------------------------------------
(* Requests that carry the stored description.                              *)

(* Fault: sipsess_reinvite leaves modify_pending set.                       *)
OfferSent_pending == sentoffer' = desc /\ UNCHANGED <<modpend, awaiting, desc>>

OfferSent == modpend' = FALSE /\ sentoffer' = desc /\ UNCHANGED <<awaiting, desc>>

sipsess_reinvite(o, e) == Sent(Fresh(o), "reINVITE", e)

(* Fault: the answer is awaited even if the reply could not be sent.        *)
sipsess_reply_2xx_awaits(cseq, awaits, e) ==
  /\ awaiting' = (awaiting \/ awaits)
  /\ IF ~e.send THEN UNCHANGED <<replies, sent, confirmed>>
     ELSE /\ sent < MaxReplies
          /\ sent' = sent + 1 /\ confirmed' = TRUE
          /\ replies' = replies \cup
                          {[id |-> sent + 1, cseq |-> cseq, awaiting |-> awaits]}

(* A 2xx reply; if it cannot be sent, no reply is kept for retransmission.  *)
sipsess_reply_2xx(cseq, awaits, e) ==
  IF ~e.send THEN UNCHANGED <<replies, sent, awaiting, confirmed>>
  ELSE /\ sent < MaxReplies
       /\ sent' = sent + 1 /\ confirmed' = TRUE /\ awaiting' = (awaiting \/ awaits)
       /\ replies' = replies \cup
                       {[id |-> sent + 1, cseq |-> cseq, awaiting |-> awaits]}

Oldest(r, R) == r \in R /\ \A q \in R : r.id <= q.id

-----------------------------------------------------------------------------
(* The application's calls.  It makes none after giving its reference up.   *)

sipsess_connect ==
  /\ obj.life = "none"
  /\ \E d \in BOOLEAN, e \in Env :
       /\ e.send
       /\ obj' = Sent(New, "INVITE", e)
       /\ owner' = TRUE /\ appref' = TRUE /\ desc' = d /\ sentoffer' = d
       /\ UNCHANGED <<estabs, closes, uas, modpend, awaiting, established, peerterm,
                      rtag, rseq, confirmed, info, tmr>>

(* The peer's first INVITE has CSeq 1; the session answers it at once with  *)
(* a 2xx or keeps the server transaction open with a provisional reply.     *)
sipsess_accept ==
  /\ obj.life = "none"
  /\ obj' = New /\ appref' = TRUE /\ msg' = TRUE /\ rtag' = TRUE /\ rseq' = 1
  /\ \E final, awaits \in BOOLEAN, e \in Env :
       /\ e.send
       /\ st' = ~final
       /\ IF final THEN sipsess_reply_2xx(1, awaits, e)
          ELSE UNCHANGED <<replies, sent, awaiting, confirmed>>
  /\ UNCHANGED <<estabs, closes, modpend, desc, sentoffer, owner, established,
                 peerterm, info, tmr>>

Unanswered == Live /\ appref /\ st

(* A reply that cannot be sent takes the server transaction with it.        *)
sipsess_progress ==
  /\ Unanswered
  /\ \E e \in Env : st' = e.send
  /\ UNCHANGED <<obj, app, msg, replies, sent, offer, dialog, info, tmr>>

sipsess_answer ==
  /\ Unanswered
  /\ st' = FALSE
  /\ \E awaits \in BOOLEAN, e \in Env : sipsess_reply_2xx(1, awaits, e)
  /\ UNCHANGED <<obj, app, msg, modpend, desc, sentoffer, owner, established,
                 peerterm, rtag, rseq, info, tmr>>

sipsess_reject ==
  /\ Unanswered
  /\ st' = FALSE
  /\ UNCHANGED <<obj, app, msg, replies, sent, offer, dialog, info, tmr>>

(* The application modifies a session it placed or answered.                *)
sipsess_modify ==
  /\ Live /\ appref /\ ~st /\ obj.terminated = 0
  /\ owner \/ confirmed
  /\ desc' = TRUE
  /\ IF obj.req # "none" \/ tmr \/ replies # {}
     THEN modpend' = TRUE /\ UNCHANGED <<obj, sentoffer>>
     ELSE /\ modpend' = FALSE /\ sentoffer' = TRUE
          /\ \E e \in Env : obj' = sipsess_reinvite(obj, e)
  /\ UNCHANGED <<app, uas, awaiting, dialog, info, tmr>>

sipsess_info(i) ==
  /\ Live /\ appref /\ obj.terminated = 0 /\ rtag
  /\ info[i] = NoInfo
  /\ info' = [info EXCEPT ![i] = 0]
  /\ UNCHANGED <<obj, app, uas, offer, dialog, tmr>>

Release ==
  /\ Live /\ appref
  /\ UNCHANGED <<estabs, closes, msg, replies, sent, offer, dialog, info>>
  /\ \E e \in Env : e.release /\ Callback(obj, e)

-----------------------------------------------------------------------------
(* Responses to the session's own requests.  The transaction layer clears   *)
(* sess->req before it delivers a final one.                                *)

InviteProgress ==
  /\ Live /\ obj.req = "INVITE" /\ obj.terminated = 0
  /\ UNCHANGED <<estabs, closes, msg, replies, sent, offer, dialog, info>>
  /\ \E e \in Env : Callback(obj, e)

InviteAnswered(o, e) ==
  /\ established' = TRUE /\ rtag' = TRUE /\ confirmed' = TRUE
  /\ UNCHANGED <<owner, peerterm, rseq, msg, replies, sent, info>>
  /\ IF o.terminated # 0 \/ ~e.app \/ ~e.ack
     THEN /\ modpend' = (modpend /\ sentoffer)
          /\ UNCHANGED <<awaiting, desc, sentoffer>>
          /\ CloseOrDeref(o, e)
     ELSE IF modpend /\ sentoffer
     THEN OfferSent /\ Establish(sipsess_reinvite(o, e), e)
     ELSE /\ modpend' = FALSE /\ desc' = FALSE /\ UNCHANGED <<awaiting, sentoffer>>
          /\ Establish(o, e)

(* A redirection with a usable Contact and a challenge with new credentials *)
(* send the INVITE again, everything else ends the session.                 *)
InviteRefused(o, kind, e) ==
  /\ UNCHANGED <<dialog, msg, replies, sent, info>>
  /\ IF /\ kind \in {"3xx", "401"} /\ ~Loops(o)
        /\ o.terminated = 0 /\ e.app /\ e.send
     THEN OfferSent /\ Keep(Sent(o, "INVITE", e))
     ELSE UNCHANGED offer /\ CloseOrDeref(o, e)

invite_resp_handler(kind) ==
  /\ Live /\ obj.req = "INVITE"
  /\ \E e \in Env : IF kind = "2xx" THEN InviteAnswered(Fresh(Done(obj)), e)
                    ELSE InviteRefused(Fail(Done(obj)), kind, e)

(* Where a re-INVITE leads when it is not simply repeated; mp is what is    *)
(* left of modify_pending.                                                  *)
ReinviteOver(o, mp, timeout, e) ==
  IF o.terminated # 0 \/ timeout
  THEN modpend' = mp /\ UNCHANGED <<awaiting, desc, sentoffer>> /\ CloseOrDeref(o, e)
  ELSE IF mp THEN OfferSent /\ Keep(sipsess_reinvite(o, e))
  ELSE /\ modpend' = FALSE /\ desc' = FALSE /\ UNCHANGED <<awaiting, sentoffer>>
       /\ Keep(o)

ReinviteChallenged(o, e) ==
  IF ~e.app THEN ReinviteOver(o, modpend, FALSE, e)
  ELSE IF e.send THEN OfferSent /\ Keep(Sent(o, "reINVITE", e))
  ELSE /\ modpend' = FALSE /\ sentoffer' = desc /\ desc' = FALSE
       /\ UNCHANGED awaiting /\ Keep(o)

ReinviteRefused(o, kind, e) ==
  IF o.terminated # 0 \/ Loops(o) THEN ReinviteOver(o, modpend, FALSE, e)
  ELSE CASE kind = "401" -> ReinviteChallenged(o, e)
         [] kind = "408" -> UNCHANGED offer /\ Close(o, e)
         [] kind \in {"491", "500"} ->
              obj' = o /\ tmr' = TRUE /\ UNCHANGED <<app, st, offer>>
         [] OTHER -> ReinviteOver(o, modpend, FALSE, e)

reinvite_resp_handler(kind) ==
  /\ Live /\ obj.req = "reINVITE"
  /\ UNCHANGED <<dialog, msg, replies, sent, info>>
  /\ \E e \in Env :
       CASE kind = "2xx" ->
              ReinviteOver(Fresh(Done(obj)), modpend /\ sentoffer, FALSE, e)
         [] kind = "timeout" -> ReinviteOver(Done(obj), modpend, TRUE, e)
         [] OTHER -> ReinviteRefused(Fail(Done(obj)), kind, e)

(* Fault: the BYE's own reference is not given back.                        *)
bye_resp_handler_leak(kind) ==
  /\ Live /\ obj.req = "BYE"
  /\ UNCHANGED <<msg, replies, sent, offer, dialog, info>>
  /\ Keep(Fail(Done(obj)))

bye_resp_handler(kind) ==
  /\ Live /\ obj.req = "BYE"
  /\ UNCHANGED <<msg, replies, sent, offer, dialog, info>>
  /\ \E e \in Env :
       LET o == Fail(Done(obj)) IN
       IF kind = "401" /\ ~Loops(o) /\ ~peerterm /\ e.app /\ e.send
       THEN Keep(Sent(o, "BYE", e)) ELSE Deref(o, e)

(* The end of one INFO.  408, 481 and a timeout end the session; then the   *)
(* INFO's destructor pays back what the session took to wait for it.        *)
InfoDone(i, dead, e) ==
  LET o == IF dead THEN sipsess_terminate(obj, Pending, Hangup, e) ELSE obj IN
  /\ info' = [info EXCEPT ![i] = NoInfo]
  /\ closes' = closes + One(dead) /\ estabs' = estabs
  /\ appref' = (appref /\ ~(dead /\ e.release))
  /\ UNCHANGED <<msg, replies, sent, offer, dialog>>
  /\ Becomes(IF o.life # "live" THEN [o EXCEPT !.life = "corrupt"]
             ELSE IF o.terminated # 0 /\ ~HasInfo(info')
             THEN mem_deref(o, Pending', Hangup', e) ELSE o)

InfoRetried(i) ==
  /\ info' = [info EXCEPT ![i] = @ + 1]
  /\ UNCHANGED <<obj, app, uas, offer, dialog, tmr>>

info_resp_handler(i, kind) ==
  /\ Live /\ info[i] # NoInfo
  /\ \E e \in Env :
       LET loops == info[i] + 1 >= LoopMax
           dead  == kind = "timeout" \/ (kind = "408" /\ ~loops)
       IN IF kind = "401" /\ ~loops /\ obj.terminated = 0 /\ e.app /\ e.send
          THEN InfoRetried(i) ELSE InfoDone(i, dead /\ obj.terminated = 0, e)

-----------------------------------------------------------------------------
(* The peer's requests.  Replies that leave the session alone (481, or 500  *)
(* for a CSeq from the past) are not steps.                                 *)

InDialog(c) == Live /\ rtag /\ c >= rseq

cancel_handler ==
  /\ Live /\ st
  /\ peerterm' = TRUE
  /\ UNCHANGED <<owner, established, rtag, rseq, confirmed, msg, replies, sent, offer,
                 info>>
  /\ \E e \in Env : Close(obj, e)

bye_handler(c) ==
  /\ InDialog(c)
  /\ rseq' = c /\ peerterm' = TRUE
  /\ UNCHANGED <<owner, established, rtag, confirmed, msg, replies, sent, offer, info>>
  /\ IF obj.terminated # 0 THEN Keep(obj) ELSE \E e \in Env : Close(obj, e)

(* INFO and REFER only advance the CSeq before they reach the application.  *)
info_refer_handler(c) ==
  /\ InDialog(c) /\ obj.terminated = 0
  /\ rseq' = c
  /\ UNCHANGED <<obj, app, uas, offer, owner, established, peerterm, rtag, confirmed,
                 info, tmr>>

(* Fault: a re-INVITE is accepted before the INVITE has been answered.      *)
Refuses_unless_answered == awaiting \/ obj.req # "none"

Refuses == st \/ awaiting \/ obj.req # "none"   \* replied to with 500 or 491

(* An accepted re-INVITE outdates what the application wanted to offer.     *)
reinvite_handler(c) ==
  /\ InDialog(c) /\ obj.terminated = 0
  /\ rseq' = c
  /\ \E awaits \in BOOLEAN, e \in Env :
       IF Refuses \/ ~e.app
       THEN UNCHANGED <<replies, sent, offer, confirmed, tmr>>
       ELSE /\ sipsess_reply_2xx(c, awaits, e)
            /\ desc' = FALSE /\ modpend' = FALSE /\ tmr' = FALSE /\ UNCHANGED sentoffer
  /\ UNCHANGED <<obj, app, st, msg, owner, established, peerterm, rtag, info>>

(* Fault: the modification is sent although another 2xx is unacknowledged.  *)
SendsPostponed_reply == modpend /\ obj.req = "none"

SendsPostponed == modpend /\ replies' = {} /\ obj.req = "none"

(* Fault: every ACK establishes the session.                                *)
Acked_again(awaited, e) ==
  /\ awaiting' = (awaiting /\ ~awaited)
  /\ established' = TRUE /\ msg' = FALSE
  /\ UNCHANGED <<modpend, sentoffer, desc>>
  /\ IF awaited /\ ~e.app THEN Close(obj, e) ELSE Establish(obj, e)

(* An ACK with a matching 2xx at a session still in use; awaited says that  *)
(* it had to bring an answer.                                               *)
Acked(awaited, e) ==
  LET o == IF SendsPostponed THEN sipsess_reinvite(obj, e) ELSE obj
  IN /\ awaiting' = (awaiting /\ ~awaited)
     /\ IF SendsPostponed THEN modpend' = FALSE /\ sentoffer' = desc
        ELSE UNCHANGED <<modpend, sentoffer>>
     /\ UNCHANGED desc
     /\ established' = TRUE
     /\ IF established THEN UNCHANGED msg /\ Keep(o)
        ELSE /\ msg' = FALSE
             /\ IF awaited /\ ~e.app THEN Close(o, e) ELSE Establish(o, e)

(* Fault: the ACK of a session being torn down is handled like any other.   *)
ack_handler_ended(c) ==
  /\ Live /\ rtag
  /\ UNCHANGED <<owner, peerterm, rtag, rseq, confirmed, sent, info>>
  /\ \E r \in replies, e \in Env :
       /\ Oldest(r, {q \in replies : q.cseq = c})
       /\ replies' = replies \ {r}
       /\ Acked(r.awaiting, e)

ack_handler(c) ==
  /\ Live /\ rtag
  /\ UNCHANGED <<owner, peerterm, rtag, rseq, confirmed, sent, info>>
  /\ \E r \in replies, e \in Env :
       /\ Oldest(r, {q \in replies : q.cseq = c})
       /\ replies' = replies \ {r}
       /\ IF obj.terminated = 0 THEN Acked(r.awaiting, e)
          ELSE /\ UNCHANGED <<offer, msg>>
               /\ IF replies' # {} THEN UNCHANGED established /\ Keep(obj)
                  ELSE established' = TRUE /\ Deref(obj, e)

-----------------------------------------------------------------------------
(* Timers.  All replies wait equally long, so the oldest expires first.     *)

(* Fault: a call whose ACK never came is not ended with a BYE.              *)
reply_tmr_handler_silent ==
  /\ Live
  /\ UNCHANGED <<dialog, msg, sent, offer, info>>
  /\ \E r \in replies, e \in Env :
       /\ Oldest(r, replies)
       /\ replies' = replies \ {r}
       /\ IF replies' # {} THEN Keep(obj) ELSE CloseOrDeref(obj, e)

reply_tmr_handler ==
  /\ Live
  /\ UNCHANGED <<owner, peerterm, rtag, rseq, confirmed, msg, sent, offer, info>>
  /\ \E r \in replies, e \in Env :
       /\ Oldest(r, replies)
       /\ replies' = replies \ {r}
       /\ IF replies' # {} THEN UNCHANGED established /\ Keep(obj)
          ELSE established' = TRUE /\ CloseOrDeref(obj, e)

modify_tmr_handler ==
  /\ Live /\ tmr
  /\ tmr' = FALSE
  /\ IF obj.req # "none" THEN UNCHANGED <<obj, offer>>
     ELSE OfferSent /\ \E e \in Env : obj' = sipsess_reinvite(obj, e)
  /\ UNCHANGED <<app, uas, dialog, info>>

-----------------------------------------------------------------------------
AppStep ==
  \/ sipsess_connect \/ sipsess_accept
  \/ sipsess_progress \/ sipsess_answer \/ sipsess_reject
  \/ sipsess_modify \/ Release
  \/ \E i \in Infos : sipsess_info(i)

Response ==
  \/ InviteProgress
  \/ \E kind \in Finals : \/ invite_resp_handler(kind)
                          \/ reinvite_resp_handler(kind)
                          \/ bye_resp_handler(kind)
                          \/ \E i \in Infos : info_resp_handler(i, kind)

PeerRequest ==
  \/ cancel_handler
  \/ \E c \in 1..MaxSeq : \/ bye_handler(c) \/ info_refer_handler(c)
                          \/ reinvite_handler(c) \/ ack_handler(c)

Timer == reply_tmr_handler \/ modify_tmr_handler

Next == AppStep \/ Response \/ PeerRequest \/ Timer

Spec == Init /\ [][Next]_vars

-----------------------------------------------------------------------------
(* What must hold.                                                          *)

TypeOK ==
  /\ obj \in Object
  /\ owner \in BOOLEAN /\ established \in BOOLEAN /\ peerterm \in BOOLEAN
  /\ rtag \in BOOLEAN /\ rseq \in 0..MaxSeq /\ confirmed \in BOOLEAN
  /\ st \in BOOLEAN /\ msg \in BOOLEAN
  /\ replies \subseteq Reply /\ sent \in 0..MaxReplies
  /\ modpend \in BOOLEAN /\ awaiting \in BOOLEAN
  /\ desc \in BOOLEAN /\ sentoffer \in BOOLEAN
  /\ info \in [Infos -> NoInfo..(LoopMax - 1)] /\ tmr \in BOOLEAN
  /\ appref \in BOOLEAN /\ estabs \in Nat /\ closes \in Nat

(* The count is exactly one for the application plus, during teardown, one  *)
(* for each kind of transaction still waited for: termwait, terminate and   *)
(* every completion handler agree on who pays back which reference.         *)
RefBalance ==
  Live => /\ obj.refs > 0
          /\ obj.refs = One(appref) +
                 (CASE obj.terminated = 0 -> 0
                    [] obj.terminated = 1 -> Waits(obj, Pending)
                    [] obj.terminated = 2 -> One(obj.req = "BYE"))

(* No handler reads or dereferences the session after it has been freed,    *)
(* though the close handler it has just called may have freed it.           *)
NoUseAfterFree == obj.life # "corrupt"

(* sess->req is never overwritten while a request of the session is in      *)
(* flight, so each one can still be cancelled and is answered exactly once. *)
OneRequest == obj.req # "several"

(* The session is not freed while a request, an unacknowledged 2xx, an INFO *)
(* or the retry timer still holds a pointer to it, nor by anyone else than  *)
(* the application's own release.                                           *)
NothingDangling ==
  obj.life = "freed" => /\ obj.req = "none" /\ replies = {} /\ ~HasInfo(info)
                        /\ ~st /\ ~tmr /\ ~appref

(* The life of the object as a whole: counted, used and pointed to by what  *)
(* it holds, and by no request it has lost sight of.                        *)
MemorySafety == RefBalance /\ NoUseAfterFree /\ NothingDangling /\ OneRequest

(* Once the peer believes in a call, the session is not freed before one    *)
(* side has sent a BYE, whatever order teardown, answers, lost ACKs and     *)
(* cancellation come in; only a BYE that could not be sent is excused.      *)
NoHalfOpenCall ==
  obj.life = "freed" /\ confirmed => obj.bye # "no" \/ peerterm

(* The session never has a re-INVITE of its own in flight, or about to be   *)
(* repeated by the retry timer, while a 2xx of its own awaits the ACK.      *)
NoGlare == replies # {} => obj.req # "reINVITE" /\ ~tmr

(* A postponed modification is never forgotten: some request, retry timer   *)
(* or ACK is pending whose handler will send it.                            *)
ModifyHasTrigger ==
  modpend /\ obj.terminated = 0 => obj.req # "none" \/ tmr \/ replies # {}

(* A session that refuses re-INVITEs because it awaits an answer in an ACK  *)
(* still has the reply whose ACK (or timeout) ends the refusal.             *)
AwaitingHasReply ==
  awaiting /\ obj.terminated = 0 => \E r \in replies : r.awaiting

(* While the first INVITE is unanswered the stored message is there to be   *)
(* answered from, and nothing has been acknowledged or re-offered yet.      *)
PendingInviteKept == st => msg /\ replies = {} /\ ~established

(* Nothing that was put off until an answer or an ACK is lost before that   *)
(* comes: a modification, the wait for an answer, the INVITE to be answered.*)
NothingForgotten == ModifyHasTrigger /\ AwaitingHasReply /\ PendingInviteKept

(* A modification that must not cross an answer of ours waits for its ACK,  *)
(* and is sent after it: put off, and not forgotten.                        *)
PutOffNotForgotten == NoGlare /\ NothingForgotten

(* The application hears of the end of a session it still holds, and once.  *)
ToldOfEnd == /\ closes <= 1
             /\ obj.terminated # 0 /\ appref => closes = 1

(* What the user of the session sees of it.                                 *)
Phase ==
  CASE obj.life = "none" -> "idle"
    [] obj.life # "none" /\ ~appref -> "released"
    [] appref /\ closes > 0 -> "ended"
    [] appref /\ closes = 0 /\ estabs > 0 -> "up"
    [] appref /\ closes = 0 /\ estabs = 0 /\ owner -> "calling"
    [] OTHER -> IF st THEN "offered" ELSE IF confirmed THEN "answered" ELSE "rejected"

Service == INSTANCE SessionService WITH phase <- Phase

(* The session keeps the promise made to the call that uses it: it moves    *)
(* and calls back only as the table of SessionMoves allows.                 *)
ImplementsSession == Service!Spec

-----------------------------------------------------------------------------
(* Fairness: the transaction layer ends every transaction of a session that *)
(* is going away (a cancelled INVITE and a BYE are limited to 64*T1) and    *)
(* the event loop runs every expired timer.  An INVITE that merely rings,   *)
(* and the application, may take for ever.                                  *)
Canceled == obj.terminated = 1

Fairness ==
  /\ WF_vars(Canceled /\ \E kind \in Finals : invite_resp_handler(kind))
  /\ WF_vars(Canceled /\ \E kind \in Finals : reinvite_resp_handler(kind))
  /\ WF_vars(\E kind \in Finals : bye_resp_handler(kind))
  /\ \A i \in Infos : WF_vars(\E kind \in Finals : info_resp_handler(i, kind))
  /\ WF_vars(reply_tmr_handler)

FairSpec == Spec /\ Fairness

(* A session the application has released is eventually freed: none of the  *)
(* references taken for pending transactions is lost.                       *)
ReleasedIsFreed == (Live /\ ~appref) ~> (obj.life = "freed")
=============================================================================
