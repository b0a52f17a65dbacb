--------------------------- MODULE SipTransaction ---------------------------
(***************************************************************************)
(* One SIP request from end to end: the client transaction (ctrans.c) and   *)
(* the part of request.c that owns it, the network, and the server          *)
(* transaction (strans.c) with its user.  re/src/sip implements both sides. *)
(*                                                                          *)
(* The request has a single destination: a 503 or an error is final, as it  *)
(* is for the last address of a lookup (request.c's failover to another     *)
(* address starts another transaction, with another branch).                *)
(***************************************************************************)
EXTENDS Integers

CONSTANT MaxHanded  \* bound: how often the request is handed to the server's user

ASSUME MaxHandedAssumption == MaxHanded \in Nat \ {0}

VARIABLES
  invite,   \* the request is an INVITE
  reliable, \* it travels over TCP or TLS
  net,      \* the messages in flight; over UDP any of them may arrive twice
  ct,       \* client transaction: its state, "none" when there is none
  timers,   \* its armed timers, of "tmr" and "tmre"
  queued,   \* its message waits for the connection to be established (qent)
  provrecv, canceled,  \* of the request (struct sip_request)
  outcome,  \* what the user's response handler was given, "error" for an errno
  cc,       \* client transaction of the CANCEL
  st,       \* server transaction: its state, "none" when there is none
  stimers,  \* its armed timers, of "tmr" and "tmrg"
  reply,    \* the last response, kept for retransmission (st->mb)
  handed,   \* history: how often the server's user was given the request
  answers,  \* history: the final responses it gave
  kept      \* history: the last of them was sent by a server transaction

(* What the request is, both its ends know and neither changes.             *)
kind    == <<invite, reliable>>
client  == <<kind, ct, timers, queued, provrecv, canceled, outcome, cc>>
server  == <<kind, st, stimers, reply, handed, answers, kept>>
vars    == <<net, client, server>>

Finals  == {"2xx", "3xx"}  \* every failure response is a "3xx"
Message == [met : {"REQUEST", "ACK", "CANCEL"}, code : Finals \cup {"1xx", "request"}]

Ask            == [met |-> "REQUEST", code |-> "request"]
Ack            == [met |-> "ACK", code |-> "request"]
Cancel         == [met |-> "CANCEL", code |-> "request"]
Response(m, c) == [met |-> m, code |-> c]

Waiting == ct \in {"CALLING", "TRYING", "PROCEEDING"}

Init ==
  /\ invite \in BOOLEAN /\ reliable \in BOOLEAN
  /\ net = {}
  /\ ct = "none" /\ timers = {} /\ queued = FALSE
  /\ provrecv = FALSE /\ canceled = FALSE /\ outcome = "none" /\ cc = "none"
  /\ st = "none" /\ stimers = {} /\ reply = "none"
  /\ handed = 0 /\ answers = {} /\ kept = FALSE

-----------------------------------------------------------------------------
(* The network.                                                             *)

(* What may be left in flight when m has been received.                     *)
After(m) == IF reliable THEN {net \ {m}} ELSE {net, net \ {m}}

(* A datagram is lost, or the connection it was on is closed.               *)
Lose(m) == m \in net /\ net' = net \ {m} /\ UNCHANGED <<client, server>>

-----------------------------------------------------------------------------
(* The client transaction.                                                  *)

(* Fault: the destructor leaves the message in the connection's queue.      *)
Free_queued == ct' = "none" /\ timers' = {} /\ UNCHANGED queued

Free    == ct' = "none" /\ timers' = {} /\ queued' = FALSE
Ended(o) == outcome' = o /\ UNCHANGED <<provrecv, canceled, cc>>

(* The transaction ends without a response, and so does the request.        *)
Fail == Waiting /\ Ended("error") /\ Free /\ UNCHANGED <<net, server>>

(* Fault: the timer B or F is not started over a connection.                *)
sip_request_timeless ==
  /\ ct = "none" /\ outcome = "none"
  /\ ct' = IF invite THEN "CALLING" ELSE "TRYING"
  /\ timers' = IF reliable THEN {} ELSE {"tmre"}
  /\ queued' \in {reliable, FALSE}
  /\ net' = IF queued' THEN net ELSE net \cup {Ask}
  /\ UNCHANGED <<provrecv, canceled, outcome, cc, server>>

sip_request ==
  /\ ct = "none" /\ outcome = "none"
  /\ ct' = IF invite THEN "CALLING" ELSE "TRYING"
  /\ timers' = {"tmr"} \cup IF reliable THEN {} ELSE {"tmre"}
  /\ queued' \in {reliable, FALSE}   \* no established connection, or one
  /\ net' = IF queued' THEN net ELSE net \cup {Ask}
  /\ UNCHANGED <<provrecv, canceled, outcome, cc, server>>

Connected ==
  /\ queued /\ queued' = FALSE /\ net' = net \cup {Ask}
  /\ UNCHANGED <<ct, timers, provrecv, canceled, outcome, cc, server>>

(* The connection fails first (conn_close).                                 *)
transport_handler == queued /\ Fail

(* tmre is armed only while a response is awaited (TypeOK).                 *)
retransmit_handler ==
  /\ "tmre" \in timers
  /\ \/ net' = net \cup {Ask} /\ UNCHANGED <<client, server>>
     \/ Fail                          \* sip_transp_send failed

(* Fault: a transaction that has its response times out like any other.     *)
tmr_handler_always ==
  /\ "tmr" \in timers
  /\ Ended("error") /\ Free /\ UNCHANGED <<net, server>>

tmr_handler ==
  /\ "tmr" \in timers
  /\ \/ Fail
     \/ /\ ct = "COMPLETED" /\ Free
        /\ UNCHANGED <<net, provrecv, canceled, outcome, cc, server>>

(* sip_ctrans_cancel on an INVITE in PROCEEDING, rest being in flight and t *)
(* armed: the timer that bounds the wait is started, the CANCEL sent if its *)
(* own transaction can be set up.                                           *)
sip_ctrans_cancel(rest, t) ==
  /\ timers' = t \cup {"tmr"}
  /\ \/ net' = rest \cup {Cancel} /\ cc' = "TRYING"
     \/ net' = rest /\ UNCHANGED cc

(* Fault: the CANCEL is sent before the new state is assigned, and refused. *)
Provisional_early ==
  \E rest \in After(Response("REQUEST", "1xx")) :
    /\ Waiting /\ Response("REQUEST", "1xx") \in net
    /\ ct' = "PROCEEDING" /\ provrecv' = TRUE
    /\ timers' = IF ct = "CALLING" THEN {} ELSE timers
    /\ net' = rest
    /\ UNCHANGED <<queued, canceled, outcome, cc, server>>

(* The first provisional response releases a CANCEL that has been waiting.  *)
Provisional ==
  \E rest \in After(Response("REQUEST", "1xx")) :
    /\ Waiting /\ Response("REQUEST", "1xx") \in net
    /\ ct' = "PROCEEDING" /\ provrecv' = TRUE
    /\ LET t == IF ct = "CALLING" THEN {} ELSE timers
       IN IF invite /\ canceled /\ ~provrecv
          THEN sip_ctrans_cancel(rest, t)
          ELSE net' = rest /\ timers' = t /\ UNCHANGED cc
    /\ UNCHANGED <<queued, canceled, outcome, server>>

(* Fault: a response is taken for the request's by its branch alone.        *)
Final_branch(c) ==
  \E m \in {"REQUEST", "CANCEL"} : \E rest \in After(Response(m, c)) :
    /\ Waiting /\ Response(m, c) \in net
    /\ Ended(c)
    /\ net' = IF invite /\ c = "3xx" THEN rest \cup {Ack} ELSE rest
    /\ IF reliable \/ (invite /\ c = "2xx") THEN Free
       ELSE ct' = "COMPLETED" /\ timers' = {"tmr"} /\ UNCHANGED queued
    /\ UNCHANGED server

(* A final response; COMPLETED then answers for what the network repeats.   *)
Final(c) ==
  \E rest \in After(Response("REQUEST", c)) :
    /\ Waiting /\ Response("REQUEST", c) \in net
    /\ Ended(c)
    /\ net' = IF invite /\ c = "3xx" THEN rest \cup {Ack} ELSE rest
    /\ IF reliable \/ (invite /\ c = "2xx") THEN Free
       ELSE ct' = "COMPLETED" /\ timers' = {"tmr"} /\ UNCHANGED queued
    /\ UNCHANGED server

AckAgain ==
  /\ invite /\ ct = "COMPLETED" /\ Response("REQUEST", "3xx") \in net
  /\ \E rest \in After(Response("REQUEST", "3xx")) : net' = rest \cup {Ack}
  /\ UNCHANGED <<client, server>>

(* Fault: the CANCEL does not wait for a provisional response.              *)
sip_request_cancel_early ==
  /\ Waiting /\ ~canceled /\ canceled' = TRUE
  /\ IF invite THEN sip_ctrans_cancel(net, timers)
     ELSE UNCHANGED <<net, timers, cc>>
  /\ UNCHANGED <<ct, queued, provrecv, outcome, server>>

(* The user cancels the request, or drops it (request.c's destructor).      *)
sip_request_cancel ==
  /\ Waiting /\ ~canceled /\ canceled' = TRUE
  /\ IF invite /\ provrecv THEN sip_ctrans_cancel(net, timers)
     ELSE UNCHANGED <<net, timers, cc>>
  /\ UNCHANGED <<ct, queued, provrecv, outcome, server>>

(* sip_close, forced: every request is ended at once.                       *)
sip_request_close == Fail

(* The CANCEL is a request of its own, with nobody listening.               *)
CancelRetransmit ==
  /\ cc = "TRYING" /\ ~reliable /\ net' = net \cup {Cancel}
  /\ UNCHANGED <<client, server>>

CancelEnded(rest) ==
  /\ cc = "TRYING" /\ cc' = "done" /\ net' = rest
  /\ UNCHANGED <<ct, timers, queued, provrecv, canceled, outcome, server>>

CancelAnswered ==
  \E c \in Finals : \E rest \in After(Response("CANCEL", c)) :
    Response("CANCEL", c) \in net /\ CancelEnded(rest)

CancelFailed == CancelEnded(net)

-----------------------------------------------------------------------------
(* The server transaction.                                                  *)

FreeServer == st' = "none" /\ stimers' = {} /\ reply' = "none"

(* Fault: a final reply frees the transaction, whatever the transport.      *)
sip_strans_reply_free(c, rest) ==
  \/ /\ FreeServer /\ net' = rest /\ UNCHANGED <<answers, kept>>
  \/ /\ net' = rest \cup {Response("REQUEST", c)}
     /\ answers' = answers \cup ({c} \cap Finals) /\ kept' = (c \in Finals)
     /\ IF c = "1xx" THEN st' = "PROCEEDING" /\ reply' = c /\ UNCHANGED stimers
        ELSE FreeServer

(* The user replies c, rest being in flight; st' is PROCEEDING for a        *)
(* provisional reply.  A reply that cannot be sent frees the transaction.   *)
sip_strans_reply(c, rest) ==
  \/ /\ FreeServer /\ net' = rest /\ UNCHANGED <<answers, kept>>
  \/ /\ net' = rest \cup {Response("REQUEST", c)}
     /\ answers' = answers \cup ({c} \cap Finals) /\ kept' = (c \in Finals)
     /\ IF c # "1xx" /\ ~invite /\ reliable THEN FreeServer
        ELSE /\ reply' = c
             /\ st' = CASE c = "1xx" -> "PROCEEDING"
                        [] c = "2xx" /\ invite -> "ACCEPTED"
                        [] OTHER -> "COMPLETED"
             /\ stimers' = IF c = "1xx" THEN stimers
                           ELSE IF invite /\ c = "3xx" /\ ~reliable
                           THEN {"tmr", "tmrg"} ELSE {"tmr"}

(* A request that matches no transaction goes to the user, who allocates    *)
(* one and replies in the same step (sipsess_accept, sip_treply), or replies*)
(* without one (sip_reply): 488 to a re-INVITE, any answer to an INFO, a    *)
(* REFER or a MESSAGE.                                                      *)
HandUp ==
  /\ st = "none" /\ handed < MaxHanded /\ handed' = handed + 1
  /\ Ask \in net
  /\ \E rest \in After(Ask) :
       \/ \E c \in Finals \cup {"1xx"} :
            /\ invite \/ c \in Finals
            /\ sip_strans_reply(c, rest)
       \/ \E c \in Finals :
            /\ invite => c = "3xx"
            /\ net' = rest \cup {Response("REQUEST", c)}
            /\ answers' = answers \cup {c}
            /\ UNCHANGED <<st, stimers, reply, kept>>
  /\ UNCHANGED client

(* A repeated request finds the transaction.                                *)
Again ==
  /\ st # "none" /\ Ask \in net
  /\ \E rest \in After(Ask) :
       net' = IF st \in {"PROCEEDING", "COMPLETED"}
              THEN rest \cup {Response("REQUEST", reply)} ELSE rest
  /\ UNCHANGED <<client, server>>

(* The user goes on with its reply: progress, an answer or a rejection.     *)
Reply ==
  /\ st = "PROCEEDING"
  /\ \E c \in Finals \cup {"1xx"} : sip_strans_reply(c, net)
  /\ UNCHANGED <<client, handed>>

(* 2xx replies to an INVITE are repeated by the user (sipsess/reply.c).     *)
AcceptedAgain ==
  /\ st = "ACCEPTED" /\ net' = net \cup {Response("REQUEST", "2xx")}
  /\ UNCHANGED <<client, server>>

(* Fault: an ACK confirms the transaction whatever it has replied.          *)
ack_handler_any ==
  /\ st # "none" /\ Ack \in net
  /\ net' \in After(Ack)
  /\ IF reliable THEN FreeServer
     ELSE st' = "CONFIRMED" /\ stimers' = {"tmr"} /\ UNCHANGED reply
  /\ UNCHANGED <<client, handed, answers, kept>>

(* Fault: the ACK stops both timers and starts none.                        *)
ack_handler_untimed ==
  /\ invite /\ st = "COMPLETED" /\ Ack \in net
  /\ net' \in After(Ack)
  /\ IF reliable THEN FreeServer
     ELSE st' = "CONFIRMED" /\ stimers' = {} /\ UNCHANGED reply
  /\ UNCHANGED <<client, handed, answers, kept>>

ack_handler ==
  /\ invite /\ st = "COMPLETED" /\ Ack \in net
  /\ net' \in After(Ack)
  /\ IF reliable THEN FreeServer
     ELSE st' = "CONFIRMED" /\ stimers' = {"tmr"} /\ UNCHANGED reply
  /\ UNCHANGED <<client, handed, answers, kept>>

(* The CANCEL is answered without a transaction: 200 if the request has one,*)
(* else 481 (sip_recv).  A request in progress is also answered, with 487.  *)
cancel_handler ==
  /\ Cancel \in net
  /\ \E rest \in After(Cancel) :
       IF st = "PROCEEDING"
       THEN sip_strans_reply("3xx", rest \cup {Response("CANCEL", "2xx")})
       ELSE /\ net' = rest \cup {Response("CANCEL", IF st = "none" THEN "3xx" ELSE "2xx")}
            /\ UNCHANGED <<st, stimers, reply, answers, kept>>
  /\ UNCHANGED <<client, handed>>

strans_retransmit_handler ==
  /\ "tmrg" \in stimers /\ net' = net \cup {Response("REQUEST", reply)}
  /\ UNCHANGED <<client, server>>

(* The 64*T1 and T4 of strans.c are chosen to outlive every copy of the     *)
(* request: the client repeats it for 64*T1 at most and no copy is in       *)
(* flight any longer.                                                       *)
Outlived == Ask \notin net /\ "tmre" \notin timers

strans_tmr_handler ==
  /\ "tmr" \in stimers /\ Outlived
  /\ FreeServer /\ UNCHANGED <<net, client, handed, answers, kept>>

-----------------------------------------------------------------------------
ClientNext ==
  \/ sip_request \/ Connected \/ transport_handler
  \/ retransmit_handler \/ tmr_handler
  \/ Provisional \/ (\E c \in Finals : Final(c)) \/ AckAgain
  \/ sip_request_cancel \/ sip_request_close
  \/ CancelRetransmit \/ CancelAnswered \/ CancelFailed

ServerNext ==
  \/ HandUp \/ Again \/ Reply \/ AcceptedAgain
  \/ ack_handler \/ cancel_handler
  \/ strans_retransmit_handler \/ strans_tmr_handler

Next == ClientNext \/ ServerNext \/ \E m \in Message : Lose(m)

Spec == Init /\ [][Next]_vars

(* An armed timer fires and no message stays in flight for ever; nobody has *)
(* to reply, to cancel, or to be heard.                                     *)
Fairness ==
  /\ WF_vars(tmr_handler) /\ WF_vars(CancelFailed)
  /\ WF_vars(strans_tmr_handler)
  /\ \A m \in Message : WF_vars(Lose(m))

FairSpec == Spec /\ Fairness

-----------------------------------------------------------------------------
TypeOK ==
  /\ invite \in BOOLEAN /\ reliable \in BOOLEAN
  /\ net \subseteq Message
  /\ ct \in {"none", "CALLING", "TRYING", "PROCEEDING", "COMPLETED"}
  /\ timers \subseteq IF Waiting THEN {"tmr", "tmre"} ELSE {"tmr"}
  /\ queued \in BOOLEAN /\ provrecv \in BOOLEAN /\ canceled \in BOOLEAN
  /\ outcome \in Finals \cup {"none", "error"}
  /\ cc \in {"none", "TRYING", "done"}
  /\ st \in {"none", "PROCEEDING", "ACCEPTED", "COMPLETED", "CONFIRMED"}
  /\ stimers \subseteq {"tmr", "tmrg"}
  /\ reply \in Finals \cup {"none", "1xx"}
  /\ handed \in 0..MaxHanded /\ answers \subseteq Finals /\ kept \in BOOLEAN

(* Safety: what the two transactions make of an unreliable network is the   *)
(* service: a request is handed up again only if its answer was not kept,   *)
(* the client's outcome is an answer that was given or an error, and        *)
(* neither changes once it is there.                                        *)
Abstract == INSTANCE TransactionService WITH
  Failure <- "error",
  asked   <- ct # "none" \/ outcome # "none",
  serving <- st = "PROCEEDING"

ImplementsService == Abstract!Service

(* An ACK confirms only a rejection, and one the client has learned of: a   *)
(* server that stops repeating its 3xx-6xx response has been heard.         *)
ConfirmedIsKnown == st = "CONFIRMED" => reply = "3xx" /\ outcome = "3xx"

(* A CANCEL never overtakes its INVITE (RFC 3261 9.1): whoever receives one *)
(* has been given the request before.                                       *)
CancelFollowsRequest == cc # "none" => handed > 0

(* Neither side is told of what has not happened at the other, whatever the *)
(* network does to the order of messages.                                   *)
CauseBeforeEffect == ConfirmedIsKnown /\ CancelFollowsRequest

(* Once the user has its outcome the request is not sent any more, not even *)
(* by a connection that was being set up when it ended.                     *)
NothingSentAfterOutcome ==
  [][outcome # "none" /\ Ask \notin net => Ask \notin net']_vars

(* Liveness: a request ends, cancelled or not; only an INVITE that is in    *)
(* progress may stay there for as long as nobody cancels it.                *)
Ends ==
  /\ Waiting /\ (canceled \/ ~invite) ~> ~Waiting
  /\ ct = "CALLING" ~> ct # "CALLING"

(* Liveness: a transaction that has its final reply is released.            *)
Released == st \in {"ACCEPTED", "COMPLETED", "CONFIRMED"} ~> st = "none"

(* Liveness: neither transaction is left over.                              *)
BothEnd == Ends /\ Released
=============================================================================
