------------------------ MODULE SipTransactionProofs ------------------------
(***************************************************************************)
(* SipTransaction implements TransactionService, however often the request  *)
(* is handed up; and the requests of SipRequest, which are made of such     *)
(* transactions, are safe and end right, whatever their number, the         *)
(* addresses and SRV records that are found, and the transports there are.  *)
(***************************************************************************)
EXTENDS SipTransaction, SipRequestMC, Sequences, TLAPS

Asked == ct # "none" \/ outcome # "none"

(* The request is not in flight and the client will not send it any more.   *)
Outlives == Ask \notin net /\ "tmre" \notin timers /\ ~queued

ClientTyped ==
  /\ invite \in BOOLEAN /\ reliable \in BOOLEAN
  /\ ct \in {"none", "CALLING", "TRYING", "PROCEEDING", "COMPLETED"}
  /\ timers \subseteq IF Waiting THEN {"tmr", "tmre"} ELSE {"tmr"}
  /\ queued \in BOOLEAN /\ provrecv \in BOOLEAN /\ canceled \in BOOLEAN
  /\ outcome \in Finals \cup {"none", "error"}
  /\ cc \in {"none", "TRYING", "done"}

ServerTyped ==
  /\ st \in {"none", "PROCEEDING", "ACCEPTED", "COMPLETED", "CONFIRMED"}
  /\ stimers \subseteq {"tmr", "tmrg"}
  /\ reply \in Finals \cup {"none", "1xx"}
  /\ handed \in 0..MaxHanded /\ answers \subseteq Finals /\ kept \in BOOLEAN

(* The client has its outcome exactly when it waits no longer; a queued or  *)
(* a repeated request is that of a client that waits.                       *)
ClientSound ==
  /\ Waiting => outcome = "none"
  /\ ct = "COMPLETED" => outcome # "none"
  /\ queued => reliable /\ Waiting
  /\ "tmre" \in timers => ~reliable

(* What the server says, on the network or to come, its user has answered.  *)
Truthful ==
  /\ \A c \in Finals : Response("REQUEST", c) \in net => c \in answers
  /\ reply \in Finals => reply \in answers
  /\ st = "ACCEPTED" => "2xx" \in answers
  /\ st # "none" => reply # "none"
  /\ stimers # {} => st # "none"

(* An answer is kept for as long as the request may arrive once more.       *)
Keeps ==
  /\ kept => st \in {"ACCEPTED", "COMPLETED", "CONFIRMED"} \/ (st = "none" /\ Outlives)
  /\ Ask \in net \/ st # "none" \/ kept => Asked
  /\ queued => st = "none" /\ Ask \notin net /\ ~kept
  /\ reliable /\ st # "none" => Ask \notin net

IInv ==
  /\ ClientTyped /\ ServerTyped /\ net \subseteq Message
  /\ ClientSound /\ Truthful /\ Keeps

-----------------------------------------------------------------------------
(* What a step of either side comes to.                                     *)

ClientMove ==
  /\ UNCHANGED server
  /\ ClientTyped' /\ ClientSound' /\ net' \subseteq Message
  /\ \A c \in Finals : Response("REQUEST", c) \in net' => Response("REQUEST", c) \in net
  /\ Asked \/ Ask \in net' => Asked'
  /\ Asked /\ Outlives => Outlives'
  /\ reliable /\ st # "none" => Ask \notin net'
  /\ queued' => st = "none" /\ Ask \notin net' /\ ~kept
  /\ \/ outcome' = outcome
     \/ Asked /\ outcome = "none" /\ outcome' \in answers \cup {"error"}

ServerMove ==
  /\ UNCHANGED client
  /\ ServerTyped' /\ Truthful' /\ net' \subseteq Message
  /\ Ask \in net' => Ask \in net
  /\ st' # "none" \/ kept' => Asked
  /\ kept' => st' \in {"ACCEPTED", "COMPLETED", "CONFIRMED"} \/ (st' = "none" /\ Outlives')
  /\ queued => st' = "none" /\ ~kept'
  /\ reliable /\ st' # "none" => Ask \notin net'
  /\ \/ /\ answers' = answers /\ kept' = kept
        /\ st' = "PROCEEDING" => st = "PROCEEDING" \/ (Asked /\ ~kept)
     \/ /\ Asked /\ ~kept /\ st' # "PROCEEDING"
        /\ \E a \in Finals : answers' = answers \cup {a}
        /\ kept' \/ (~kept' /\ st # "PROCEEDING")

LEMMA ClientMoveKeeps == ASSUME IInv, ClientMove PROVE IInv'
  <1>1. /\ invite' = invite /\ reliable' = reliable /\ st' = st /\ stimers' = stimers
        /\ reply' = reply /\ handed' = handed /\ answers' = answers /\ kept' = kept
    BY DEF ClientMove, server, kind
  <1>2. ServerTyped'
    BY <1>1 DEF IInv, ServerTyped
  <1>3. Truthful'
    BY <1>1 DEF IInv, Truthful, ClientMove
  <1>4. Keeps'
    BY <1>1 DEF IInv, Keeps, ClientMove
  <1> QED BY <1>2, <1>3, <1>4 DEF IInv, ClientMove

LEMMA ServerMoveKeeps == ASSUME IInv, ServerMove PROVE IInv'
  <1>1. /\ invite' = invite /\ reliable' = reliable /\ ct' = ct /\ timers' = timers
        /\ queued' = queued /\ provrecv' = provrecv /\ canceled' = canceled
        /\ outcome' = outcome /\ cc' = cc
    BY DEF ServerMove, client, kind
  <1>2. Waiting' = Waiting /\ Asked' = Asked
    BY <1>1 DEF Waiting, Asked
  <1>3. ClientTyped' /\ ClientSound'
    BY <1>1, <1>2 DEF IInv, ClientTyped, ClientSound
  <1>4. Keeps'
    BY <1>1, <1>2 DEF IInv, Keeps, ServerMove
  <1> QED BY <1>3, <1>4 DEF IInv, ServerMove

LEMMA ClientMoveRefines ==
  ASSUME IInv, ClientMove
  PROVE  [Abstract!SNext]_(Abstract!svars)
  <1>1. st' = st /\ answers' = answers /\ kept' = kept
    BY DEF ClientMove, server
  <1>2. CASE outcome' = outcome /\ Asked' = Asked
    BY <1>1, <1>2 DEF Abstract!svars, Asked
  <1>3. CASE outcome' = outcome /\ ~Asked /\ Asked'
    BY <1>1, <1>3 DEF Abstract!SNext, Abstract!Ask, Asked
  <1>4. CASE Asked /\ Asked' /\ outcome = "none" /\ outcome' \in answers \cup {"error"}
    BY <1>1, <1>4 DEF Abstract!SNext, Abstract!Learn, Asked
  <1>5. Asked => Asked'
    BY DEF ClientMove
  <1>6. Asked \in BOOLEAN /\ Asked' \in BOOLEAN
    BY DEF Asked
  <1> QED BY <1>2, <1>3, <1>4, <1>5, <1>6 DEF ClientMove

LEMMA ServerMoveRefines ==
  ASSUME IInv, ServerMove
  PROVE  [Abstract!SNext]_(Abstract!svars)
  <1>1. outcome' = outcome /\ ct' = ct
    BY DEF ServerMove, client
  <1>2. CASE /\ answers' = answers /\ kept' = kept
             /\ st' = "PROCEEDING" => st = "PROCEEDING" \/ (Asked /\ ~kept)
    <2>1. CASE (st' = "PROCEEDING") = (st = "PROCEEDING")
      BY <1>1, <1>2, <2>1 DEF Abstract!svars
    <2>2. CASE st' = "PROCEEDING" /\ st # "PROCEEDING"
      BY <1>1, <1>2, <2>2 DEF Abstract!SNext, Abstract!Serve, Asked
    <2>3. CASE st' # "PROCEEDING" /\ st = "PROCEEDING"
      BY <1>1, <1>2, <2>3 DEF Abstract!SNext, Abstract!Forget, Asked
    <2> QED BY <2>1, <2>2, <2>3
  <1>3. CASE /\ Asked /\ ~kept /\ st' # "PROCEEDING"
             /\ \E a \in Finals : answers' = answers \cup {a}
             /\ kept' \/ (~kept' /\ st # "PROCEEDING")
    <2>1. PICK a \in Finals : answers' = answers \cup {a}
      BY <1>3
    <2>2. kept' \in BOOLEAN
      BY DEF ServerMove, ServerTyped
    <2>3. Abstract!Answer
      BY <1>1, <1>3, <2>1, <2>2 DEF Abstract!Answer, Asked
    <2> QED BY <2>3 DEF Abstract!SNext
  <1> QED BY <1>2, <1>3 DEF ServerMove

-----------------------------------------------------------------------------
(* The messages.                                                            *)

LEMMA MessageFacts ==
  /\ Ask \in Message /\ Ack \in Message /\ Cancel \in Message
  /\ Ask # Ack /\ Ask # Cancel
  /\ \A m \in {"REQUEST", "CANCEL"}, c \in Finals \cup {"1xx"} :
       Response(m, c) \in Message /\ Response(m, c) # Ask
  /\ \A m \in {"REQUEST", "CANCEL"}, c \in Finals \cup {"1xx"}, d \in Finals :
       /\ Response(m, c) = Response("REQUEST", d) => m = "REQUEST" /\ c = d
       /\ Ask # Response(m, d) /\ Ack # Response(m, d) /\ Cancel # Response(m, d)
  BY DEF Ask, Ack, Cancel, Response, Message, Finals

LEMMA AfterFacts ==
  ASSUME NEW m, NEW rest \in After(m), reliable \in BOOLEAN
  PROVE  rest \subseteq net /\ (reliable => m \notin rest)
  BY DEF After

(* A step that adds none of the messages the proof looks at.                *)
Adds(S) ==
  /\ net' \subseteq net \cup S /\ S \subseteq Message
  /\ Ask \notin S /\ \A c \in Finals : Response("REQUEST", c) \notin S

-----------------------------------------------------------------------------
(* The steps of the client.                                                 *)

(* A step that neither starts a request nor sends one.                      *)
LEMMA PassiveStep ==
  ASSUME IInv, NEW S, Adds(S), UNCHANGED server, ClientTyped', ClientSound',
         Asked => Asked', queued' => queued,
         "tmre" \in timers' => "tmre" \in timers,
         \/ outcome' = outcome
         \/ Asked /\ outcome = "none" /\ outcome' \in answers \cup {"error"}
  PROVE  ClientMove
  <1>1. net' \subseteq Message
    BY DEF IInv, Adds
  <1>2. \A c \in Finals : Response("REQUEST", c) \in net' => Response("REQUEST", c) \in net
    BY DEF Adds
  <1>3. Ask \in net' => Ask \in net
    BY DEF Adds
  <1>4. Asked /\ Outlives => Outlives'
    BY <1>3 DEF Outlives
  <1>5. /\ Asked \/ Ask \in net' => Asked'
        /\ reliable /\ st # "none" => Ask \notin net'
        /\ queued' => st = "none" /\ Ask \notin net' /\ ~kept
    BY <1>3 DEF IInv, Keeps
  <1> QED BY <1>1, <1>2, <1>4, <1>5 DEF ClientMove

LEMMA RequestMove == ASSUME IInv, sip_request PROVE ClientMove
  <1>1. ~Asked /\ Asked' /\ outcome' = outcome
    BY DEF sip_request, Asked
  <1>2. st = "none" /\ ~kept /\ Ask \notin net
    BY <1>1 DEF IInv, Keeps
  <1>3. ClientTyped'
    BY DEF IInv, ClientTyped, sip_request, Waiting, server, kind
  <1>4. ClientSound'
    <2>1. Waiting' /\ outcome' = "none" /\ reliable' = reliable
      BY DEF sip_request, Waiting, server, kind
    <2>2. queued' => reliable
      BY DEF sip_request, IInv, ClientTyped
    <2>3. "tmre" \in timers' => ~reliable
      BY DEF sip_request
    <2>4. ct' # "COMPLETED"
      BY <2>1 DEF Waiting
    <2> QED BY <2>1, <2>2, <2>3, <2>4 DEF ClientSound
  <1>5. net' \subseteq Message /\ (queued' => Ask \notin net')
    BY <1>2, MessageFacts DEF IInv, sip_request
  <1>6. \A c \in Finals : Response("REQUEST", c) \in net' => Response("REQUEST", c) \in net
    BY MessageFacts DEF sip_request
  <1> QED BY <1>1, <1>2, <1>3, <1>4, <1>5, <1>6 DEF ClientMove, sip_request

LEMMA ConnectedMove == ASSUME IInv, Connected PROVE ClientMove
  <1>1. Asked /\ Asked' /\ outcome' = outcome
    BY DEF IInv, ClientSound, Connected, Waiting, Asked
  <1>2. st = "none" /\ ~Outlives
    BY DEF IInv, Keeps, Connected, Outlives
  <1>3. ClientTyped' /\ ClientSound'
    BY DEF IInv, ClientTyped, ClientSound, Connected, Waiting, server, kind
  <1>4. net' \subseteq Message
    BY MessageFacts DEF IInv, Connected
  <1>5. \A c \in Finals : Response("REQUEST", c) \in net' => Response("REQUEST", c) \in net
    BY MessageFacts DEF Connected
  <1> QED BY <1>1, <1>2, <1>3, <1>4, <1>5 DEF ClientMove, Connected

LEMMA FailMove == ASSUME IInv, Fail PROVE ClientMove
  <1>1. Asked /\ Asked' /\ outcome = "none" /\ outcome' = "error"
    BY DEF IInv, ClientSound, Fail, Ended, Waiting, Asked
  <1>2. ClientTyped' /\ ClientSound'
    BY DEF IInv, ClientTyped, ClientSound, Fail, Ended, Free, Waiting, server, kind
  <1>3. Adds({})
    BY DEF Adds, Fail
  <1> QED BY <1>1, <1>2, <1>3, PassiveStep DEF Fail, Free

LEMMA RetransmitMove == ASSUME IInv, retransmit_handler PROVE ClientMove
  <1>1. CASE Fail
    BY <1>1, FailMove
  <1>2. CASE "tmre" \in timers /\ net' = net \cup {Ask} /\ UNCHANGED <<client, server>>
    <2>1. /\ invite' = invite /\ reliable' = reliable /\ ct' = ct /\ timers' = timers
          /\ queued' = queued /\ provrecv' = provrecv /\ canceled' = canceled
          /\ outcome' = outcome /\ cc' = cc
      BY <1>2 DEF client, kind
    <2>2. ClientTyped' /\ ClientSound'
      BY <2>1 DEF IInv, ClientTyped, ClientSound, Waiting
    <2>3. ~reliable /\ ~queued /\ Waiting /\ ~Outlives
      BY <1>2 DEF IInv, ClientTyped, ClientSound, Outlives
    <2>4. Asked /\ Asked'
      BY <2>1, <2>3 DEF Waiting, Asked
    <2>5. net' \subseteq Message
      BY <1>2, MessageFacts DEF IInv
    <2>6. \A c \in Finals : Response("REQUEST", c) \in net' => Response("REQUEST", c) \in net
      BY <1>2, MessageFacts
    <2> QED BY <1>2, <2>1, <2>2, <2>3, <2>4, <2>5, <2>6 DEF ClientMove
  <1> QED BY <1>1, <1>2 DEF retransmit_handler

LEMMA TimeoutMove == ASSUME IInv, tmr_handler PROVE ClientMove
  <1>1. CASE Fail
    BY <1>1, FailMove
  <1>2. CASE /\ ct = "COMPLETED" /\ Free
             /\ UNCHANGED <<net, provrecv, canceled, outcome, cc, server>>
    <2>1. Asked /\ Asked'
      BY <1>2 DEF IInv, ClientSound, Asked
    <2>2. ClientTyped' /\ ClientSound'
      BY <1>2 DEF IInv, ClientTyped, ClientSound, Free, Waiting, server, kind
    <2>3. Adds({})
      BY <1>2 DEF Adds
    <2> QED BY <1>2, <2>1, <2>2, <2>3, PassiveStep DEF Free
  <1> QED BY <1>1, <1>2 DEF tmr_handler

LEMMA ProvisionalMove == ASSUME IInv, Provisional PROVE ClientMove
  <1>1. PICK rest \in After(Response("REQUEST", "1xx")) :
          /\ Waiting /\ ct' = "PROCEEDING" /\ provrecv' = TRUE
          /\ LET t == IF ct = "CALLING" THEN {} ELSE timers
             IN IF invite /\ canceled /\ ~provrecv
                THEN sip_ctrans_cancel(rest, t)
                ELSE net' = rest /\ timers' = t /\ UNCHANGED cc
          /\ UNCHANGED <<queued, canceled, outcome, server>>
    BY DEF Provisional
  <1>2. rest \subseteq net
    BY <1>1, AfterFacts DEF IInv, ClientTyped
  <1>3. net' \subseteq rest \cup {Cancel} /\ timers' \subseteq timers \cup {"tmr"} /\ cc' \in {cc, "TRYING"}
    BY <1>1 DEF sip_ctrans_cancel
  <1>4. Adds({Cancel})
    BY <1>2, <1>3, MessageFacts DEF Adds
  <1>5. Asked /\ Asked'
    BY <1>1 DEF Waiting, Asked
  <1>6. UNCHANGED kind
    BY <1>1 DEF server
  <1>7. ClientTyped' /\ ClientSound'
    BY <1>1, <1>3, <1>6 DEF IInv, ClientTyped, ClientSound, Waiting, kind
  <1> QED BY <1>1, <1>3, <1>4, <1>5, <1>7, PassiveStep

LEMMA FinalMove == ASSUME IInv, NEW c \in Finals, Final(c) PROVE ClientMove
  <1>1. PICK rest \in After(Response("REQUEST", c)) :
          /\ Waiting /\ Response("REQUEST", c) \in net
          /\ Ended(c)
          /\ net' \subseteq rest \cup {Ack}
          /\ Free \/ (ct' = "COMPLETED" /\ timers' = {"tmr"} /\ UNCHANGED queued)
          /\ ~Free => ~reliable
          /\ UNCHANGED server
    BY DEF Final
  <1>2. rest \subseteq net
    BY <1>1, AfterFacts DEF IInv, ClientTyped
  <1>3. Adds({Ack})
    BY <1>1, <1>2, MessageFacts DEF Adds
  <1>4. c \in answers /\ outcome = "none" /\ outcome' = c
    BY <1>1 DEF IInv, Truthful, ClientSound, Ended
  <1>5. Asked /\ Asked'
    BY <1>1, <1>4 DEF Waiting, Asked, Finals
  <1>6. UNCHANGED kind
    BY <1>1 DEF server
  <1>7. ~reliable => ~queued
    BY DEF IInv, ClientSound
  <1>8. queued' = FALSE /\ (ct' = "none" \/ ct' = "COMPLETED") /\ timers' \subseteq {"tmr"}
    BY <1>1, <1>7 DEF Free, IInv, ClientTyped
  <1>9. ClientTyped' /\ ClientSound'
    BY <1>1, <1>4, <1>6, <1>8 DEF IInv, ClientTyped, ClientSound, Waiting, kind, Ended, Finals
  <1> QED BY <1>1, <1>3, <1>4, <1>5, <1>8, <1>9, PassiveStep

LEMMA AckAgainMove == ASSUME IInv, AckAgain PROVE ClientMove
  <1>1. PICK rest \in After(Response("REQUEST", "3xx")) : net' = rest \cup {Ack}
    BY DEF AckAgain
  <1>2. UNCHANGED <<client, server>>
    BY DEF AckAgain
  <1>3. rest \subseteq net
    BY <1>1, AfterFacts DEF IInv, ClientTyped
  <1>4. Adds({Ack})
    BY <1>1, <1>3, MessageFacts DEF Adds
  <1>5. ClientTyped' /\ ClientSound' /\ Asked' = Asked
    BY <1>2 DEF IInv, ClientTyped, ClientSound, Waiting, Asked, client, kind
  <1> QED BY <1>2, <1>4, <1>5, PassiveStep DEF client

LEMMA CancelMove == ASSUME IInv, sip_request_cancel PROVE ClientMove
  <1>1. /\ net' \subseteq net \cup {Cancel} /\ timers' \subseteq timers \cup {"tmr"}
        /\ cc' \in {cc, "TRYING"}
    BY DEF sip_request_cancel, sip_ctrans_cancel
  <1>2. /\ Waiting /\ canceled' = TRUE
        /\ UNCHANGED <<ct, queued, provrecv, outcome, server>>
    BY DEF sip_request_cancel
  <1>3. Adds({Cancel})
    BY <1>1, MessageFacts DEF Adds
  <1>4. UNCHANGED kind
    BY <1>2 DEF server
  <1>5. ClientTyped' /\ ClientSound' /\ Asked' = Asked
    BY <1>1, <1>2, <1>4 DEF IInv, ClientTyped, ClientSound, Waiting, Asked, kind
  <1> QED BY <1>1, <1>2, <1>3, <1>5, PassiveStep

LEMMA CancelRetransmitMove == ASSUME IInv, CancelRetransmit PROVE ClientMove
  <1>1. Adds({Cancel})
    BY MessageFacts DEF Adds, CancelRetransmit
  <1>2. UNCHANGED <<client, server>>
    BY DEF CancelRetransmit
  <1>3. ClientTyped' /\ ClientSound' /\ Asked' = Asked
    BY <1>2 DEF IInv, ClientTyped, ClientSound, Waiting, Asked, client, kind
  <1> QED BY <1>1, <1>2, <1>3, PassiveStep DEF client

LEMMA CancelEndedMove ==
  ASSUME IInv, NEW rest \in SUBSET net, CancelEnded(rest)
  PROVE  ClientMove
  <1>1. Adds({})
    BY DEF Adds, CancelEnded
  <1>2. /\ cc' = "done"
        /\ UNCHANGED <<ct, timers, queued, provrecv, canceled, outcome, server>>
    BY DEF CancelEnded
  <1>3. UNCHANGED kind
    BY <1>2 DEF server
  <1>4. ClientTyped' /\ ClientSound' /\ Asked' = Asked
    BY <1>2, <1>3 DEF IInv, ClientTyped, ClientSound, Waiting, Asked, kind
  <1> QED BY <1>1, <1>2, <1>4, PassiveStep

LEMMA LoseMove == ASSUME IInv, NEW m, Lose(m) PROVE ClientMove
  <1>1. Adds({})
    BY DEF Adds, Lose
  <1>2. UNCHANGED <<client, server>>
    BY DEF Lose
  <1>3. ClientTyped' /\ ClientSound' /\ Asked' = Asked
    BY <1>2 DEF IInv, ClientTyped, ClientSound, Waiting, Asked, client, kind
  <1> QED BY <1>1, <1>2, <1>3, PassiveStep DEF client

LEMMA ClientStep ==
  ASSUME IInv, ClientNext \/ \E m \in Message : Lose(m)
  PROVE  ClientMove
  <1>1. CASE sip_request
    BY <1>1, RequestMove
  <1>2. CASE Connected
    BY <1>2, ConnectedMove
  <1>3. CASE transport_handler \/ sip_request_close
    BY <1>3, FailMove DEF transport_handler, sip_request_close
  <1>4. CASE retransmit_handler
    BY <1>4, RetransmitMove
  <1>5. CASE tmr_handler
    BY <1>5, TimeoutMove
  <1>6. CASE Provisional
    BY <1>6, ProvisionalMove
  <1>7. CASE \E c \in Finals : Final(c)
    BY <1>7, FinalMove
  <1>8. CASE AckAgain
    BY <1>8, AckAgainMove
  <1>9. CASE sip_request_cancel
    BY <1>9, CancelMove
  <1>10. CASE CancelRetransmit
    BY <1>10, CancelRetransmitMove
  <1>11. CASE CancelAnswered
    <2>1. PICK c \in Finals : \E rest \in After(Response("CANCEL", c)) : CancelEnded(rest)
      BY <1>11 DEF CancelAnswered
    <2>2. PICK rest \in After(Response("CANCEL", c)) : CancelEnded(rest)
      BY <2>1
    <2>3. rest \subseteq net
      BY <2>2, AfterFacts DEF IInv, ClientTyped
    <2> QED BY <2>2, <2>3, CancelEndedMove
  <1>12. CASE CancelFailed
    <2>1. net \subseteq net
      OBVIOUS
    <2> QED BY <1>12, <2>1, CancelEndedMove DEF CancelFailed
  <1>13. CASE \E m \in Message : Lose(m)
    BY <1>13, LoseMove
  <1> QED BY <1>1, <1>2, <1>3, <1>4, <1>5, <1>6, <1>7, <1>8, <1>9, <1>10, <1>11,
             <1>12, <1>13 DEF ClientNext

-----------------------------------------------------------------------------
(* The steps of the server.                                                 *)

(* A step by which the user gives no answer and the transaction stays.      *)
LEMMA RepeatStep ==
  ASSUME IInv, NEW S \in SUBSET Message, net' \subseteq net \cup S, Ask \notin S,
         \A c \in Finals : Response("REQUEST", c) \in S => c \in answers,
         UNCHANGED <<client, server>>
  PROVE  ServerMove
  <1>1. /\ st' = st /\ stimers' = stimers /\ reply' = reply /\ handed' = handed
        /\ answers' = answers /\ kept' = kept /\ reliable' = reliable
        /\ timers' = timers /\ queued' = queued
    BY DEF client, server, kind
  <1>2. ServerTyped' /\ net' \subseteq Message
    BY <1>1 DEF IInv, ServerTyped
  <1>3. Truthful'
    BY <1>1 DEF IInv, Truthful
  <1>4. Ask \in net' => Ask \in net
    OBVIOUS
  <1>5. Outlives => Outlives'
    BY <1>1, <1>4 DEF Outlives
  <1> QED BY <1>1, <1>2, <1>3, <1>4, <1>5 DEF ServerMove, IInv, Keeps

LEMMA ReplyAgain ==
  ASSUME IInv, reply \in Finals \cup {"1xx"}, UNCHANGED <<client, server>>,
         net' \subseteq net \cup {Response("REQUEST", reply)}
  PROVE  ServerMove
  <1>1. \A c \in Finals : Response("REQUEST", c) \in {Response("REQUEST", reply)} => c \in answers
    BY MessageFacts DEF IInv, Truthful
  <1>2. {Response("REQUEST", reply)} \subseteq Message /\ Ask \notin {Response("REQUEST", reply)}
    BY MessageFacts
  <1> QED BY <1>1, <1>2, RepeatStep

LEMMA AgainMove == ASSUME IInv, Again PROVE ServerMove
  <1>1. PICK rest \in After(Ask) :
          net' = IF st \in {"PROCEEDING", "COMPLETED"}
                 THEN rest \cup {Response("REQUEST", reply)} ELSE rest
    BY DEF Again
  <1>2. rest \subseteq net /\ UNCHANGED <<client, server>>
    BY <1>1, AfterFacts DEF Again, IInv, ClientTyped
  <1>3. CASE st \in {"PROCEEDING", "COMPLETED"}
    <2>1. reply \in Finals \cup {"1xx"}
      BY <1>3 DEF IInv, ServerTyped, Truthful
    <2> QED BY <1>1, <1>2, <1>3, <2>1, ReplyAgain
  <1>4. CASE st \notin {"PROCEEDING", "COMPLETED"}
    <2>1. PICK S \in SUBSET Message : S = {}
      OBVIOUS
    <2>2. net' \subseteq net \cup S /\ Ask \notin S
      BY <1>1, <1>2, <1>4, <2>1
    <2>3. \A c \in Finals : Response("REQUEST", c) \in S => c \in answers
      BY <2>1
    <2> QED BY <1>2, <2>2, <2>3, RepeatStep
  <1> QED BY <1>3, <1>4

LEMMA AcceptedAgainMove == ASSUME IInv, AcceptedAgain PROVE ServerMove
  <1>1. "2xx" \in answers
    BY DEF IInv, Truthful, AcceptedAgain
  <1>2. \A c \in Finals : Response("REQUEST", c) \in {Response("REQUEST", "2xx")} => c \in answers
    BY <1>1, MessageFacts DEF Finals
  <1>3. {Response("REQUEST", "2xx")} \subseteq Message /\ Ask \notin {Response("REQUEST", "2xx")}
    BY MessageFacts DEF Finals
  <1> QED BY <1>2, <1>3, RepeatStep DEF AcceptedAgain

LEMMA ServerRetransmitMove == ASSUME IInv, strans_retransmit_handler PROVE ServerMove
  <1>1. reply \in Finals \cup {"1xx"}
    BY DEF IInv, ServerTyped, Truthful, strans_retransmit_handler
  <1> QED BY <1>1, ReplyAgain DEF strans_retransmit_handler

(* The user replies, in the transaction, to a request that is being served. *)
LEMMA ReplyMove ==
  ASSUME IInv, NEW c \in Finals \cup {"1xx"}, NEW rest, sip_strans_reply(c, rest),
         rest \subseteq net \cup {Response("CANCEL", "2xx")},
         reliable => Ask \notin rest,
         UNCHANGED client, handed' \in 0..MaxHanded,
         Asked, ~kept, ~queued, st \in {"none", "PROCEEDING"}
  PROVE  ServerMove
  <1>1. /\ invite' = invite /\ reliable' = reliable /\ ct' = ct /\ timers' = timers
        /\ queued' = queued /\ outcome' = outcome
    BY DEF client, kind
  <1>2. Ask \in rest => Ask \in net
    BY MessageFacts DEF Finals
  <1>3. \A d \in Finals : Response("REQUEST", d) \in rest => d \in answers
    BY MessageFacts DEF IInv, Truthful, Finals
  <1>4. rest \subseteq Message
    BY MessageFacts DEF IInv, Finals
  <1>5. CASE FreeServer /\ net' = rest /\ UNCHANGED <<answers, kept>>
    <2>1. ServerTyped' /\ Truthful'
      BY <1>3, <1>5 DEF IInv, ServerTyped, Truthful, FreeServer, Finals
    <2> QED BY <1>1, <1>2, <1>4, <1>5, <2>1 DEF ServerMove, FreeServer
  <1>6. CASE c = "1xx" /\ ~(FreeServer /\ net' = rest /\ UNCHANGED <<answers, kept>>)
    <2>1. /\ net' = rest \cup {Response("REQUEST", c)}
          /\ answers' = answers \cup ({c} \cap Finals) /\ kept' = (c \in Finals)
          /\ st' = "PROCEEDING" /\ reply' = c /\ stimers' = stimers
      BY <1>6 DEF sip_strans_reply
    <2>2. c = "1xx" /\ c \notin Finals /\ {c} \cap Finals = {}
      BY <1>6 DEF Finals
    <2>3. answers' = answers /\ kept' \in BOOLEAN /\ ~kept'
      <3>1. answers' = answers
        BY <2>1, <2>2
      <3>2. kept' = FALSE
        <4>1. (c \in Finals) = FALSE
          BY <2>2, SMT
        <4> QED BY <2>1, <4>1, Zenon
      <3> QED BY <3>1, <3>2
    <2>4. ServerTyped'
      BY <2>1, <2>2, <2>3 DEF IInv, ServerTyped
    <2>5. \A d \in Finals : Response("REQUEST", d) \in net' => d \in answers'
      BY <1>3, <2>1, <2>2, <2>3, MessageFacts
    <2>6. Truthful'
      BY <2>1, <2>2, <2>5 DEF Truthful
    <2>7. net' \subseteq Message /\ (Ask \in net' => Ask \in rest)
      BY <1>4, <2>1, MessageFacts
    <2>8. kept' = kept
      BY <2>3 DEF IInv, ServerTyped
    <2> QED BY <1>1, <1>2, <2>1, <2>3, <2>4, <2>6, <2>7, <2>8 DEF ServerMove
  <1>7. CASE c \in Finals /\ ~(FreeServer /\ net' = rest /\ UNCHANGED <<answers, kept>>)
    <2>1. /\ net' = rest \cup {Response("REQUEST", c)}
          /\ answers' = answers \cup ({c} \cap Finals) /\ kept' = (c \in Finals)
      BY <1>7 DEF sip_strans_reply
    <2>2. answers' = answers \cup {c} /\ kept' \in BOOLEAN /\ kept'
      BY <1>7, <2>1
    <2>3. \A d \in Finals : Response("REQUEST", d) \in net' => d \in answers'
      BY <1>3, <2>1, <2>2, MessageFacts
    <2>4. net' \subseteq Message /\ (Ask \in net' => Ask \in rest)
      BY <1>4, <2>1, MessageFacts
    <2>5. answers' \subseteq Finals
      BY <1>7, <2>2 DEF IInv, ServerTyped
    <2>6. CASE FreeServer /\ reliable
      <3>1. st' = "none" /\ stimers' = {} /\ reply' = "none"
        BY <2>6 DEF FreeServer
      <3>2. ServerTyped'
        BY <2>2, <2>5, <3>1 DEF ServerTyped
      <3>3. Truthful'
        BY <2>3, <3>1 DEF Truthful, Finals
      <3>4. Outlives'
        BY <1>1, <2>4, <2>6 DEF Outlives, IInv, ClientSound
      <3> QED BY <1>1, <1>2, <1>7, <2>2, <2>4, <2>6, <3>1, <3>2, <3>3, <3>4 DEF ServerMove
    <2>7. CASE ~(FreeServer /\ reliable)
      <3>1. /\ reply' = c /\ st' \in {"ACCEPTED", "COMPLETED"}
            /\ st' = "ACCEPTED" => c = "2xx"
            /\ stimers' \subseteq {"tmr", "tmrg"}
        BY <1>7, <2>7 DEF sip_strans_reply, Finals
      <3>2. ServerTyped'
        BY <1>7, <2>2, <2>5, <3>1 DEF ServerTyped
      <3>3. Truthful'
        BY <1>7, <2>2, <2>3, <3>1 DEF Truthful, Finals
      <3> QED BY <1>1, <1>2, <1>7, <2>2, <2>4, <3>1, <3>2, <3>3 DEF ServerMove
    <2> QED BY <2>6, <2>7
  <1> QED BY <1>5, <1>6, <1>7

(* While a request may arrive, or is being served, no answer is kept.       *)
LEMMA Unanswered ==
  ASSUME IInv, st = "PROCEEDING" \/ (st = "none" /\ Ask \in net)
  PROVE  Asked /\ ~kept /\ ~queued
  BY DEF IInv, Keeps, Outlives

LEMMA HandUpMove == ASSUME IInv, HandUp PROVE ServerMove
  <1>1. PICK rest \in After(Ask) :
          \/ \E c \in Finals \cup {"1xx"} :
               /\ invite \/ c \in Finals
               /\ sip_strans_reply(c, rest)
          \/ \E c \in Finals :
               /\ invite => c = "3xx"
               /\ net' = rest \cup {Response("REQUEST", c)}
               /\ answers' = answers \cup {c}
               /\ UNCHANGED <<st, stimers, reply, kept>>
    BY DEF HandUp
  <1>2. rest \subseteq net /\ (reliable => Ask \notin rest)
    BY <1>1, AfterFacts DEF IInv, ClientTyped
  <1>3. UNCHANGED client /\ st = "none" /\ Ask \in net
    BY DEF HandUp
  <1>4. Asked /\ ~kept /\ ~queued
    BY <1>3, Unanswered
  <1>5. handed' \in 0..MaxHanded
    BY MaxHandedAssumption DEF HandUp, IInv, ServerTyped
  <1>6. CASE \E c \in Finals \cup {"1xx"} : sip_strans_reply(c, rest)
    <2>1. PICK c \in Finals \cup {"1xx"} : sip_strans_reply(c, rest)
      BY <1>6
    <2>2. rest \subseteq net \cup {Response("CANCEL", "2xx")}
      BY <1>2
    <2> QED BY <1>2, <1>3, <1>4, <1>5, <2>1, <2>2, ReplyMove
  <1>7. CASE \E c \in Finals : /\ net' = rest \cup {Response("REQUEST", c)}
                               /\ answers' = answers \cup {c}
                               /\ UNCHANGED <<st, stimers, reply, kept>>
    <2>1. PICK c \in Finals : /\ net' = rest \cup {Response("REQUEST", c)}
                              /\ answers' = answers \cup {c}
                              /\ UNCHANGED <<st, stimers, reply, kept>>
      BY <1>7
    <2>2. ServerTyped'
      BY <1>5, <2>1 DEF IInv, ServerTyped
    <2>3. \A d \in Finals : Response("REQUEST", d) \in net' => d \in answers'
      BY <1>2, <2>1, MessageFacts DEF IInv, Truthful
    <2>4. Truthful'
      BY <2>1, <2>3 DEF IInv, Truthful
    <2>5. net' \subseteq Message /\ (Ask \in net' => Ask \in rest)
      BY <1>2, <2>1, MessageFacts DEF IInv
    <2>6. st' = "none" /\ ~kept'
      BY <1>3, <1>4, <2>1
    <2> QED BY <1>2, <1>3, <1>4, <2>1, <2>2, <2>4, <2>5, <2>6 DEF ServerMove
  <1> QED BY <1>1, <1>6, <1>7

LEMMA UserReplyMove == ASSUME IInv, Reply PROVE ServerMove
  <1>1. PICK c \in Finals \cup {"1xx"} : sip_strans_reply(c, net)
    BY DEF Reply
  <1>2. UNCHANGED client /\ st = "PROCEEDING" /\ handed' = handed
    BY DEF Reply
  <1>3. Asked /\ ~kept /\ ~queued
    BY <1>2, Unanswered
  <1>4. net \subseteq net \cup {Response("CANCEL", "2xx")} /\ (reliable => Ask \notin net)
    BY <1>2 DEF IInv, Keeps
  <1>5. handed' \in 0..MaxHanded
    BY <1>2 DEF IInv, ServerTyped
  <1> QED BY <1>1, <1>2, <1>3, <1>4, <1>5, ReplyMove

LEMMA AckMove == ASSUME IInv, ack_handler PROVE ServerMove
  <1>1. st = "COMPLETED" /\ net' \in After(Ack) /\ UNCHANGED <<client, handed, answers, kept>>
    BY DEF ack_handler
  <1>2. net' \subseteq net
    BY <1>1, AfterFacts DEF IInv, ClientTyped
  <1>3. /\ reliable' = reliable /\ timers' = timers /\ queued' = queued
        /\ ~queued /\ Asked /\ (reliable => Outlives)
    BY <1>1 DEF client, kind, IInv, Keeps, ClientSound, Outlives
  <1>4. CASE reliable /\ st' = "none" /\ stimers' = {} /\ reply' = "none"
    <2>1. ServerTyped' /\ Truthful'
      BY <1>1, <1>2, <1>4 DEF IInv, ServerTyped, Truthful, Finals
    <2>2. Outlives'
      BY <1>2, <1>3, <1>4 DEF Outlives
    <2> QED BY <1>1, <1>2, <1>3, <1>4, <2>1, <2>2 DEF ServerMove, IInv
  <1>5. CASE ~reliable /\ st' = "CONFIRMED" /\ stimers' = {"tmr"} /\ UNCHANGED reply
    <2>1. ServerTyped' /\ Truthful'
      BY <1>1, <1>2, <1>5 DEF IInv, ServerTyped, Truthful, Finals
    <2> QED BY <1>1, <1>2, <1>3, <1>5, <2>1 DEF ServerMove, IInv
  <1> QED BY <1>4, <1>5 DEF ack_handler, FreeServer, IInv, ClientTyped

LEMMA CancelHandlerMove == ASSUME IInv, cancel_handler PROVE ServerMove
  <1>1. PICK rest \in After(Cancel) :
       IF st = "PROCEEDING"
       THEN sip_strans_reply("3xx", rest \cup {Response("CANCEL", "2xx")})
       ELSE /\ net' = rest \cup {Response("CANCEL", IF st = "none" THEN "3xx" ELSE "2xx")}
            /\ UNCHANGED <<st, stimers, reply, answers, kept>>
    BY DEF cancel_handler
  <1>2. rest \subseteq net /\ UNCHANGED client /\ handed' = handed
    BY <1>1, AfterFacts DEF cancel_handler, IInv, ClientTyped
  <1>3. CASE st = "PROCEEDING"
    <2>1. PICK r : r = rest \cup {Response("CANCEL", "2xx")}
      OBVIOUS
    <2>2. PICK c \in Finals \cup {"1xx"} : c = "3xx"
      BY DEF Finals
    <2>3. sip_strans_reply(c, r)
      BY <1>1, <1>3, <2>1, <2>2
    <2>4. r \subseteq net \cup {Response("CANCEL", "2xx")} /\ (reliable => Ask \notin r)
      BY <1>2, <1>3, <2>1, MessageFacts DEF IInv, Keeps, Finals
    <2>5. Asked /\ ~kept /\ ~queued
      BY <1>3, Unanswered
    <2>6. handed' \in 0..MaxHanded
      BY <1>2 DEF IInv, ServerTyped
    <2> QED BY <1>2, <1>3, <2>3, <2>4, <2>5, <2>6, ReplyMove
  <1>4. CASE st # "PROCEEDING"
    <2>1. PICK c \in Finals : c = (IF st = "none" THEN "3xx" ELSE "2xx")
      BY DEF Finals
    <2>2. PICK S \in SUBSET Message : S = {Response("CANCEL", c)}
      <3>1. {Response("CANCEL", c)} \in SUBSET Message
        BY <2>1, MessageFacts
      <3> QED BY <3>1, Zenon
    <2>3. net' \subseteq net \cup S /\ UNCHANGED <<client, server>>
      BY <1>1, <1>2, <1>4, <2>1, <2>2 DEF server, client
    <2>4. Ask \notin S
      BY <2>1, <2>2, MessageFacts
    <2>5. \A d \in Finals : Response("REQUEST", d) \notin S
      BY <2>1, <2>2, MessageFacts
    <2> QED BY <2>3, <2>4, <2>5, RepeatStep
  <1> QED BY <1>3, <1>4

LEMMA StransTimerMove == ASSUME IInv, strans_tmr_handler PROVE ServerMove
  <1>1. /\ st # "none" /\ Outlived /\ UNCHANGED <<net, client, handed, answers, kept>>
        /\ st' = "none" /\ stimers' = {} /\ reply' = "none"
    BY DEF strans_tmr_handler, FreeServer, IInv, Truthful
  <1>2. Asked /\ ~queued
    BY <1>1 DEF IInv, Keeps
  <1>3. ServerTyped' /\ Truthful'
    BY <1>1 DEF IInv, ServerTyped, Truthful, Finals
  <1>4. Outlives'
    BY <1>1, <1>2 DEF Outlives, Outlived, client
  <1> QED BY <1>1, <1>2, <1>3, <1>4 DEF ServerMove, IInv

LEMMA ServerStep == ASSUME IInv, ServerNext PROVE ServerMove
  BY HandUpMove, AgainMove, UserReplyMove, AcceptedAgainMove, AckMove,
     CancelHandlerMove, ServerRetransmitMove, StransTimerMove DEF ServerNext

-----------------------------------------------------------------------------
(* The theorems.                                                            *)

LEMMA Initially == ASSUME Init PROVE IInv /\ Abstract!SInit
  <1>1. ~Waiting /\ ~Asked
    BY DEF Init, Waiting, Asked
  <1>2. ClientTyped
    BY <1>1 DEF Init, ClientTyped
  <1>3. ServerTyped
    <2>1. 0 \in 0..MaxHanded
      BY MaxHandedAssumption
    <2> QED BY <2>1 DEF Init, ServerTyped, Finals
  <1>4. ClientSound /\ Truthful /\ Keeps
    BY <1>1 DEF Init, ClientSound, Truthful, Keeps, Finals
  <1>5. Abstract!SInit
    BY <1>1 DEF Init, Asked, Abstract!SInit
  <1> QED BY <1>2, <1>3, <1>4, <1>5 DEF Init, IInv

LEMMA Stutters ==
  ASSUME IInv, UNCHANGED vars
  PROVE  IInv' /\ UNCHANGED Abstract!svars
  <1>1. UNCHANGED <<net, client, server>>
    BY DEF vars
  <1>2. IInv'
    BY <1>1 DEF IInv, ClientTyped, ServerTyped, ClientSound, Truthful, Keeps, Waiting,
                Asked, Outlives, client, server, kind
  <1>3. UNCHANGED Abstract!svars
    BY <1>1 DEF client, server, Abstract!svars
  <1> QED BY <1>2, <1>3

LEMMA Steps ==
  ASSUME IInv, [Next]_vars
  PROVE  IInv' /\ [Abstract!SNext]_(Abstract!svars)
  <1>1. CASE ClientNext \/ \E m \in Message : Lose(m)
    BY <1>1, ClientStep, ClientMoveKeeps, ClientMoveRefines
  <1>2. CASE ServerNext
    BY <1>2, ServerStep, ServerMoveKeeps, ServerMoveRefines
  <1>3. CASE UNCHANGED vars
    BY <1>3, Stutters
  <1> QED BY <1>1, <1>2, <1>3 DEF Next

(* The inductive invariant: what the server says was answered, an answer is *)
(* kept for as long as the request may arrive once more, and the client     *)
(* waits exactly until it has its outcome.                                  *)
THEOREM Invariance == Spec => []IInv
  <1>1. Init => IInv
    BY Initially
  <1>2. IInv /\ [Next]_vars => IInv'
    BY Steps
  <1> QED BY <1>1, <1>2, PTL DEF Spec

(* The state of ctrans.c, request.c and strans.c stays well formed; the     *)
(* retransmission timer runs only while a response is awaited.              *)
THEOREM TypeCorrect == Spec => []TypeOK
  <1>1. IInv => TypeOK
    BY DEF IInv, ClientTyped, ServerTyped, TypeOK
  <1> QED BY <1>1, Invariance, PTL

(* The two transactions implement the transaction service, over a network   *)
(* that loses, repeats and reorders, for any number of times the request is *)
(* handed up: they hand it up again only if its answer was not kept, the    *)
(* last answer stays the last, and the outcome is one that was given.       *)
THEOREM Refinement == Spec => ImplementsService
  <1>1. Init => Abstract!SInit
    BY Initially
  <1>2. IInv /\ [Next]_vars => [Abstract!SNext]_(Abstract!svars)
    BY Steps
  <1> QED BY <1>1, <1>2, Invariance, PTL DEF Spec, ImplementsService, Abstract!Service

(* Once the client has its outcome it waits no longer: nothing it does then *)
(* puts the request on the wire, and the server never does.                 *)
THEOREM SentNoMore == Spec => NothingSentAfterOutcome
  <1> DEFINE Silent == outcome # "none" /\ Ask \notin net => Ask \notin net'
  <1>1. IInv /\ [Next]_vars => [Silent]_vars
    <2> SUFFICES ASSUME IInv, [Next]_vars, outcome # "none", Ask \notin net
                 PROVE  Ask \notin net'
      OBVIOUS
    <2>1. Asked /\ Outlives
      BY DEF IInv, ClientTyped, ClientSound, Asked, Outlives, Waiting
    <2>2. CASE ClientNext \/ \E m \in Message : Lose(m)
      BY <2>1, <2>2, ClientStep DEF ClientMove, Outlives
    <2>3. CASE ServerNext
      BY <2>3, ServerStep DEF ServerMove
    <2>4. CASE UNCHANGED vars
      BY <2>4 DEF vars
    <2> QED BY <2>2, <2>3, <2>4 DEF Next
  <1> QED BY <1>1, Invariance, PTL DEF Spec, NothingSentAfterOutcome

-----------------------------------------------------------------------------
(* Cause before effect: what either side knows of the other.                *)

(* An ACK, wherever it is, is of a client that has its rejection.           *)
Heard ==
  /\ Ack \in net \/ (invite /\ ct = "COMPLETED") => outcome = "3xx"
  /\ invite /\ st = "COMPLETED" => reply = "3xx"
  /\ st = "CONFIRMED" => reply = "3xx" /\ outcome = "3xx"

(* A provisional response, and all that one sets off, is of a server whose  *)
(* user was given the request.                                              *)
Given ==
  /\ Response("REQUEST", "1xx") \in net => handed > 0
  /\ st # "none" \/ provrecv \/ cc # "none" => handed > 0

LEMMA ConfirmedInvariant == ASSUME Heard, Given PROVE CauseBeforeEffect
  BY DEF Heard, Given, CauseBeforeEffect, ConfirmedIsKnown, CancelFollowsRequest

LEMMA OtherMessages ==
  /\ Ack # Ask /\ Ack # Cancel
  /\ \A m \in {"REQUEST", "CANCEL"}, c \in {"1xx", "2xx", "3xx"} : Ack # Response(m, c)
  /\ Response("REQUEST", "1xx") \notin {Ask, Ack, Cancel}
  /\ \A m \in {"REQUEST", "CANCEL"}, c \in {"1xx", "2xx", "3xx"} :
       Response(m, c) = Response("REQUEST", "1xx") => c = "1xx"
  BY DEF Ask, Ack, Cancel, Response

(* A step of the client that sends no ACK and takes in no provisional       *)
(* response.                                                                *)
LEMMA QuietClient ==
  ASSUME IInv, Heard, Given, UNCHANGED server,
         Ack \in net' => Ack \in net,
         Response("REQUEST", "1xx") \in net' => Response("REQUEST", "1xx") \in net,
         ct' = "COMPLETED" => ct = "COMPLETED",
         outcome' = outcome \/ outcome = "none",
         provrecv' => provrecv, cc' # "none" => cc # "none" \/ provrecv
  PROVE  Heard' /\ Given'
  BY DEF Heard, Given, server, kind

LEMMA FinalHeard ==
  ASSUME IInv, Heard, Given, NEW c \in Finals, Final(c)
  PROVE  Heard' /\ Given'
  <1>1. PICK rest \in After(Response("REQUEST", c)) :
          net' = IF invite /\ c = "3xx" THEN rest \cup {Ack} ELSE rest
    BY DEF Final
  <1>2. rest \subseteq net
    BY <1>1, AfterFacts DEF IInv, ClientTyped
  <1>3. /\ Waiting /\ outcome = "none" /\ outcome' = c /\ UNCHANGED server
        /\ provrecv' = provrecv /\ cc' = cc
        /\ invite /\ ct' = "COMPLETED" => c = "3xx"
    BY DEF Final, Ended, Free, IInv, ClientSound, Finals
  <1>4. /\ invite' = invite /\ st' = st /\ reply' = reply /\ handed' = handed
    BY <1>3 DEF server, kind
  <1>5. Ack \in net' => c = "3xx"
    BY <1>1, <1>2, <1>3 DEF Heard
  <1>6. Response("REQUEST", "1xx") \in net' => Response("REQUEST", "1xx") \in net
    BY <1>1, <1>2, OtherMessages
  <1>7. Heard'
    BY <1>3, <1>4, <1>5 DEF Heard
  <1>8. Given'
    BY <1>3, <1>4, <1>6 DEF Given
  <1> QED BY <1>7, <1>8

LEMMA CancelGiven ==
  ASSUME IInv, Heard, Given, NEW rest, NEW t, sip_ctrans_cancel(rest, t),
         rest \subseteq net, UNCHANGED server, handed > 0,
         ct' # "COMPLETED", outcome' = outcome
  PROVE  Heard' /\ Given'
  <1>1. net' \subseteq net \cup {Cancel}
    BY DEF sip_ctrans_cancel
  <1>2. /\ invite' = invite /\ st' = st /\ reply' = reply /\ handed' = handed
    BY DEF server, kind
  <1>3. Heard'
    BY <1>1, <1>2, OtherMessages DEF Heard
  <1>4. Given'
    BY <1>2 DEF Given
  <1> QED BY <1>3, <1>4

LEMMA ProvisionalGiven == ASSUME IInv, Heard, Given, Provisional PROVE Heard' /\ Given'
  <1>1. PICK rest \in After(Response("REQUEST", "1xx")) :
          LET t == IF ct = "CALLING" THEN {} ELSE timers
          IN IF invite /\ canceled /\ ~provrecv
             THEN sip_ctrans_cancel(rest, t)
             ELSE net' = rest /\ timers' = t /\ UNCHANGED cc
    BY DEF Provisional
  <1>2. rest \subseteq net /\ handed > 0
    BY <1>1, AfterFacts DEF Provisional, Given, IInv, ClientTyped
  <1>3. ct' = "PROCEEDING" /\ outcome' = outcome /\ UNCHANGED server
    BY DEF Provisional
  <1>4. CASE invite /\ canceled /\ ~provrecv
    <2>1. PICK t : t = IF ct = "CALLING" THEN {} ELSE timers
      OBVIOUS
    <2>2. sip_ctrans_cancel(rest, t)
      BY <1>1, <1>4, <2>1
    <2> QED BY <1>2, <1>3, <2>2, CancelGiven
  <1>5. CASE ~(invite /\ canceled /\ ~provrecv)
    <2>1. net' = rest
      BY <1>1, <1>5
    <2>2. /\ invite' = invite /\ st' = st /\ reply' = reply /\ handed' = handed
      BY <1>3 DEF server, kind
    <2> QED BY <1>2, <1>3, <2>1, <2>2 DEF Heard, Given
  <1> QED BY <1>4, <1>5

LEMMA ClientKnows ==
  ASSUME IInv, Heard, Given, ClientNext \/ \E m \in Message : Lose(m)
  PROVE  Heard' /\ Given'
  <1>1. CASE sip_request
    BY <1>1, QuietClient, OtherMessages DEF sip_request
  <1>2. CASE Connected
    BY <1>2, QuietClient, OtherMessages DEF Connected
  <1>3. ASSUME Fail PROVE Heard' /\ Given'
    BY <1>3, QuietClient DEF Fail, Free, Ended, IInv, ClientSound
  <1>4. CASE transport_handler \/ sip_request_close
    BY <1>3, <1>4 DEF transport_handler, sip_request_close
  <1>5. CASE retransmit_handler
    <2>1. CASE net' = net \cup {Ask} /\ UNCHANGED <<client, server>>
      BY <2>1, QuietClient, OtherMessages DEF client
    <2> QED BY <1>3, <1>5, <2>1 DEF retransmit_handler
  <1>6. CASE tmr_handler
    <2>1. CASE ct = "COMPLETED" /\ Free /\ UNCHANGED <<net, provrecv, canceled, outcome, cc, server>>
      BY <2>1, QuietClient DEF Free
    <2> QED BY <1>3, <1>6, <2>1 DEF tmr_handler
  <1>7. CASE Provisional
    BY <1>7, ProvisionalGiven
  <1>8. CASE \E c \in Finals : Final(c)
    BY <1>8, FinalHeard
  <1>9. CASE AckAgain
    <2>1. PICK rest \in After(Response("REQUEST", "3xx")) : net' = rest \cup {Ack}
      BY <1>9 DEF AckAgain
    <2>2. rest \subseteq net
      BY <2>1, AfterFacts DEF IInv, ClientTyped
    <2>3. /\ outcome = "3xx" /\ outcome' = outcome /\ ct' = ct /\ invite' = invite
          /\ provrecv' = provrecv /\ cc' = cc
          /\ st' = st /\ reply' = reply /\ handed' = handed
      BY <1>9 DEF AckAgain, Heard, client, server, kind
    <2>4. Heard'
      BY <2>3 DEF Heard
    <2>5. Given'
      BY <2>1, <2>2, <2>3, OtherMessages DEF Given
    <2> QED BY <2>4, <2>5
  <1>10. CASE sip_request_cancel
    <2>1. CASE invite /\ provrecv
      <3>1. sip_ctrans_cancel(net, timers)
        BY <1>10, <2>1 DEF sip_request_cancel
      <3>2. handed > 0
        BY <2>1 DEF Given
      <3>3. ct' # "COMPLETED" /\ outcome' = outcome /\ UNCHANGED server /\ net \subseteq net
        BY <1>10 DEF sip_request_cancel, Waiting
      <3> QED BY <3>1, <3>2, <3>3, CancelGiven
    <2>2. CASE ~(invite /\ provrecv)
      BY <1>10, <2>2, QuietClient DEF sip_request_cancel
    <2> QED BY <2>1, <2>2
  <1>11. CASE CancelRetransmit
    BY <1>11, QuietClient, OtherMessages DEF CancelRetransmit, client
  <1>12. ASSUME NEW rest, CancelEnded(rest), rest \subseteq net PROVE Heard' /\ Given'
    BY <1>12, QuietClient DEF CancelEnded
  <1>13. CASE CancelAnswered
    <2>1. PICK c \in Finals : \E rest \in After(Response("CANCEL", c)) : CancelEnded(rest)
      BY <1>13 DEF CancelAnswered
    <2>2. PICK rest \in After(Response("CANCEL", c)) : CancelEnded(rest)
      BY <2>1
    <2>3. rest \subseteq net
      BY <2>2, AfterFacts DEF IInv, ClientTyped
    <2> QED BY <1>12, <2>2, <2>3
  <1>14. CASE CancelFailed
    BY <1>12, <1>14 DEF CancelFailed
  <1>15. CASE \E m \in Message : Lose(m)
    BY <1>15, QuietClient DEF Lose, client
  <1> QED BY <1>1, <1>2, <1>4, <1>5, <1>6, <1>7, <1>8, <1>9, <1>10, <1>11, <1>13, <1>14, <1>15
    DEF ClientNext

-----------------------------------------------------------------------------

(* A step of the server after its user was given the request.               *)
LEMMA ServedStep ==
  ASSUME Heard, Given, UNCHANGED client, Ack \in net' => Ack \in net, handed' > 0,
         invite /\ st' = "COMPLETED" => reply' = "3xx",
         st' = "CONFIRMED" => reply' = "3xx" /\ outcome = "3xx"
  PROVE  Heard' /\ Given'
  BY DEF Heard, Given, client, kind

LEMMA ReplyKnows ==
  ASSUME Heard, Given, NEW c \in Finals \cup {"1xx"}, NEW rest, sip_strans_reply(c, rest),
         Ack \in rest => Ack \in net, UNCHANGED client, handed' > 0
  PROVE  Heard' /\ Given'
  <1>1. Ack \in net' => Ack \in net
    BY OtherMessages DEF sip_strans_reply, Finals
  <1>2. st' # "CONFIRMED" /\ (invite /\ st' = "COMPLETED" => reply' = "3xx")
    BY DEF sip_strans_reply, FreeServer, Finals
  <1> QED BY <1>1, <1>2, ServedStep

LEMMA ServerKnows == ASSUME IInv, Heard, Given, ServerNext PROVE Heard' /\ Given'
  <1>1. CASE HandUp
    <2>1. /\ handed' > 0 /\ st = "none" /\ UNCHANGED client
      BY <1>1 DEF HandUp, IInv, ServerTyped
    <2>2. PICK rest \in After(Ask) :
          \/ \E c \in Finals \cup {"1xx"} : sip_strans_reply(c, rest)
          \/ \E c \in Finals : /\ net' = rest \cup {Response("REQUEST", c)}
                               /\ UNCHANGED <<st, reply>>
      BY <1>1 DEF HandUp
    <2>3. rest \subseteq net
      BY <2>2, AfterFacts DEF IInv, ClientTyped
    <2>4. CASE \E c \in Finals \cup {"1xx"} : sip_strans_reply(c, rest)
      BY <2>1, <2>3, <2>4, ReplyKnows
    <2>5. CASE \E c \in Finals : /\ net' = rest \cup {Response("REQUEST", c)}
                                 /\ UNCHANGED <<st, reply>>
      <3>1. Ack \in net' => Ack \in net
        BY <2>3, <2>5, OtherMessages DEF Finals
      <3> QED BY <2>1, <2>5, <3>1, ServedStep
    <2> QED BY <2>2, <2>4, <2>5
  <1>2. ASSUME st # "none", UNCHANGED <<client, server>>, Ack \in net' => Ack \in net
        PROVE  Heard' /\ Given'
    <2>1. handed' > 0 /\ st' = st /\ reply' = reply /\ UNCHANGED client
      BY <1>2 DEF Given, server
    <2> QED BY <1>2, <2>1, ServedStep DEF Heard
  <1>3. CASE Again
    <2>1. PICK rest \in After(Ask) :
            net' \subseteq rest \cup {Response("REQUEST", reply)}
      BY <1>3 DEF Again
    <2>2. rest \subseteq net
      BY <2>1, AfterFacts DEF IInv, ClientTyped
    <2>3. Ack # Response("REQUEST", reply)
      BY DEF Ack, Response
    <2> QED BY <1>2, <1>3, <2>1, <2>2, <2>3 DEF Again
  <1>4. CASE Reply
    <2>1. PICK c \in Finals \cup {"1xx"} : sip_strans_reply(c, net)
      BY <1>4 DEF Reply
    <2>2. handed' > 0 /\ UNCHANGED client
      BY <1>4 DEF Reply, Given
    <2> QED BY <2>1, <2>2, ReplyKnows
  <1>5. CASE AcceptedAgain
    BY <1>2, <1>5, OtherMessages DEF AcceptedAgain
  <1>6. CASE strans_retransmit_handler
    <2>1. st # "none" /\ Ack # Response("REQUEST", reply)
      BY <1>6 DEF IInv, Truthful, strans_retransmit_handler, Ack, Response
    <2> QED BY <1>2, <1>6, <2>1 DEF strans_retransmit_handler
  <1>7. CASE ack_handler
    <2>1. invite /\ st = "COMPLETED" /\ Ack \in net /\ net' \subseteq net
      BY <1>7, AfterFacts DEF ack_handler, IInv, ClientTyped
    <2>2. reply = "3xx" /\ outcome = "3xx" /\ handed > 0
      BY <2>1 DEF Heard, Given
    <2>3. /\ handed' = handed /\ UNCHANGED client
          /\ st' = "none" \/ (st' = "CONFIRMED" /\ reply' = reply)
      BY <1>7 DEF ack_handler, FreeServer
    <2> QED BY <2>1, <2>2, <2>3, ServedStep
  <1>8. CASE cancel_handler
    <2>1. PICK rest \in After(Cancel) :
       IF st = "PROCEEDING"
       THEN sip_strans_reply("3xx", rest \cup {Response("CANCEL", "2xx")})
       ELSE /\ net' = rest \cup {Response("CANCEL", IF st = "none" THEN "3xx" ELSE "2xx")}
            /\ UNCHANGED <<st, stimers, reply, answers, kept>>
      BY <1>8 DEF cancel_handler
    <2>2. rest \subseteq net /\ UNCHANGED client /\ handed' = handed
      BY <1>8, <2>1, AfterFacts DEF cancel_handler, IInv, ClientTyped
    <2>3. CASE st = "PROCEEDING"
      <3>1. PICK r : r = rest \cup {Response("CANCEL", "2xx")}
        OBVIOUS
      <3>2. PICK c \in Finals \cup {"1xx"} : c = "3xx"
        BY DEF Finals
      <3>3. sip_strans_reply(c, r)
        BY <2>1, <2>3, <3>1, <3>2
      <3>4. (Ack \in r => Ack \in net) /\ handed' > 0
        BY <2>2, <2>3, <3>1, OtherMessages DEF Given
      <3> QED BY <2>2, <3>3, <3>4, ReplyKnows
    <2>4. CASE st # "PROCEEDING"
      <3>1. PICK c \in {"2xx", "3xx"} : c = IF st = "none" THEN "3xx" ELSE "2xx"
        OBVIOUS
      <3>2. net' = rest \cup {Response("CANCEL", c)} /\ st' = st /\ reply' = reply
        BY <2>1, <2>4, <3>1
      <3>3. Ack \in net' => Ack \in net
        BY <2>2, <3>1, <3>2, OtherMessages
      <3>4. Response("REQUEST", "1xx") \in net' => Response("REQUEST", "1xx") \in net
        BY <2>2, <3>1, <3>2, OtherMessages
      <3> QED BY <2>2, <3>2, <3>3, <3>4 DEF Heard, Given, client, kind
    <2> QED BY <2>3, <2>4
  <1>9. CASE strans_tmr_handler
    BY <1>9 DEF strans_tmr_handler, FreeServer, Heard, Given, client, kind
  <1> QED BY <1>1, <1>3, <1>4, <1>5, <1>6, <1>7, <1>8, <1>9 DEF ServerNext

(* For any number of times the request is handed up, and whatever the       *)
(* network does to the order of messages: an ACK stops only a rejection the *)
(* client has learned of, and a CANCEL follows the request it cancels.      *)
THEOREM CausesFirst == Spec => []CauseBeforeEffect
  <1>1. Init => Heard /\ Given
    BY DEF Init, Heard, Given
  <1>2. IInv /\ Heard /\ Given /\ [Next]_vars => Heard' /\ Given'
    <2> SUFFICES ASSUME IInv, Heard, Given, [Next]_vars PROVE Heard' /\ Given'
      OBVIOUS
    <2>1. CASE UNCHANGED vars
      BY <2>1 DEF vars, client, server, kind, Heard, Given
    <2> QED BY <2>1, ClientKnows, ServerKnows DEF Next
  <1>3. Heard /\ Given => CauseBeforeEffect
    BY ConfirmedInvariant
  <1> QED BY <1>1, <1>2, <1>3, Invariance, PTL DEF Spec

-----------------------------------------------------------------------------
(* Requests: SipRequest.  First, lists of requests.                         *)

In(s, x) == \E i \in DOMAIN s : s[i] = x
Nth(s, n) == IF n <= Len(s) THEN s[n] ELSE None

(* What is left of a list after list_unlink.                                *)
LEMMA RemovedAt ==
  ASSUME NEW S, NEW s \in Seq(S), NEW i \in 1..Len(s)
  PROVE  /\ Req!RemoveAt(s, i) \in Seq(S)
         /\ Len(Req!RemoveAt(s, i)) = Len(s) - 1
         /\ \A j \in 1..(Len(s) - 1) :
              Req!RemoveAt(s, i)[j] = IF j < i THEN s[j] ELSE s[j + 1]
<1> DEFINE a == SubSeq(s, 1, i - 1)
           b == SubSeq(s, i + 1, Len(s))
<1>0. Len(s) \in Nat /\ i \in Nat OBVIOUS
<1>1. a \in Seq(S) /\ Len(a) = i - 1
  OBVIOUS
<1>2. b \in Seq(S) /\ Len(b) = Len(s) - i
  OBVIOUS
<1>3. \A j \in 1..(i - 1) : a[j] = s[j]
  OBVIOUS
<1>4. \A j \in 1..(Len(s) - i) : b[j] = s[i + j]
  OBVIOUS
<1>5. Req!RemoveAt(s, i) = a \o b BY DEF Req!RemoveAt
<1> HIDE DEF a, b
<1>6. a \o b \in Seq(S)
  BY <1>1, <1>2
<1>7. Len(a \o b) = Len(s) - 1
  <2>1. Len(a \o b) = Len(a) + Len(b)
    BY <1>1, <1>2
  <2> QED BY <1>0, <1>1, <1>2, <2>1
<1>8. ASSUME NEW j \in 1..(Len(s) - 1)
      PROVE (a \o b)[j] = IF j < i THEN s[j] ELSE s[j + 1]
  <2>1. CASE j < i
    <3>1. j \in 1..(i - 1) BY <1>0, <2>1
    <3>2. (a \o b)[j] = a[j] BY <1>1, <1>2, <3>1
    <3> QED BY <1>3, <2>1, <3>1, <3>2
  <2>2. CASE j >= i
    <3>1. (a \o b)[j] = b[j - (i - 1)] BY <2>2, <1>1, <1>2
    <3>2. j - (i - 1) \in 1..(Len(s) - i) BY <2>2
    <3>3. b[j - (i - 1)] = s[j + 1] BY <3>2, <1>0, <1>4
    <3>4. ~(j < i) BY <1>0, <2>2
    <3> QED BY <3>1, <3>3, <3>4
  <2>3. j < i \/ j >= i BY <1>0
  <2> QED BY <2>1, <2>2, <2>3, Zenon
<1> QED BY <1>5, <1>6, <1>7, <1>8

(* What list_unlink leaves, and in which order.                             *)
LEMMA UnlinkedSound ==
  ASSUME NEW S, NEW s \in Seq(S), Req!IsInjective(s), NEW x
  PROVE  /\ Req!Unlinked(s, x) \in Seq(S)
         /\ Req!IsInjective(Req!Unlinked(s, x))
         /\ \A y : In(Req!Unlinked(s, x), y) <=> In(s, y) /\ y # x
         /\ s # <<>> /\ s[1] = x => \A n \in Nat \ {0} : Nth(Req!Unlinked(s, x), n) = Nth(s, n + 1)
<1> DEFINE w == Req!Unlinked(s, x)
<1>1. CASE ~In(s, x)
  <2>1. w = s BY <1>1 DEF Req!Unlinked, In
  <2>2. s # <<>> => 1 \in DOMAIN s OBVIOUS
  <2> QED BY <1>1, <2>1, <2>2 DEF In
<1>2. CASE In(s, x)
  <2>1. PICK p \in DOMAIN s : s[p] = x /\ w = Req!RemoveAt(s, p)
    BY <1>2 DEF Req!Unlinked, In
  <2>2. p \in 1..Len(s) /\ DOMAIN s = 1..Len(s) /\ Len(s) \in Nat OBVIOUS
  <2>3. /\ w \in Seq(S) /\ Len(w) = Len(s) - 1
        /\ \A j \in 1..(Len(s) - 1) : w[j] = IF j < p THEN s[j] ELSE s[j + 1]
    BY <2>1, <2>2, RemovedAt
  <2> HIDE DEF w
  <2>4. DOMAIN w = 1..(Len(s) - 1) BY <2>3
  <2>5. \A i, j \in DOMAIN s : s[i] = s[j] => i = j BY DEF Req!IsInjective
  <2> DEFINE from(j) == IF j < p THEN j ELSE j + 1
  <2>6. \A j \in DOMAIN w : from(j) \in DOMAIN s /\ from(j) # p /\ w[j] = s[from(j)]
    BY <2>2, <2>3, <2>4
  <2>7. \A i, j \in DOMAIN w : from(i) = from(j) => i = j
    BY <2>2, <2>4
  <2>8. \A i \in DOMAIN s : i # p => \E j \in DOMAIN w : from(j) = i
    <3> SUFFICES ASSUME NEW i \in DOMAIN s, i # p PROVE \E j \in DOMAIN w : from(j) = i
      OBVIOUS
    <3>1. CASE i < p
      <4>1. i \in DOMAIN w /\ from(i) = i BY <2>2, <2>4, <3>1
      <4> QED BY <4>1
    <3>2. CASE i > p
      <4>1. i - 1 \in DOMAIN w /\ from(i - 1) = i BY <2>2, <2>4, <3>2
      <4> QED BY <4>1
    <3> QED BY <2>2, <3>1, <3>2
  <2> HIDE DEF from
  <2>9. Req!IsInjective(w) BY <2>5, <2>6, <2>7 DEF Req!IsInjective
  <2>10. \A y : In(w, y) <=> In(s, y) /\ y # x
    BY <2>1, <2>2, <2>5, <2>6, <2>8 DEF In
  <2>11. ASSUME s[1] = x, NEW n \in Nat \ {0} PROVE Nth(w, n) = Nth(s, n + 1)
    <3>1. p = 1
      <4>1. 1 \in DOMAIN s BY <2>2
      <4> QED BY <2>1, <2>5, <2>11, <4>1
    <3>2. n <= Len(w) <=> n + 1 <= Len(s) BY <2>2, <2>3
    <3>3. n <= Len(w) => w[n] = s[n + 1]
      <4> SUFFICES ASSUME n <= Len(w) PROVE w[n] = s[n + 1] OBVIOUS
      <4>1. n \in 1..(Len(s) - 1) /\ ~(n < p) BY <2>2, <2>3, <3>1
      <4> QED BY <2>3, <4>1
    <3> QED BY <3>2, <3>3 DEF Nth
  <2> QED BY <2>3, <2>9, <2>10, <2>11 DEF w
<1> QED BY <1>1, <1>2

(* What list_append does.                                                   *)
LEMMA AppendedSound ==
  ASSUME NEW S, NEW s \in Seq(S), Req!IsInjective(s), NEW x \in S, ~In(s, x)
  PROVE  /\ Append(s, x) \in Seq(S)
         /\ Req!IsInjective(Append(s, x))
         /\ \A y : In(Append(s, x), y) <=> In(s, y) \/ y = x
         /\ Nth(Append(s, x), 1) = IF s = <<>> THEN x ELSE Nth(s, 1)
<1> DEFINE w == Append(s, x)
<1>1. /\ w \in Seq(S) /\ Len(w) = Len(s) + 1 /\ w[Len(s) + 1] = x
      /\ \A j \in 1..Len(s) : w[j] = s[j]
  OBVIOUS
<1>2. Len(s) \in Nat /\ DOMAIN s = 1..Len(s) /\ DOMAIN w = 1..(Len(s) + 1) OBVIOUS
<1>3. s = <<>> <=> Len(s) = 0 OBVIOUS
<1> HIDE DEF w
<1>4. \A j \in DOMAIN w : j \in DOMAIN s \/ j = Len(s) + 1 BY <1>2
<1>5. \A i, j \in DOMAIN s : s[i] = s[j] => i = j BY DEF Req!IsInjective
<1>6. \A j \in DOMAIN s : s[j] # x BY DEF In
<1>7. Req!IsInjective(w) BY <1>1, <1>2, <1>4, <1>5, <1>6 DEF Req!IsInjective
<1>8. \A y : In(w, y) <=> In(s, y) \/ y = x
  <2>1. \A j \in DOMAIN s : j \in DOMAIN w BY <1>2
  <2>2. Len(s) + 1 \in DOMAIN w BY <1>2
  <2> QED BY <1>1, <1>2, <1>4, <2>1, <2>2 DEF In
<1>9. Nth(w, 1) = IF s = <<>> THEN x ELSE Nth(s, 1)
  <2>1. Nth(w, 1) = w[1] BY <1>1, <1>2 DEF Nth
  <2>2. CASE s = <<>> BY <1>1, <1>3, <2>1, <2>2
  <2>3. CASE s # <<>>
    <3>1. 1 \in 1..Len(s) BY <1>2, <1>3, <2>3
    <3>2. Nth(s, 1) = s[1] BY <1>2, <3>1 DEF Nth
    <3> QED BY <1>1, <2>1, <2>3, <3>1, <3>2
  <2> QED BY <2>2, <2>3
<1> QED BY <1>1, <1>7, <1>8, <1>9 DEF w

LEMMA AfterIsNext ==
  ASSUME NEW S, NEW s \in Seq(S), Req!IsInjective(s), NEW n \in DOMAIN s
  PROVE  Req!After(s, s[n]) = Nth(s, n + 1)
<1>1. Len(s) \in Nat /\ DOMAIN s = 1..Len(s) OBVIOUS
<1> DEFINE i == CHOOSE i \in DOMAIN s : s[i] = s[n]
<1>2. i \in DOMAIN s /\ s[i] = s[n] OBVIOUS
<1>3. i = n BY <1>2 DEF Req!IsInjective
<1>4. Req!After(s, s[n]) = IF i < Len(s) THEN s[i + 1] ELSE None BY DEF Req!After
<1> HIDE DEF i
<1> QED BY <1>1, <1>3, <1>4 DEF Nth

LEMMA FirstIs ==
  ASSUME NEW S, NEW s \in Seq(S)
  PROVE  (IF s = <<>> THEN None ELSE Head(s)) = Nth(s, 1)
<1>1. Len(s) \in Nat /\ (s = <<>> <=> Len(s) = 0) OBVIOUS
<1>2. s # <<>> => Head(s) = s[1] OBVIOUS
<1> QED BY <1>1, <1>2 DEF Nth

LEMMA ContainsIsIn ==
  ASSUME NEW S, NEW s \in Seq(S), NEW x
  PROVE  Req!Contains(s, x) <=> In(s, x)
BY DEF Req!Contains, In

-----------------------------------------------------------------------------
(* What becomes of a request.                                               *)

Looks(q) == q.dnsq # "no" \/ q.dnsq2

(* A live request is at one thing; next: it is in request_next.             *)
LiveAs(q, next) ==
  /\ q \in Req!Request /\ q.life = "live"
  /\ q.told = 0 /\ q.outcome = "none"
  /\ q.untried = {q.port} \X q.addrl
  /\ Looks(q) => q.ct = "no" /\ ~next
  /\ q.ct # "no" => ~next
  /\ Looks(q) \/ next \/ q.ct # "no"
  /\ q.dnsq \in {"naptr", "srv"} => ~q.dnsq2 /\ q.addrl = {} /\ q.srvl = {}
  /\ q.dnsq2 => IPv6
  /\ q.qent => q.ct = "calling"
  /\ q.ct # "no" => (q.provrecv <=> q.ct # "calling")
  /\ ~(q.canceled /\ q.invite /\ q.ct = "proceeding")

(* One that is over, or not made yet, is at none.                           *)
Rests(q) ==
  /\ q \in Req!Request /\ q.life # "live"
  /\ ~Looks(q) /\ q.ct = "no" /\ ~q.qent
  /\ q.told = IF q.life = "freed" /\ q.tells /\ q.outcome # "refused" THEN 1 ELSE 0
  /\ q.outcome = "failed" /\ ~q.canceled => q.untried = {} /\ q.srvl = {}

Outcomes == {"refused", "answered", "failed", "trouble", "aborted", "sent"}

(* When q may end so: a failure has left nothing untried.                   *)
MayEnd(q, how) ==
  /\ q \in Req!Request /\ q.told = 0 /\ how \in Outcomes
  /\ how = "failed" /\ ~q.canceled => q.untried = {} /\ q.srvl = {}

(* The constants as the prover needs them.                                  *)
LEMMA ConstantsAre ==
  ASSUME Req!Configuration
  PROVE  /\ Supported \subseteq {0, 1} /\ Supported # {}
         /\ None \notin Reqs /\ None \notin Supported
         /\ IPv6 \in BOOLEAN /\ MaxTroubles \in Nat
         /\ A \subseteq Req!Addrs /\ (IPv6 => AAAA \subseteq Req!Addrs)
BY DEF Req!Configuration, Req!Addrs

(* A transaction has begun.                                                 *)
LEMMA SentTyped ==
  ASSUME NEW q \in Req!Request, NEW waits \in BOOLEAN, NEW untried \in SUBSET Req!Targets
  PROVE  [q EXCEPT !.provrecv = FALSE, !.ct = "calling", !.qent = waits, !.untried = untried]
           \in Req!Request
BY DEF Req!Request

(* What terminate leaves of a request.                                      *)
LEMMA EndedRests ==
  ASSUME NEW q, NEW how, MayEnd(q, how)
  PROVE  Rests(Req!Ended(q, how)) /\ Req!Ended(q, how).late = q.late
         /\ Req!Ended(q, how).life = "freed"
<1> DEFINE e == Req!Ended(q, how)
           told == IF q.tells /\ how # "refused" THEN q.told + 1 ELSE q.told
<1>1. told \in 0..2 /\ told = IF q.tells /\ how # "refused" THEN 1 ELSE 0
  BY DEF MayEnd
<1>2. e = [Req!Unused EXCEPT !.life = "freed", !.outcome = how, !.tells = q.tells,
              !.told = told, !.canceled = q.canceled, !.untried = q.untried, !.srvl = q.srvl,
              !.late = q.late]
  BY Zenon DEF Req!Ended
<1> HIDE DEF e, told
<1>3. Req!Unused \in Req!Request
  BY DEF Req!Request, Req!Unused, Req!NoTransp, Req!TranspC, Req!Targets
<1>4. /\ e \in Req!Request /\ e.life = "freed" /\ e.outcome = how /\ e.tells = q.tells
      /\ e.told = told /\ e.canceled = q.canceled /\ e.untried = q.untried /\ e.srvl = q.srvl
      /\ e.late = q.late
  <2>1. /\ how \in Outcomes /\ q.tells \in BOOLEAN /\ q.canceled \in BOOLEAN
        /\ q.untried \in SUBSET Req!Targets /\ q.srvl \in SUBSET Srvs /\ q.late \in BOOLEAN
    BY DEF MayEnd, Req!Request
  <2>2. e \in Req!Request
    <3> DEFINE given == q.canceled
               tells == q.tells
               untried == q.untried
               srvl == q.srvl
               late == q.late
               u == Req!Unused
    <3>0. how \in Outcomes /\ told \in 0..2 BY <1>1, <2>1
    <3>1. /\ tells \in BOOLEAN /\ given \in BOOLEAN /\ u \in Req!Request
          /\ untried \in SUBSET Req!Targets /\ srvl \in SUBSET Srvs /\ late \in BOOLEAN
      BY <1>3, <2>1
    <3>2. e = [u EXCEPT !.life = "freed", !.outcome = how, !.tells = tells, !.told = told,
                 !.canceled = given, !.untried = untried, !.srvl = srvl, !.late = late]
      BY <1>2
    <3> HIDE DEF given, tells, untried, srvl, late, u
    <3>3. [u EXCEPT !.life = "freed", !.outcome = how, !.tells = tells, !.told = told,
             !.canceled = given, !.untried = untried, !.srvl = srvl, !.late = late]
            \in Req!Request
      BY <3>0, <3>1 DEF Outcomes, Req!Request
    <3> QED BY <3>2, <3>3, Zenon
  <2>3. /\ e.life = "freed" /\ e.outcome = how /\ e.tells = q.tells /\ e.told = told
        /\ e.canceled = q.canceled /\ e.untried = q.untried /\ e.srvl = q.srvl
        /\ e.late = q.late
    BY <1>2, <1>3 DEF Req!Request
  <2> QED BY <2>2, <2>3
<1>5. e.dnsq = "no" /\ ~e.dnsq2 /\ e.ct = "no" /\ ~e.qent
  BY <1>2 DEF Req!Unused
<1> QED BY <1>1, <1>4, <1>5 DEF MayEnd, Rests, Looks, e

LEMMA SentLives ==
  ASSUME NEW q \in Req!Request, NEW d, NEW waits \in BOOLEAN, q.life = "live",
         q.told = 0, q.outcome = "none", ~Looks(q),
         q.untried \ {d} = {q.port} \X q.addrl
  PROVE  LiveAs(Req!Sent(q, d, waits), FALSE)
<1> DEFINE e == Req!Sent(q, d, waits)
           u == q.untried \ {d}
<1>1. u \in SUBSET Req!Targets /\ u = {q.port} \X q.addrl BY DEF Req!Request
<1>2. e = [q EXCEPT !.provrecv = FALSE, !.ct = "calling", !.qent = waits, !.untried = u]
  BY DEF Req!Sent, Req!Request
<1> HIDE DEF u, e
<1>3. e \in Req!Request
  <2>1. u \in SUBSET Req!Targets BY <1>1
  <2> QED BY <1>2, <2>1, SentTyped
<1>4. e.provrecv = FALSE /\ e.ct = "calling" /\ e.qent = waits /\ e.untried = u
  BY <1>2 DEF Req!Request
<1>5. /\ e.life = q.life /\ e.told = q.told /\ e.outcome = q.outcome
      /\ e.port = q.port /\ e.addrl = q.addrl /\ e.dnsq = q.dnsq /\ e.dnsq2 = q.dnsq2
  BY <1>2 DEF Req!Request
<1> QED BY <1>1, <1>3, <1>4, <1>5 DEF LiveAs, Looks, e

(* addr_lookup.                                                             *)
LEMMA LookingLives ==
  ASSUME Req!Configuration, NEW q \in Req!Request, q.life = "live", q.told = 0, q.outcome = "none",
         q.untried = {q.port} \X q.addrl, q.ct = "no", ~q.qent
  PROVE  LiveAs(Req!Looking(q), FALSE)
<1> DEFINE e == Req!Looking(q)
<1>1. e = [q EXCEPT !.dnsq = "addr", !.dnsq2 = IPv6] BY DEF Req!Looking
<1> HIDE DEF e
<1>2. /\ e \in Req!Request /\ e.dnsq = "addr" /\ e.dnsq2 = IPv6 /\ e.ct = q.ct /\ e.qent = q.qent
      /\ e.untried = q.untried /\ e.life = q.life /\ e.told = q.told /\ e.outcome = q.outcome
      /\ e.port = q.port /\ e.addrl = q.addrl
  BY <1>1, ConstantsAre DEF Req!Request
<1> QED BY <1>2 DEF LiveAs, Looks, e

(* sip_request_cancel.                                                      *)
LEMMA CanceledLives ==
  ASSUME NEW q, NEW next, LiveAs(q, next)
  PROVE  /\ LiveAs(Req!Canceled(q), next)
         /\ Req!Canceled(q).qent = q.qent /\ Req!Canceled(q).late = q.late
<1> DEFINE e == Req!Canceled(q)
<1>1. CASE q.canceled BY <1>1 DEF Req!Canceled
<1>2. CASE ~q.canceled
  <2> DEFINE c == IF q.provrecv THEN Req!sip_ctrans_cancel(q) ELSE q.ct
  <2>1. /\ c \in {"no", "calling", "proceeding", "ending"}
        /\ (c = "no" <=> q.ct = "no") /\ (c = "calling" <=> q.ct = "calling")
        /\ ~(q.invite /\ c = "proceeding")
    BY DEF Req!sip_ctrans_cancel, LiveAs, Req!Request
  <2>2. e = [q EXCEPT !.canceled = TRUE, !.ct = c] BY <1>2 DEF Req!Canceled, LiveAs, Req!Request
  <2> HIDE DEF e, c
  <2>3. /\ e \in Req!Request /\ e.canceled = TRUE /\ e.ct = c /\ e.qent = q.qent /\ e.late = q.late
        /\ e.untried = q.untried /\ e.life = q.life /\ e.told = q.told /\ e.outcome = q.outcome
        /\ e.port = q.port /\ e.addrl = q.addrl /\ e.srvl = q.srvl /\ e.dnsq = q.dnsq
        /\ e.dnsq2 = q.dnsq2 /\ e.provrecv = q.provrecv /\ e.invite = q.invite
    BY <2>1, <2>2 DEF LiveAs, Req!Request
  <2> QED BY <2>1, <2>3 DEF LiveAs, Looks, e
<1> QED BY <1>1, <1>2

(* There is a transport to begin with.                                      *)
LEMMA TransportsAre ==
  ASSUME Req!Configuration
  PROVE  /\ \A tp \in Int : Req!transp_next_srv(tp) \in Supported \cup {None}
         /\ Req!transp_next_srv(Req!TranspC) \in Supported
         /\ Req!transp_next(Req!NoTransp) \in Supported
         /\ Supported \subseteq Req!NoTransp..Req!TranspC
<1>0. Supported \subseteq {0, 1} /\ Supported # {} BY ConstantsAre
<1>1. ASSUME NEW tp \in Int PROVE Req!transp_next_srv(tp) \in Supported \cup {None}
  <2> DEFINE less == {t \in Supported : t < tp}
  <2>1. CASE less = {} BY <2>1 DEF Req!transp_next_srv
  <2>2. CASE less # {}
    <3>1. \E t \in less : \A u \in less : t >= u
      <4>1. CASE 1 \in less BY <1>0, <4>1
      <4>2. CASE 1 \notin less
        <5>1. less \subseteq {0} BY <1>0, <4>2
        <5> QED BY <2>2, <5>1
      <4> QED BY <4>1, <4>2
    <3>2. Req!transp_next_srv(tp) = CHOOSE t \in less : \A u \in less : t >= u
      BY <2>2 DEF Req!transp_next_srv
    <3> QED BY <3>1, <3>2
  <2> QED BY <2>1, <2>2
<1>2. Req!transp_next_srv(Req!TranspC) \in Supported
  <2>1. {t \in Supported : t < Req!TranspC} # {}
    <3>1. \A t \in Supported : t < 3 BY <1>0
    <3> QED BY <1>0, <3>1 DEF Req!TranspC
  <2> DEFINE less == {t \in Supported : t < Req!TranspC}
  <2>2. \E t \in less : \A u \in less : t >= u
      <4>1. CASE 1 \in less BY <1>0, <4>1
      <4>2. CASE 1 \notin less
        <5>1. less \subseteq {0} BY <1>0, <4>2
        <5> QED BY <2>1, <5>1
      <4> QED BY <4>1, <4>2
  <2>3. Req!transp_next_srv(Req!TranspC) = CHOOSE t \in less : \A u \in less : t >= u
    BY <2>1 DEF Req!transp_next_srv
  <2> QED BY <2>2, <2>3
<1>3. Req!transp_next(Req!NoTransp) \in Supported
  <2> DEFINE more == {t \in Supported : t > Req!NoTransp}
  <2>1. more # {}
    <3>1. \A t \in Supported : t > -1 BY <1>0
    <3> QED BY <1>0, <3>1 DEF Req!NoTransp
  <2>2. \E t \in more : \A u \in more : t <= u
      <4>1. CASE 0 \in more BY <1>0, <4>1
      <4>2. CASE 0 \notin more
        <5>1. more \subseteq {1} BY <1>0, <4>2
        <5> QED BY <2>1, <5>1
      <4> QED BY <4>1, <4>2
  <2>3. Req!transp_next(Req!NoTransp) = CHOOSE t \in more : \A u \in more : t <= u
    BY <2>1 DEF Req!transp_next
  <2> QED BY <2>2, <2>3
<1>4. Supported \subseteq Req!NoTransp..Req!TranspC BY <1>0 DEF Req!NoTransp, Req!TranspC
<1> QED BY <1>1, <1>2, <1>3, <1>4

-----------------------------------------------------------------------------
(* All requests, and the list of those that are live.                       *)

RequestsSound ==
  /\ rq \in [Reqs -> Req!Request] /\ busy \in Reqs \cup {None}
  /\ \A r \in Reqs : IF Req!Live(r) THEN LiveAs(rq[r], busy = r) ELSE busy # r /\ Rests(rq[r])
  /\ reql \in Seq(Reqs) /\ Req!IsInjective(reql)
  /\ \A r \in Reqs : In(reql, r) <=> Req!Live(r)

(* Only r changes; queued: its message waits for a connection.              *)
Moves(r, waits) ==
  /\ RequestsSound'
  /\ \A s \in Reqs \ {r} : rq'[s] = rq[s]
  /\ rq'[r].qent = waits

(* A live request that is done with one thing and not yet at the next.      *)
Idles(q) ==
  /\ q \in Req!Request /\ q.life = "live" /\ q.told = 0 /\ q.outcome = "none"
  /\ q.untried = {q.port} \X q.addrl /\ ~Looks(q) /\ q.ct = "no" /\ ~q.qent

LEMMA IdlesLives ==
  ASSUME NEW q, Idles(q)
  PROVE  LiveAs(q, TRUE)
BY DEF Idles, LiveAs, Looks

(* A request goes on: nothing else changes.                                 *)
LEMMA BecomesMoves ==
  ASSUME RequestsSound, NEW r \in Reqs, Req!Live(r), NEW q, None \notin Reqs,
         Req!Becomes(r, q), LiveAs(q, busy' = r), busy \in {None, r}, busy' \in {None, r}
  PROVE  Moves(r, q.qent)
<1>1. rq' = [rq EXCEPT ![r] = q] /\ reql' = reql BY DEF Req!Becomes
<1>2. q \in Req!Request /\ q.life = "live" BY DEF LiveAs
<1>3. /\ rq' \in [Reqs -> Req!Request] /\ rq'[r] = q
      /\ \A s \in Reqs \ {r} : rq'[s] = rq[s]
  BY <1>1, <1>2 DEF RequestsSound
<1>4. \A s \in Reqs : Req!Live(s)' <=> Req!Live(s) BY <1>2, <1>3 DEF Req!Live
<1>5. ASSUME NEW s \in Reqs
      PROVE (IF Req!Live(s) THEN LiveAs(rq[s], busy = s) ELSE busy # s /\ Rests(rq[s]))'
  <2>1. CASE s = r BY <1>2, <1>3, <1>4, <2>1 DEF RequestsSound
  <2>2. CASE s # r
    <3>1. busy # s /\ busy' # s BY <2>2
    <3>2. rq'[s] = rq[s] BY <1>3, <2>2
    <3>3. IF Req!Live(s) THEN LiveAs(rq[s], FALSE) ELSE Rests(rq[s])
      BY <3>1 DEF RequestsSound
    <3>4. IF Req!Live(s)' THEN LiveAs(rq'[s], FALSE) ELSE Rests(rq'[s])
      BY <1>4, <3>2, <3>3
    <3> QED BY <3>1, <3>4
  <2> QED BY <2>1, <2>2
<1>6. busy' \in Reqs \cup {None} OBVIOUS
<1> QED BY <1>1, <1>3, <1>4, <1>5, <1>6 DEF RequestsSound, Moves

(* A request ends: nothing else changes.                                    *)
LEMMA TerminateMoves ==
  ASSUME RequestsSound, NEW r \in Reqs, Req!Live(r), NEW q, NEW how, None \notin Reqs,
         MayEnd(q, how), Req!terminate(r, q, how), busy \in {None, r}, busy' = None
  PROVE  Moves(r, FALSE) /\ rq'[r].late = q.late
<1> DEFINE e == Req!Ended(q, how)
<1>1. rq' = [rq EXCEPT ![r] = e] /\ reql' = Req!Unlinked(reql, r) BY DEF Req!terminate
<1>2. Rests(e) /\ e.late = q.late BY EndedRests
<1> HIDE DEF e
<1>3. e \in Req!Request /\ e.life # "live" /\ e.qent = FALSE BY <1>2 DEF Rests, Req!Request
<1>4. /\ rq' \in [Reqs -> Req!Request] /\ rq'[r] = e
      /\ \A s \in Reqs \ {r} : rq'[s] = rq[s]
  BY <1>1, <1>3 DEF RequestsSound
<1>5. ~Req!Live(r)' /\ \A s \in Reqs \ {r} : Req!Live(s)' <=> Req!Live(s)
  BY <1>3, <1>4 DEF Req!Live
<1>6. /\ reql' \in Seq(Reqs) /\ Req!IsInjective(reql')
      /\ \A y : In(reql', y) <=> In(reql, y) /\ y # r
  BY <1>1, UnlinkedSound DEF RequestsSound
<1>7. ASSUME NEW s \in Reqs
      PROVE (IF Req!Live(s) THEN LiveAs(rq[s], busy = s) ELSE busy # s /\ Rests(rq[s]))'
  <2>1. CASE s = r BY <1>2, <1>4, <1>5, <2>1
  <2>2. CASE s # r
    <3>1. busy # s /\ busy' # s BY <2>2
    <3>2. rq'[s] = rq[s] BY <1>4, <2>2
    <3>3. IF Req!Live(s) THEN LiveAs(rq[s], FALSE) ELSE Rests(rq[s])
      BY <3>1 DEF RequestsSound
    <3>4. IF Req!Live(s)' THEN LiveAs(rq'[s], FALSE) ELSE Rests(rq'[s])
      BY <1>5, <2>2, <3>2, <3>3
    <3> QED BY <3>1, <3>4
  <2> QED BY <2>1, <2>2
<1>8. (\A s \in Reqs : In(reql, s) <=> Req!Live(s))' BY <1>5, <1>6 DEF RequestsSound
<1> QED BY <1>2, <1>3, <1>4, <1>6, <1>7, <1>8 DEF RequestsSound, Moves

LEMMA LiveMayEnd ==
  ASSUME NEW q, q \in Req!Request, q.told = 0, NEW how \in Outcomes \ {"failed"}
  PROVE  MayEnd(q, how)
BY DEF MayEnd, Outcomes

(* A query is started, or the request ends.                                 *)
LEMMA AsksMoves ==
  ASSUME RequestsSound, NEW r \in Reqs, Req!Live(r), NEW q, None \notin Reqs,
         LiveAs(q, FALSE), Req!Asks(r, q), busy \in {None, r}, busy' = None
  PROVE  Moves(r, q.qent) \/ Moves(r, FALSE)
<1>1. CASE Req!Becomes(r, q)
  <2>1. busy' # r OBVIOUS
  <2> QED BY <1>1, <2>1, BecomesMoves
<1>2. CASE Req!terminate(r, q, "trouble")
  <2>1. MayEnd(q, "trouble") BY LiveMayEnd DEF LiveAs, Outcomes
  <2> QED BY <1>2, <2>1, TerminateMoves
<1> QED BY <1>1, <1>2 DEF Req!Asks

(* The transaction has failed: the request goes on or ends.                 *)
LEMMA FailoverMoves ==
  ASSUME RequestsSound, NEW r \in Reqs, Req!Live(r), NEW q, None \notin Reqs,
         Idles(q), Req!Failover(r, q, "failed"), busy = None
  PROVE  Moves(r, FALSE) /\ busy' \in {None, r}
<1>1. CASE ~q.canceled /\ (q.addrl # {} \/ q.srvl # {})
  <2>1. Req!Becomes(r, q) /\ busy' = r BY <1>1 DEF Req!Failover
  <2>2. LiveAs(q, TRUE) /\ q.qent = FALSE BY IdlesLives DEF Idles, Req!Request
  <2> QED BY <2>1, <2>2, BecomesMoves
<1>2. CASE ~(~q.canceled /\ (q.addrl # {} \/ q.srvl # {}))
  <2>1. Req!terminate(r, q, "failed") /\ busy' = None BY <1>2 DEF Req!Failover
  <2>2. MayEnd(q, "failed")
    <3>1. q.addrl = {} => {q.port} \X q.addrl = {} OBVIOUS
    <3> QED BY <1>2, <3>1 DEF MayEnd, Idles, Outcomes
  <2> QED BY <2>1, <2>2, TerminateMoves
<1> QED BY <1>1, <1>2

(* request(): the message is sent or queued.                                *)
LEMMA RequestMoves ==
  ASSUME RequestsSound, NEW r \in Reqs, Req!Live(r), NEW q \in Req!Request, NEW d, None \notin Reqs,
         q.life = "live", q.told = 0, q.outcome = "none", ~Looks(q), q.untried \ {d} = {q.port} \X q.addrl,
         Req!request(r, q, d), busy \in {None, r}, busy' = None
  PROVE  Moves(r, q.stateful /\ Req!Queues(q, d)) /\ Req!conn_send(r, q, d)
<1>1. Req!conn_send(r, q, d) BY DEF Req!request
<1>2. CASE q.stateful
  <2> DEFINE waits == Req!Queues(q, d)
             e == Req!Sent(q, d, waits)
  <2>1. waits \in BOOLEAN BY DEF Req!Queues
  <2>2. Req!Becomes(r, e) BY <1>2 DEF Req!request
  <2>3. e.qent = waits BY DEF Req!Sent, Req!Request
  <2> HIDE DEF waits
  <2>4. LiveAs(e, FALSE) BY <2>1, SentLives
  <2> HIDE DEF e
  <2>5. busy' # r OBVIOUS
  <2>6. Moves(r, e.qent) BY <2>2, <2>4, <2>5, BecomesMoves
  <2>7. q.stateful = TRUE BY <1>2 DEF Req!Request
  <2>8. (q.stateful /\ waits) = waits BY <2>1, <2>7
  <2> QED BY <1>1, <2>3, <2>6, <2>8 DEF waits
<1>3. CASE ~q.stateful
  <2> DEFINE t == [q EXCEPT !.tells = FALSE]
  <2>1. Req!terminate(r, t, "sent") BY <1>3 DEF Req!request
  <2>2. t \in Req!Request /\ t.told = 0 BY DEF Req!Request
  <2> HIDE DEF t
  <2>3. MayEnd(t, "sent") BY <2>2, LiveMayEnd DEF Outcomes
  <2>4. Moves(r, FALSE) BY <2>1, <2>3, TerminateMoves
  <2>5. (q.stateful /\ Req!Queues(q, d)) = FALSE BY <1>3
  <2> QED BY <1>1, <2>4, <2>5
<1> QED BY <1>2, <1>3

-----------------------------------------------------------------------------
(* What each handler does to its request.                                   *)

(* The answers to its queries.                                              *)
LEMMA NaptrMoves ==
  ASSUME Req!Configuration, RequestsSound, NEW r \in Reqs, Req!naptr_handler(r)
  PROVE  Moves(r, FALSE) /\ busy' \in {None, r} /\ ~rq[r].qent
<1> DEFINE q == rq[r]
<1>0. /\ None \notin Reqs /\ Req!Live(r) /\ busy = None /\ q.dnsq = "naptr"
  BY ConstantsAre DEF Req!naptr_handler, Req!Free
<1>1. LiveAs(q, FALSE) /\ q \in Req!Request BY <1>0 DEF RequestsSound
<1>2. /\ q.ct = "no" /\ ~q.qent /\ ~q.dnsq2 /\ q.addrl = {}
  BY <1>0, <1>1 DEF LiveAs, Looks
<1>3. Supported \subseteq Req!NoTransp..Req!TranspC BY TransportsAre
<1>4. ASSUME NEW tp \in Supported, NEW srvs \in SUBSET Srvs,
             LET u == [q EXCEPT !.tp = tp, !.tp_selected = TRUE, !.srvl = srvs]
             IN IF srvs = {}
                THEN Req!Asks(r, [u EXCEPT !.dnsq = "srv"]) /\ UNCHANGED busy
                ELSE Req!Becomes(r, [u EXCEPT !.dnsq = "no"]) /\ busy' = r
                     /\ UNCHANGED troubles
      PROVE  Moves(r, FALSE) /\ busy' \in {None, r}
  <2> DEFINE u == [q EXCEPT !.tp = tp, !.tp_selected = TRUE, !.srvl = srvs]
             e(l) == [u EXCEPT !.dnsq = l]
  <2>0. tp \in Req!NoTransp..Req!TranspC BY <1>3
  <2>1. u \in Req!Request BY <1>1, <2>0 DEF Req!Request
  <2>2. /\ u.life = q.life /\ u.told = q.told /\ u.outcome = q.outcome /\ u.port = q.port
        /\ u.addrl = q.addrl /\ u.untried = q.untried /\ u.ct = q.ct /\ u.qent = q.qent
        /\ u.dnsq2 = q.dnsq2 /\ u.srvl = srvs
    BY <1>1 DEF Req!Request
  <2> HIDE DEF u
  <2>3. ASSUME NEW l \in {"srv", "no"}
        PROVE /\ e(l) \in Req!Request /\ e(l).dnsq = l
              /\ e(l).life = u.life /\ e(l).told = u.told /\ e(l).outcome = u.outcome
              /\ e(l).port = u.port /\ e(l).addrl = u.addrl /\ e(l).untried = u.untried
              /\ e(l).ct = u.ct /\ e(l).qent = u.qent /\ e(l).dnsq2 = u.dnsq2 /\ e(l).srvl = u.srvl
    BY <2>1, <2>3 DEF Req!Request
  <2>4. CASE srvs = {}
    <3>1. Req!Asks(r, e("srv")) /\ busy' = None BY <1>0, <1>4, <2>4 DEF u
    <3>2. LiveAs(e("srv"), FALSE) /\ e("srv").qent = FALSE
      BY <1>1, <1>2, <2>2, <2>3, <2>4 DEF LiveAs, Looks, Req!Request
    <3> HIDE DEF e
    <3> QED BY <1>0, <3>1, <3>2, AsksMoves
  <2>5. CASE srvs # {}
    <3>1. Req!Becomes(r, e("no")) /\ busy' = r BY <1>4, <2>5 DEF u
    <3>2. LiveAs(e("no"), TRUE) /\ e("no").qent = FALSE
      BY <1>1, <1>2, <2>2, <2>3 DEF LiveAs, Looks, Req!Request
    <3> HIDE DEF e
    <3> QED BY <1>0, <3>1, <3>2, BecomesMoves
  <2> QED BY <2>4, <2>5
<1>5. ASSUME Req!Asks(r, [q EXCEPT !.dnsq = "srv", !.tp = Req!transp_next_srv(Req!TranspC)]),
             UNCHANGED busy
      PROVE  Moves(r, FALSE) /\ busy' \in {None, r}
  <2> DEFINE tp == Req!transp_next_srv(Req!TranspC)
             e == [q EXCEPT !.dnsq = "srv", !.tp = tp]
  <2>1. tp \in Req!NoTransp..Req!TranspC BY <1>3, TransportsAre
  <2> HIDE DEF tp
  <2>2. /\ e \in Req!Request /\ e.dnsq = "srv"
        /\ e.life = q.life /\ e.told = q.told /\ e.outcome = q.outcome /\ e.port = q.port
        /\ e.addrl = q.addrl /\ e.untried = q.untried /\ e.ct = q.ct /\ e.qent = q.qent
        /\ e.dnsq2 = q.dnsq2 /\ e.srvl = q.srvl
    BY <1>1, <2>1 DEF Req!Request
  <2>3. Req!Asks(r, e) /\ busy' = None BY <1>0, <1>5 DEF tp
  <2> HIDE DEF e
  <2>4. LiveAs(e, FALSE) /\ e.qent = FALSE
    BY <1>0, <1>1, <1>2, <2>2 DEF LiveAs, Looks, Req!Request
  <2> QED BY <1>0, <2>3, <2>4, AsksMoves
<1>6. \/ \E tp \in Supported, srvs \in SUBSET Srvs :
             LET u == [q EXCEPT !.tp = tp, !.tp_selected = TRUE, !.srvl = srvs]
             IN IF srvs = {}
                THEN Req!Asks(r, [u EXCEPT !.dnsq = "srv"]) /\ UNCHANGED busy
                ELSE Req!Becomes(r, [u EXCEPT !.dnsq = "no"]) /\ busy' = r
                     /\ UNCHANGED troubles
      \/ /\ Req!Asks(r, [q EXCEPT !.dnsq = "srv", !.tp = Req!transp_next_srv(Req!TranspC)])
         /\ UNCHANGED busy
  BY DEF Req!naptr_handler
<1> QED BY <1>2, <1>4, <1>5, <1>6

LEMMA SrvMoves ==
  ASSUME Req!Configuration, RequestsSound, NEW r \in Reqs, Req!srv_handler(r)
  PROVE  Moves(r, FALSE) /\ busy' \in {None, r} /\ ~rq[r].qent
<1> DEFINE q == rq[r]
           next == Req!transp_next_srv(q.tp)
<1>0. /\ None \notin Reqs /\ Req!Live(r) /\ busy = None /\ q.dnsq = "srv"
  BY ConstantsAre DEF Req!srv_handler, Req!Free
<1>1. LiveAs(q, FALSE) /\ q \in Req!Request BY <1>0 DEF RequestsSound
<1>2. /\ q.ct = "no" /\ ~q.qent /\ ~q.dnsq2 /\ q.addrl = {} /\ q.srvl = {}
  BY <1>0, <1>1 DEF LiveAs, Looks
<1>3. Supported \subseteq Req!NoTransp..Req!TranspC BY TransportsAre
<1>4. q.tp \in Int BY <1>1 DEF Req!Request, Req!NoTransp, Req!TranspC
<1>5. PICK srvs \in SUBSET Srvs :
        IF srvs # {}
          THEN /\ Req!Becomes(r, [q EXCEPT !.srvl = srvs, !.dnsq = "no"])
               /\ busy' = r /\ UNCHANGED troubles
          ELSE /\ UNCHANGED busy
               /\ IF ~q.tp_selected /\ next # None
                  THEN Req!Asks(r, [q EXCEPT !.tp = next])
                  ELSE Req!Asks(r, Req!Looking([q EXCEPT !.port = Host,
                         !.tp = IF q.tp_selected THEN @ ELSE Req!transp_next(Req!NoTransp)]))
  BY DEF Req!srv_handler
<1>6. CASE srvs # {}
  <2> DEFINE e == [q EXCEPT !.srvl = srvs, !.dnsq = "no"]
  <2>1. Req!Becomes(r, e) /\ busy' = r BY <1>5, <1>6
  <2>2. /\ e \in Req!Request /\ e.dnsq = "no"
        /\ e.life = q.life /\ e.told = q.told /\ e.outcome = q.outcome /\ e.port = q.port
        /\ e.addrl = q.addrl /\ e.untried = q.untried /\ e.ct = q.ct /\ e.qent = q.qent
        /\ e.dnsq2 = q.dnsq2
    BY <1>1 DEF Req!Request
  <2> HIDE DEF e
  <2>3. LiveAs(e, TRUE) /\ e.qent = FALSE
    BY <1>1, <1>2, <2>2 DEF LiveAs, Looks, Req!Request
  <2> QED BY <1>0, <1>2, <2>1, <2>3, BecomesMoves
<1>7. CASE srvs = {} /\ ~q.tp_selected /\ next # None
  <2> DEFINE e == [q EXCEPT !.tp = next]
  <2>1. Req!Asks(r, e) /\ busy' = None BY <1>0, <1>5, <1>7
  <2>2. next \in Req!NoTransp..Req!TranspC BY <1>3, <1>4, <1>7, TransportsAre
  <2> HIDE DEF next
  <2>3. /\ e \in Req!Request /\ e.dnsq = q.dnsq
        /\ e.life = q.life /\ e.told = q.told /\ e.outcome = q.outcome /\ e.port = q.port
        /\ e.addrl = q.addrl /\ e.untried = q.untried /\ e.ct = q.ct /\ e.qent = q.qent
        /\ e.dnsq2 = q.dnsq2 /\ e.srvl = q.srvl
    BY <1>1, <2>2 DEF Req!Request
  <2> HIDE DEF e
  <2>4. LiveAs(e, FALSE) /\ e.qent = FALSE
    BY <1>0, <1>1, <1>2, <2>3 DEF LiveAs, Looks, Req!Request
  <2> QED BY <1>0, <1>2, <2>1, <2>4, AsksMoves
<1>8. CASE srvs = {} /\ ~(~q.tp_selected /\ next # None)
  <2> DEFINE tp == IF q.tp_selected THEN q.tp ELSE Req!transp_next(Req!NoTransp)
             u == [q EXCEPT !.port = Host, !.tp = tp]
             e == Req!Looking(u)
  <2>1. Req!Asks(r, e) /\ busy' = None BY <1>0, <1>5, <1>8
  <2>2. tp \in Req!NoTransp..Req!TranspC
    <3>1. Req!transp_next(Req!NoTransp) \in Req!NoTransp..Req!TranspC BY <1>3, TransportsAre
    <3>2. q.tp \in Req!NoTransp..Req!TranspC BY <1>1 DEF Req!Request
    <3> QED BY <3>1, <3>2
  <2> HIDE DEF tp
  <2>3. /\ u \in Req!Request
        /\ u.life = q.life /\ u.told = q.told /\ u.outcome = q.outcome
        /\ u.addrl = q.addrl /\ u.untried = q.untried /\ u.ct = q.ct /\ u.qent = q.qent
    BY <1>1, <2>2 DEF Req!Request
  <2> HIDE DEF u
  <2>4. u.untried = {u.port} \X u.addrl
    <3>1. q.untried = {q.port} \X {} BY <1>1, <1>2 DEF LiveAs
    <3>2. \A x : {x} \X {} = {} OBVIOUS
    <3> QED BY <1>2, <2>3, <3>1, <3>2
  <2>5. LiveAs(e, FALSE)
    BY <1>1, <1>2, <2>3, <2>4, LookingLives DEF LiveAs
  <2>6. e.qent = FALSE BY <1>2, <2>3 DEF Req!Looking, Req!Request
  <2> HIDE DEF e
  <2> QED BY <1>0, <1>2, <2>1, <2>5, <2>6, AsksMoves
<1> QED BY <1>6, <1>7, <1>8

LEMMA AddrMoves ==
  ASSUME Req!Configuration, RequestsSound, NEW r \in Reqs, Req!addr_handler(r)
  PROVE  Moves(r, FALSE) /\ busy' \in {None, r} /\ ~rq[r].qent
<1> DEFINE q == rq[r]
<1>0. /\ None \notin Reqs /\ Req!Live(r) /\ busy = None
  BY ConstantsAre DEF Req!addr_handler, Req!Free
<1>1. LiveAs(q, FALSE) /\ q \in Req!Request BY <1>0 DEF RequestsSound
<1>2. PICK first \in BOOLEAN : \E found \in SUBSET (IF first THEN A ELSE AAAA) :
       LET t == [q EXCEPT !.addrl = @ \cup found, !.untried = @ \cup ({q.port} \X found),
                          !.dnsq = IF first THEN "no" ELSE @,
                          !.dnsq2 = IF first THEN @ ELSE FALSE]
       IN /\ IF first THEN q.dnsq = "addr" ELSE q.dnsq2
          /\ IF t.dnsq # "no" \/ t.dnsq2 THEN Req!Becomes(r, t) /\ UNCHANGED busy
             ELSE IF t.addrl = {} /\ t.srvl = {}
             THEN Req!terminate(r, t, "failed") /\ UNCHANGED busy
             ELSE Req!Becomes(r, t) /\ busy' = r
  BY DEF Req!addr_handler
<1>3. PICK found \in SUBSET (IF first THEN A ELSE AAAA) :
       LET t == [q EXCEPT !.addrl = @ \cup found, !.untried = @ \cup ({q.port} \X found),
                          !.dnsq = IF first THEN "no" ELSE @,
                          !.dnsq2 = IF first THEN @ ELSE FALSE]
       IN /\ IF first THEN q.dnsq = "addr" ELSE q.dnsq2
          /\ IF t.dnsq # "no" \/ t.dnsq2 THEN Req!Becomes(r, t) /\ UNCHANGED busy
             ELSE IF t.addrl = {} /\ t.srvl = {}
             THEN Req!terminate(r, t, "failed") /\ UNCHANGED busy
             ELSE Req!Becomes(r, t) /\ busy' = r
  BY <1>2
<1> DEFINE addrl == q.addrl \cup found
           untried == q.untried \cup ({q.port} \X found)
           dnsq == IF first THEN "no" ELSE q.dnsq
           dnsq2 == IF first THEN q.dnsq2 ELSE FALSE
           t == [q EXCEPT !.addrl = addrl, !.untried = untried, !.dnsq = dnsq, !.dnsq2 = dnsq2]
<1>4. /\ IF first THEN q.dnsq = "addr" ELSE q.dnsq2
      /\ IF t.dnsq # "no" \/ t.dnsq2 THEN Req!Becomes(r, t) /\ UNCHANGED busy
             ELSE IF t.addrl = {} /\ t.srvl = {}
             THEN Req!terminate(r, t, "failed") /\ UNCHANGED busy
             ELSE Req!Becomes(r, t) /\ busy' = r
  BY <1>3
<1>5. q.ct = "no" /\ ~q.qent /\ q.dnsq \notin {"naptr", "srv"}
  BY <1>1, <1>4 DEF LiveAs, Looks
<1>6. found \subseteq Req!Addrs
  BY <1>1, <1>4, ConstantsAre DEF LiveAs
<1>7. addrl \in SUBSET Req!Addrs BY <1>1, <1>6 DEF Req!Request
<1>8. untried = {q.port} \X addrl
  <2>1. q.untried = {q.port} \X q.addrl BY <1>1 DEF LiveAs
  <2>2. \A p, x, y : ({p} \X x) \cup ({p} \X y) = {p} \X (x \cup y) OBVIOUS
  <2> QED BY <2>1, <2>2
<1>9. untried \in SUBSET Req!Targets
  <2>1. q.port \in Srvs \cup {Host} BY <1>1 DEF Req!Request
  <2> QED BY <1>7, <1>8, <2>1 DEF Req!Targets
<1>10. dnsq \in {"no", "naptr", "srv", "addr"} /\ dnsq2 \in BOOLEAN BY <1>1 DEF Req!Request
<1>11. dnsq \notin {"naptr", "srv"} /\ (dnsq2 => IPv6) BY <1>1, <1>5 DEF LiveAs
<1> HIDE DEF addrl, untried, dnsq, dnsq2
<1>12. t \in Req!Request BY <1>1, <1>7, <1>9, <1>10 DEF Req!Request
<1>13. /\ t.addrl = addrl /\ t.untried = untried /\ t.dnsq = dnsq /\ t.dnsq2 = dnsq2
       /\ t.life = q.life /\ t.told = q.told /\ t.outcome = q.outcome /\ t.port = q.port
       /\ t.ct = q.ct /\ t.qent = q.qent
  BY <1>1 DEF Req!Request
<1> HIDE DEF t
<1>14. t.untried = {t.port} \X t.addrl BY <1>8, <1>13
<1>15. ASSUME NEW next \in BOOLEAN, IF next THEN ~Looks(t) ELSE Looks(t)
       PROVE  LiveAs(t, next) /\ t.qent = FALSE
  BY <1>1, <1>5, <1>11, <1>12, <1>13, <1>14, <1>15 DEF LiveAs, Looks, Req!Request
<1>16. CASE t.dnsq # "no" \/ t.dnsq2
  <2>1. Req!Becomes(r, t) /\ busy' = None BY <1>0, <1>4, <1>16
  <2>2. LiveAs(t, FALSE) /\ t.qent = FALSE BY <1>15, <1>16 DEF Looks
  <2>3. busy' # r BY <1>0, <2>1
  <2> QED BY <1>0, <1>5, <2>1, <2>2, <2>3, BecomesMoves
<1>17. CASE ~(t.dnsq # "no" \/ t.dnsq2) /\ t.addrl = {} /\ t.srvl = {}
  <2>1. Req!terminate(r, t, "failed") /\ busy' = None BY <1>0, <1>4, <1>17
  <2>2. t.untried = {} BY <1>14, <1>17
  <2>3. MayEnd(t, "failed") BY <1>1, <1>12, <1>13, <1>17, <2>2 DEF MayEnd, Outcomes, LiveAs
  <2> QED BY <1>0, <1>5, <2>1, <2>3, TerminateMoves
<1>18. CASE ~(t.dnsq # "no" \/ t.dnsq2) /\ ~(t.addrl = {} /\ t.srvl = {})
  <2>1. Req!Becomes(r, t) /\ busy' = r BY <1>4, <1>18
  <2>2. LiveAs(t, TRUE) /\ t.qent = FALSE BY <1>15, <1>18 DEF Looks
  <2> QED BY <1>0, <1>5, <2>1, <2>2, BecomesMoves
<1> QED BY <1>16, <1>17, <1>18

(* The next address, or the next SRV target.                                *)
LEMMA NextMoves ==
  ASSUME Req!Configuration, RequestsSound, NEW r \in Reqs, Req!request_next(r)
  PROVE  /\ busy' \in {None, r} /\ ~rq[r].qent
         /\ \/ UNCHANGED conn /\ Moves(r, FALSE)
            \/ \E t \in Req!Request, d \in Req!Targets :
                  Req!conn_send(r, t, d) /\ Moves(r, t.stateful /\ Req!Queues(t, d))
<1> DEFINE q == rq[r]
<1>0. /\ None \notin Reqs /\ busy = r
  BY ConstantsAre DEF Req!request_next
<1>1. Req!Live(r) /\ LiveAs(q, TRUE) /\ q \in Req!Request BY <1>0 DEF RequestsSound
<1>2. ~Looks(q) /\ q.ct = "no" /\ ~q.qent BY <1>1 DEF LiveAs
<1>3. q.untried = {q.port} \X q.addrl /\ q.told = 0 /\ q.outcome = "none" /\ q.life = "live"
  BY <1>1 DEF LiveAs
<1>4. ASSUME NEW a \in q.addrl,
             LET t == [q EXCEPT !.addrl = @ \ {a}]
                 d == <<q.port, a>>
                 u == [t EXCEPT !.untried = @ \ {d}]
             IN \/ Req!request(r, t, d) /\ busy' = None /\ UNCHANGED troubles
                \/ /\ Req!Trouble /\ UNCHANGED conn
                   /\ IF t.addrl # {} \/ t.srvl # {} THEN Req!Becomes(r, u) /\ UNCHANGED busy
                      ELSE Req!terminate(r, u, "failed") /\ busy' = None
      PROVE /\ busy' \in {None, r}
            /\ \/ UNCHANGED conn /\ Moves(r, FALSE)
               \/ \E t \in Req!Request, d \in Req!Targets :
                  Req!conn_send(r, t, d) /\ Moves(r, t.stateful /\ Req!Queues(t, d))
  <2> DEFINE addrl == q.addrl \ {a}
             t == [q EXCEPT !.addrl = addrl]
             d == <<q.port, a>>
             untried == t.untried \ {d}
             u == [t EXCEPT !.untried = untried]
  <2>1. \/ Req!request(r, t, d) /\ busy' = None
        \/ /\ UNCHANGED conn
           /\ IF t.addrl # {} \/ t.srvl # {} THEN Req!Becomes(r, u) /\ busy' = r
              ELSE Req!terminate(r, u, "failed") /\ busy' = None
    BY <1>0, <1>4
  <2>2. addrl \in SUBSET Req!Addrs /\ a \in Req!Addrs /\ q.port \in Srvs \cup {Host}
    BY <1>1 DEF Req!Request
  <2>3. d \in Req!Targets BY <2>2 DEF Req!Targets
  <2>4. ({q.port} \X q.addrl) \ {d} = {q.port} \X addrl
    <3>1. \A p, x : ({p} \X x) \ {<<p, a>>} = {p} \X (x \ {a}) OBVIOUS
    <3> QED BY <3>1
  <2> HIDE DEF addrl
  <2>5. /\ t \in Req!Request /\ t.addrl = addrl /\ t.untried = q.untried /\ t.port = q.port
        /\ t.life = q.life /\ t.told = q.told /\ t.outcome = q.outcome /\ t.dnsq = q.dnsq
        /\ t.dnsq2 = q.dnsq2 /\ t.ct = q.ct /\ t.qent = q.qent
    BY <1>1, <2>2 DEF Req!Request
  <2> HIDE DEF t, d
  <2>6. untried = {t.port} \X t.addrl BY <1>3, <2>4, <2>5
  <2>7. untried \in SUBSET Req!Targets BY <2>5 DEF Req!Request
  <2> HIDE DEF untried
  <2>8. /\ u \in Req!Request /\ u.untried = untried /\ u.addrl = t.addrl /\ u.port = t.port
        /\ u.life = t.life /\ u.told = t.told /\ u.outcome = t.outcome /\ u.dnsq = t.dnsq
        /\ u.dnsq2 = t.dnsq2 /\ u.ct = t.ct /\ u.qent = t.qent /\ u.srvl = t.srvl
    BY <2>5, <2>7 DEF Req!Request
  <2> HIDE DEF u
  <2>9. ~Looks(t) /\ t.life = "live" /\ t.told = 0 /\ t.outcome = "none"
    BY <1>2, <1>3, <2>5 DEF Looks
  <2>10. Idles(u) /\ u.qent = FALSE
    BY <1>2, <1>3, <2>5, <2>6, <2>8 DEF Idles, Looks, Req!Request
  <2>11. CASE Req!request(r, t, d) /\ busy' = None
    <3>1. Moves(r, t.stateful /\ Req!Queues(t, d)) /\ Req!conn_send(r, t, d)
      BY <1>0, <1>1, <2>5, <2>6, <2>9, <2>11, RequestMoves DEF untried
    <3> QED BY <2>3, <2>5, <2>11, <3>1
  <2>12. CASE /\ UNCHANGED conn /\ (t.addrl # {} \/ t.srvl # {})
              /\ Req!Becomes(r, u) /\ busy' = r
    <3>1. LiveAs(u, busy' = r) BY <2>10, <2>12, IdlesLives
    <3>2. Moves(r, u.qent) BY <1>0, <1>1, <2>12, <3>1, BecomesMoves
    <3> QED BY <2>10, <2>12, <3>2
  <2>13. CASE /\ UNCHANGED conn /\ ~(t.addrl # {} \/ t.srvl # {})
              /\ Req!terminate(r, u, "failed") /\ busy' = None
    <3>1. u.untried = {}
      <4>1. {t.port} \X {} = {} OBVIOUS
      <4> QED BY <2>6, <2>8, <2>13, <4>1
    <3>2. MayEnd(u, "failed") BY <2>8, <2>10, <2>13, <3>1 DEF MayEnd, Outcomes, Idles
    <3> QED BY <1>0, <1>1, <2>13, <3>2, TerminateMoves
  <2> QED BY <2>1, <2>11, <2>12, <2>13
<1>5. ASSUME q.addrl = {}, UNCHANGED conn, NEW s \in q.srvl, NEW known \in SUBSET Req!Addrs,
             LET t == [q EXCEPT !.srvl = @ \ {s}, !.port = s, !.addrl = known,
                                !.untried = @ \cup ({s} \X known)]
             IN IF known # {} THEN Req!Becomes(r, t) /\ UNCHANGED <<busy, troubles>>
                ELSE Req!Asks(r, Req!Looking(t)) /\ busy' = None
      PROVE busy' \in {None, r} /\ Moves(r, FALSE)
  <2> DEFINE srvl == q.srvl \ {s}
             untried == q.untried \cup ({s} \X known)
             t == [q EXCEPT !.srvl = srvl, !.port = s, !.addrl = known, !.untried = untried]
  <2>1. IF known # {} THEN Req!Becomes(r, t) /\ busy' = busy
        ELSE Req!Asks(r, Req!Looking(t)) /\ busy' = None
    BY <1>5
  <2>2. srvl \in SUBSET Srvs /\ s \in Srvs BY <1>1 DEF Req!Request
  <2>3. untried = {s} \X known
    <3>1. {q.port} \X {} = {} OBVIOUS
    <3> QED BY <1>3, <1>5, <3>1
  <2>4. untried \in SUBSET Req!Targets
    <3>1. s \in Srvs \cup {Host} BY <2>2
    <3> QED BY <2>3, <3>1 DEF Req!Targets
  <2> HIDE DEF srvl, untried
  <2>5. t \in Req!Request BY <1>1, <2>2, <2>4 DEF Req!Request
  <2>6. /\ t.addrl = known /\ t.untried = untried /\ t.port = s
        /\ t.life = q.life /\ t.told = q.told /\ t.outcome = q.outcome /\ t.dnsq = q.dnsq
        /\ t.dnsq2 = q.dnsq2 /\ t.ct = q.ct /\ t.qent = q.qent
    BY <1>1 DEF Req!Request
  <2> HIDE DEF t
  <2>7. Idles(t) /\ t.qent = FALSE
    <3>1. t.untried = {t.port} \X t.addrl BY <2>3, <2>6
    <3> QED BY <1>2, <1>3, <2>5, <2>6, <3>1 DEF Idles, Looks, Req!Request
  <2>8. CASE known # {}
    <3>1. Req!Becomes(r, t) /\ busy' = r BY <1>0, <2>1, <2>8
    <3>2. LiveAs(t, busy' = r) BY <2>7, <3>1, IdlesLives
    <3> QED BY <1>0, <1>1, <2>7, <3>1, <3>2, BecomesMoves
  <2>9. CASE known = {}
    <3> DEFINE e == Req!Looking(t)
    <3>1. Req!Asks(r, e) /\ busy' = None BY <2>1, <2>9
    <3>2. LiveAs(e, FALSE) BY <2>7, LookingLives DEF Idles
    <3>3. e.qent = FALSE BY <2>5, <2>7 DEF Req!Looking, Req!Request
    <3> HIDE DEF e
    <3> QED BY <1>0, <1>1, <3>1, <3>2, <3>3, AsksMoves
  <2> QED BY <2>8, <2>9
<1>6. \/ \E a \in q.addrl :
          LET t == [q EXCEPT !.addrl = @ \ {a}]
              d == <<q.port, a>>
              u == [t EXCEPT !.untried = @ \ {d}]
          IN \/ Req!request(r, t, d) /\ busy' = None /\ UNCHANGED troubles
             \/ /\ Req!Trouble /\ UNCHANGED conn
                /\ IF t.addrl # {} \/ t.srvl # {} THEN Req!Becomes(r, u) /\ UNCHANGED busy
                   ELSE Req!terminate(r, u, "failed") /\ busy' = None
      \/ /\ q.addrl = {} /\ UNCHANGED conn
         /\ \E s \in q.srvl, known \in SUBSET Req!Addrs :
             LET t == [q EXCEPT !.srvl = @ \ {s}, !.port = s, !.addrl = known,
                                !.untried = @ \cup ({s} \X known)]
             IN IF known # {} THEN Req!Becomes(r, t) /\ UNCHANGED <<busy, troubles>>
                ELSE Req!Asks(r, Req!Looking(t)) /\ busy' = None
  BY DEF Req!request_next
<1> QED BY <1>2, <1>4, <1>5, <1>6

(* The user cancels, or lets go.                                            *)
LEMMA UserMoves ==
  ASSUME Req!Configuration, RequestsSound, NEW r \in Reqs,
         Req!sip_request_cancel(r) \/ Req!destructor(r)
  PROVE  /\ Moves(r, rq[r].qent) /\ rq'[r].late = rq[r].late
         /\ UNCHANGED <<reql, conn, old, msg, busy, walk, troubles>>
<1> DEFINE q == rq[r]
<1>0. /\ None \notin Reqs /\ Req!Live(r) /\ busy = None
      /\ UNCHANGED <<reql, conn, old, msg, busy, walk, troubles>>
  BY ConstantsAre DEF Req!sip_request_cancel, Req!destructor, Req!UserRuns, Req!Becomes
<1>1. LiveAs(q, FALSE) /\ q \in Req!Request BY <1>0 DEF RequestsSound
<1>2. ASSUME NEW e, LiveAs(e, FALSE), e.qent = q.qent, e.late = q.late, Req!Becomes(r, Req!Canceled(e))
      PROVE  Moves(r, q.qent) /\ rq'[r].late = q.late
  <2> DEFINE c == Req!Canceled(e)
  <2>1. LiveAs(c, FALSE) /\ c.qent = q.qent /\ c.late = q.late BY <1>2, CanceledLives
  <2>2. Req!Becomes(r, c) BY <1>2
  <2> HIDE DEF c
  <2>3. busy' # r BY <1>0
  <2>4. rq'[r] = c BY <2>2 DEF Req!Becomes, RequestsSound
  <2> QED BY <1>0, <2>1, <2>2, <2>3, <2>4, BecomesMoves
<1>3. CASE Req!sip_request_cancel(r)
  BY <1>0, <1>1, <1>2, <1>3 DEF Req!sip_request_cancel
<1>4. CASE Req!destructor(r)
  <2> DEFINE e == [q EXCEPT !.owner = FALSE, !.tells = FALSE]
  <2>1. e \in Req!Request BY <1>1 DEF Req!Request
  <2>2. /\ e.qent = q.qent /\ e.late = q.late /\ e.life = q.life /\ e.told = q.told
        /\ e.outcome = q.outcome /\ e.untried = q.untried /\ e.port = q.port
        /\ e.addrl = q.addrl /\ e.dnsq = q.dnsq /\ e.dnsq2 = q.dnsq2 /\ e.ct = q.ct
    BY <1>1 DEF Req!Request
  <2>3. /\ e.srvl = q.srvl /\ e.provrecv = q.provrecv /\ e.canceled = q.canceled
        /\ e.invite = q.invite
    BY <1>1 DEF Req!Request
  <2>4. Req!Becomes(r, Req!Canceled(e)) BY <1>4 DEF Req!destructor
  <2> HIDE DEF e
  <2>5. LiveAs(e, FALSE) BY <1>1, <2>1, <2>2, <2>3 DEF LiveAs, Looks
  <2> QED BY <1>0, <1>2, <2>2, <2>4, <2>5
<1> QED BY <1>3, <1>4

(* Responses.                                                               *)
LEMMA ProvisionalMoves ==
  ASSUME Req!Configuration, RequestsSound, NEW r \in Reqs, Req!Provisional(r)
  PROVE  Moves(r, FALSE) /\ ~rq[r].qent /\ UNCHANGED busy
<1> DEFINE q == rq[r]
           c == IF q.ct = "ending" THEN q.ct ELSE "proceeding"
           p == [q EXCEPT !.ct = c]
           t == [p EXCEPT !.provrecv = TRUE]
           e == IF ~p.provrecv /\ p.canceled THEN [t EXCEPT !.ct = Req!sip_ctrans_cancel(p)] ELSE t
<1>0. /\ None \notin Reqs /\ Req!Live(r) /\ busy = None /\ busy' = None /\ q.ct # "no" /\ ~q.qent
      /\ Req!Becomes(r, e)
  BY ConstantsAre DEF Req!Provisional, Req!Responding, Req!Free
<1>1. LiveAs(q, FALSE) /\ q \in Req!Request BY <1>0 DEF RequestsSound
<1>2. q.ct \in {"calling", "proceeding", "ending"} BY <1>0, <1>1 DEF Req!Request
<1> DEFINE d == IF ~q.provrecv /\ q.canceled /\ c = "proceeding" /\ q.invite THEN "ending" ELSE c
<1>3. c \in {"ending", "proceeding"} /\ d \in {"ending", "proceeding"} BY <1>2
<1>4. ~(q.canceled /\ q.invite /\ d = "proceeding")
  BY <1>0, <1>1, <1>2 DEF LiveAs
<1> HIDE DEF c
<1>5. /\ p \in Req!Request /\ p.ct = c /\ p.provrecv = q.provrecv /\ p.canceled = q.canceled
      /\ p.invite = q.invite
  BY <1>1, <1>3 DEF Req!Request
<1>6. e = [q EXCEPT !.ct = d, !.provrecv = TRUE]
  <2>1. t = [q EXCEPT !.ct = c, !.provrecv = TRUE] BY <1>1 DEF Req!Request
  <2>2. e = IF ~q.provrecv /\ q.canceled
            THEN [t EXCEPT !.ct = IF c = "proceeding" /\ q.invite THEN "ending" ELSE c] ELSE t
    BY <1>5 DEF Req!sip_ctrans_cancel
  <2> HIDE DEF t, p, e
  <2> QED BY <1>1, <2>1, <2>2 DEF Req!Request
<1> HIDE DEF e, p, t, d
<1>7. e \in Req!Request BY <1>1, <1>3, <1>6 DEF Req!Request
<1>8. /\ e.ct = d /\ e.provrecv = TRUE /\ e.life = q.life /\ e.told = q.told
      /\ e.outcome = q.outcome /\ e.untried = q.untried /\ e.port = q.port
      /\ e.addrl = q.addrl /\ e.dnsq = q.dnsq /\ e.dnsq2 = q.dnsq2 /\ e.qent = q.qent
  BY <1>1, <1>6 DEF Req!Request
<1>9. e.srvl = q.srvl /\ e.canceled = q.canceled /\ e.invite = q.invite
  BY <1>1, <1>6 DEF Req!Request
<1>10. LiveAs(e, FALSE) /\ e.qent = FALSE
  BY <1>0, <1>1, <1>3, <1>4, <1>7, <1>8, <1>9 DEF LiveAs, Looks, Req!Request
<1> QED BY <1>0, <1>10, BecomesMoves

(* A transaction that is over leaves its request with nothing to do.        *)
LEMMA OverIdles ==
  ASSUME NEW q \in Req!Request, LiveAs(q, FALSE), q.ct # "no", NEW e,
         \/ e = [q EXCEPT !.ct = "no", !.qent = FALSE]
         \/ ~q.qent /\ e = [q EXCEPT !.ct = "no"]
  PROVE  Idles(e)
<1>1. /\ e \in Req!Request /\ e.ct = "no" /\ ~e.qent /\ e.life = q.life /\ e.told = q.told
      /\ e.outcome = q.outcome /\ e.untried = q.untried /\ e.port = q.port
      /\ e.addrl = q.addrl /\ e.dnsq = q.dnsq /\ e.dnsq2 = q.dnsq2
  BY DEF Req!Request
<1> QED BY <1>1 DEF Idles, LiveAs, Looks

(* A final response ends the request or sends it elsewhere.                 *)
LEMMA ResponseMoves ==
  ASSUME Req!Configuration, RequestsSound, NEW r \in Reqs, Req!response_handler(r)
  PROVE  Moves(r, FALSE) /\ ~rq[r].qent /\ busy' \in {None, r}
<1> DEFINE q == rq[r]
           e == [q EXCEPT !.ct = "no"]
<1>0. /\ None \notin Reqs /\ Req!Live(r) /\ busy = None /\ q.ct # "no" /\ ~q.qent
      /\ \/ Req!terminate(r, e, "answered") /\ UNCHANGED busy
         \/ Req!Failover(r, e, "failed")
  BY ConstantsAre DEF Req!response_handler, Req!Responding, Req!Free
<1>1. LiveAs(q, FALSE) /\ q \in Req!Request BY <1>0 DEF RequestsSound
<1>2. Idles(e) BY <1>0, <1>1, OverIdles
<1> HIDE DEF e
<1>3. CASE Req!terminate(r, e, "answered") /\ UNCHANGED busy
  <2>1. MayEnd(e, "answered") BY <1>2, LiveMayEnd DEF Idles, Outcomes
  <2> QED BY <1>0, <1>3, <2>1, TerminateMoves
<1>4. CASE Req!Failover(r, e, "failed")
  BY <1>0, <1>2, <1>4, FailoverMoves
<1> QED BY <1>0, <1>3, <1>4

(* transport_handler.                                                       *)
LEMMA TransportMoves ==
  ASSUME RequestsSound, None \notin Reqs, NEW r \in Reqs, Req!Live(r), busy = None, rq[r].ct # "no",
         Req!TransportFails(r)
  PROVE  Moves(r, FALSE) /\ busy' \in {None, r}
<1> DEFINE q == rq[r]
           e == [q EXCEPT !.ct = "no", !.qent = FALSE]
<1>1. LiveAs(q, FALSE) /\ q \in Req!Request BY DEF RequestsSound
<1>2. Idles(e) BY <1>1, OverIdles
<1>3. Req!Failover(r, e, "failed") BY DEF Req!TransportFails
<1> HIDE DEF e
<1> QED BY <1>2, <1>3, FailoverMoves

-----------------------------------------------------------------------------
(* Connections, and the list that is being walked.                          *)

ConnRecords == [state : {"none", "setup", "up"}, ql : Seq(Reqs), refs : 0..2]

WalkRecords ==
  [kind : {"no", "close", "estab", "abort1", "abort2", "over"}, d : Req!Targets \cup {None},
   q : Seq(Reqs), at : Reqs \cup {None}, le : Reqs \cup {None},
   held : BOOLEAN, calls : BOOLEAN, bad : BOOLEAN]

(* r has its message in the queue of d; or in the queue of a connection     *)
(* that is not found any more.  The entry a walk is at has been served.     *)
Waits(d, r) == In(conn[d].ql, r) /\ ~(walk.kind = "estab" /\ walk.d = d /\ r = walk.at)
Left(r) == In(walk.q, r) /\ r # walk.at

(* Each message that waits is in exactly one queue.                         *)
QueuesAgree ==
  /\ conn \in [Req!Targets -> ConnRecords] /\ walk \in WalkRecords
  /\ Req!IsInjective(walk.q) /\ \A d \in Req!Targets : Req!IsInjective(conn[d].ql)
  /\ \A r \in Reqs : rq[r].qent <=> (\E d \in Req!Targets : Waits(d, r)) \/ Left(r)
  /\ \A r \in Reqs, d, e \in Req!Targets : Waits(d, r) /\ Waits(e, r) => d = e
  /\ \A r \in Reqs, d \in Req!Targets : ~(Waits(d, r) /\ Left(r))

(* Who holds a connection: the list of connections, a message, and the      *)
(* walk that closes it.                                                     *)
HeldAgree ==
  /\ old \in [Req!Targets -> [refs : 0..2, why : {"no", "closed", "flushed", "lost"}]]
  /\ msg \in [Req!Targets -> {"no", "conn", "old"}]
  /\ \A d \in Req!Targets :
      /\ conn[d].refs = IF conn[d].state = "none" THEN 0 ELSE IF msg[d] = "conn" THEN 2 ELSE 1
      /\ msg[d] = "conn" => conn[d].state = "up"
      /\ old[d].why = "no" <=> msg[d] # "old"
      /\ old[d].refs = IF old[d].why \in {"no", "lost"} THEN 0
                       ELSE IF walk.kind = "close" /\ walk.d = d /\ walk.held THEN 2 ELSE 1
      /\ walk.kind = "close" /\ walk.held /\ walk.d = d => old[d].why = "closed"

(* A walk is at the first entry of q, and knows the one after it.           *)
Place(q) ==
  /\ walk.d \in Req!Targets
  /\ walk.at = None => walk.le = Nth(q, 1)
  /\ walk.at # None => q # <<>> /\ q[1] = walk.at /\ walk.le = Nth(q, 2)

Late == \A r \in Reqs : In(reql, r) => rq[r].late

(* The second walk of sip_close finds only requests made in the first one,  *)
(* whose users make no others.                                              *)
WalkAgree ==
  /\ ~walk.bad
  /\ \/ walk = Req!Idle
     \/ walk.kind = "close" /\ Place(walk.q)
     \/ /\ walk.kind = "estab" /\ walk.q = <<>> /\ Place(conn[walk.d].ql)
        /\ conn[walk.d].state = "up"
     \/ /\ walk.kind = "abort1" /\ walk.q = <<>> /\ busy = None
        /\ IF walk.le = None THEN Late ELSE walk.le = Nth(reql, 1)
     \/ /\ walk.kind = "abort2" /\ walk.q = <<>> /\ busy = None
        /\ Late /\ walk.le = Nth(reql, 1)
        /\ IF walk.at = None THEN ~walk.calls ELSE walk.at \in Reqs /\ rq[walk.at].late
     \/ walk.kind = "over" /\ walk.q = <<>> /\ busy = None /\ reql = <<>>

LEMMA EmptyList ==
  /\ <<>> \in Seq(Reqs) /\ Req!IsInjective(<<>>) /\ \A x : ~In(<<>>, x)
  /\ \A n \in Nat \ {0} : Nth(<<>>, n) = None
<1>1. Len(<<>>) = 0 /\ DOMAIN <<>> = {} OBVIOUS
<1> QED BY <1>1 DEF Req!IsInjective, In, Nth

LEMMA IdleWalk ==
  ASSUME walk = Req!Idle
  PROVE  /\ walk.kind = "no" /\ walk.q = <<>> /\ walk.at = None /\ walk.le = None
         /\ walk.held = FALSE /\ walk.bad = FALSE /\ walk.d = None
         /\ walk \in WalkRecords
BY EmptyList DEF Req!Idle, WalkRecords

LEMMA FreeIsIdle ==
  ASSUME WalkAgree, Req!Free
  PROVE  walk = Req!Idle /\ busy = None
BY DEF WalkAgree, Req!Free

(* No message is queued, sent or told of its fate.                          *)
LEMMA QueuesKept ==
  ASSUME QueuesAgree, NEW r \in Reqs, Moves(r, rq[r].qent), UNCHANGED <<conn, walk>>
  PROVE  QueuesAgree'
<1>1. \A s \in Reqs : rq'[s].qent = rq[s].qent BY DEF Moves
<1>2. \A s, d : Waits(d, s)' = Waits(d, s) BY DEF Waits
<1>3. \A s : Left(s)' = Left(s) BY DEF Left
<1> QED BY <1>1, <1>2, <1>3 DEF QueuesAgree

(* conn_send.                                                               *)
LEMMA SendKeeps ==
  ASSUME RequestsSound, QueuesAgree, HeldAgree, WalkAgree, NEW r \in Reqs, ~rq[r].qent, NEW t \in Req!Request,
         NEW d \in Req!Targets, Req!conn_send(r, t, d), None \notin Reqs,
         Moves(r, t.stateful /\ Req!Queues(t, d)), UNCHANGED <<old, msg, walk>>
  PROVE  /\ QueuesAgree' /\ HeldAgree'
         /\ walk.kind = "estab" => conn'[walk.d] = conn[walk.d]
<1>1. CASE ~Req!Queues(t, d)
  <2>1. UNCHANGED conn BY <1>1 DEF Req!conn_send
  <2>2. (t.stateful /\ Req!Queues(t, d)) = FALSE BY <1>1
  <2>3. rq[r].qent = FALSE
    <3>1. rq[r].qent \in BOOLEAN BY DEF RequestsSound, Req!Request
    <3> QED BY <3>1
  <2>4. Moves(r, rq[r].qent) BY <2>2, <2>3
  <2> QED BY <2>1, <2>4, QueuesKept DEF HeldAgree
<1>2. CASE Req!Queues(t, d)
  <2> DEFINE ql == IF t.stateful THEN Append(conn[d].ql, r) ELSE conn[d].ql
             c == [state |-> "setup", refs |-> 1, ql |-> ql]
  <2>1. conn[d].state # "up" BY <1>2 DEF Req!Queues
  <2>2. conn' = [conn EXCEPT ![d] = c] BY <1>2 DEF Req!conn_send
  <2>3. walk.kind = "estab" => walk.d # d
    <3> SUFFICES ASSUME walk.kind = "estab", walk.d = d PROVE FALSE OBVIOUS
    <3>1. conn[walk.d].state = "up" BY DEF WalkAgree, Req!Idle
    <3> QED BY <2>1, <3>1
  <2>4. ~In(conn[d].ql, r)
    <3>1. ~Waits(d, r) BY DEF QueuesAgree
    <3> QED BY <2>3, <3>1 DEF Waits
  <2>5. conn[d].ql \in Seq(Reqs) /\ Req!IsInjective(conn[d].ql)
    BY DEF QueuesAgree, ConnRecords
  <2>6. /\ ql \in Seq(Reqs) /\ Req!IsInjective(ql)
        /\ \A y : In(ql, y) <=> In(conn[d].ql, y) \/ (t.stateful /\ y = r)
    <3>1. CASE t.stateful BY <2>4, <2>5, <3>1, AppendedSound
    <3>2. CASE ~t.stateful BY <2>5, <3>2
    <3> QED BY <3>1, <3>2
  <2> HIDE DEF ql
  <2>7. c \in ConnRecords /\ c.state = "setup" /\ c.refs = 1 /\ c.ql = ql BY <2>6 DEF ConnRecords
  <2> HIDE DEF c
  <2>8. /\ conn' \in [Req!Targets -> ConnRecords] /\ conn'[d] = c
        /\ \A e \in Req!Targets \ {d} : conn'[e] = conn[e]
    BY <2>2, <2>7 DEF QueuesAgree
  <2>9. \A e \in Req!Targets : Req!IsInjective(conn'[e].ql)
    BY <2>6, <2>7, <2>8 DEF QueuesAgree
  <2>10. \A e \in Req!Targets, s \in Reqs :
           Waits(e, s)' <=> Waits(e, s) \/ (t.stateful /\ e = d /\ s = r)
    <3> SUFFICES ASSUME NEW e \in Req!Targets, NEW s \in Reqs
                 PROVE Waits(e, s)' <=> Waits(e, s) \/ (t.stateful /\ e = d /\ s = r)
      OBVIOUS
    <3>1. CASE e = d BY <2>3, <2>6, <2>7, <2>8, <3>1 DEF Waits
    <3>2. CASE e # d BY <2>8, <3>2 DEF Waits
    <3> QED BY <3>1, <3>2
  <2>11. \A s : Left(s)' <=> Left(s) BY DEF Left
  <2>12. rq'[r].qent <=> t.stateful BY <1>2 DEF Moves
  <2>13. \A s \in Reqs \ {r} : rq'[s] = rq[s] BY DEF Moves
  <2>14. \A e \in Req!Targets : ~Waits(e, r) BY DEF QueuesAgree
  <2>15. ~Left(r) BY DEF QueuesAgree
  <2>16. ASSUME NEW s \in Reqs
         PROVE /\ rq'[s].qent <=> (\E e \in Req!Targets : Waits(e, s)') \/ Left(s)'
               /\ \A e, f \in Req!Targets : Waits(e, s)' /\ Waits(f, s)' => e = f
               /\ \A e \in Req!Targets : ~(Waits(e, s)' /\ Left(s)')
    <3>1. CASE s = r BY <2>10, <2>11, <2>12, <2>14, <2>15, <3>1
    <3>2. CASE s # r
      <4>1. \A e \in Req!Targets : Waits(e, s)' <=> Waits(e, s) BY <2>10, <3>2
      <4>2. rq'[s].qent = rq[s].qent BY <2>13, <3>2
      <4> QED BY <2>11, <4>1, <4>2 DEF QueuesAgree
    <3> QED BY <3>1, <3>2
  <2>17. QueuesAgree' BY <2>8, <2>9, <2>16 DEF QueuesAgree
  <2>18. HeldAgree'
    <3>1. msg[d] # "conn" BY <2>1 DEF HeldAgree
    <3> QED BY <2>7, <2>8, <3>1 DEF HeldAgree
  <2>19. walk.kind = "estab" => conn'[walk.d] = conn[walk.d]
    <3> SUFFICES ASSUME walk.kind = "estab" PROVE conn'[walk.d] = conn[walk.d] OBVIOUS
    <3>1. walk.d \in Req!Targets BY DEF WalkAgree, Req!Idle, Place
    <3> QED BY <2>3, <2>8, <3>1
  <2> QED BY <2>17, <2>18, <2>19
<1> QED BY <1>1, <1>2

(* r is taken out of every queue, when no queue is walked.                  *)
LEMMA UnqueueKeeps ==
  ASSUME QueuesAgree, NEW r \in Reqs, Moves(r, FALSE), walk.kind # "estab", walk.q = <<>>,
         conn' = [d \in Req!Targets |-> [conn[d] EXCEPT !.ql = Req!Unlinked(@, r)]],
         walk' \in WalkRecords, walk'.kind # "estab", walk'.q = <<>>
  PROVE  QueuesAgree'
<1>1. ASSUME NEW d \in Req!Targets
      PROVE /\ conn'[d] \in ConnRecords /\ Req!IsInjective(conn'[d].ql)
            /\ \A y : In(conn'[d].ql, y) <=> In(conn[d].ql, y) /\ y # r
  <2> DEFINE ql == Req!Unlinked(conn[d].ql, r)
  <2>1. conn[d] \in ConnRecords /\ conn[d].ql \in Seq(Reqs) /\ Req!IsInjective(conn[d].ql)
    BY DEF QueuesAgree, ConnRecords
  <2>2. /\ ql \in Seq(Reqs) /\ Req!IsInjective(ql)
        /\ \A y : In(ql, y) <=> In(conn[d].ql, y) /\ y # r
    BY <2>1, UnlinkedSound
  <2>3. conn'[d] = [conn[d] EXCEPT !.ql = ql] OBVIOUS
  <2> HIDE DEF ql
  <2>4. conn'[d] \in ConnRecords /\ conn'[d].ql = ql BY <2>1, <2>2, <2>3 DEF ConnRecords
  <2> QED BY <2>2, <2>4
<1>2. conn' \in [Req!Targets -> ConnRecords] BY <1>1
<1>3. \A s : ~Left(s) /\ ~Left(s)' BY EmptyList DEF Left
<1>4. \A d \in Req!Targets, s \in Reqs : Waits(d, s)' <=> Waits(d, s) /\ s # r
  BY <1>1 DEF Waits
<1>5. ~rq'[r].qent /\ \A s \in Reqs \ {r} : rq'[s] = rq[s] BY DEF Moves
<1>6. Req!IsInjective(walk'.q) BY EmptyList
<1> QED BY <1>1, <1>2, <1>3, <1>4, <1>5, <1>6 DEF QueuesAgree

(* WalkRecords other than those of queues.                                        *)
LEMMA QueuesUnwalked ==
  ASSUME QueuesAgree, walk.kind # "estab", walk.q = <<>>, UNCHANGED rq,
         conn' \in [Req!Targets -> ConnRecords], \A d \in Req!Targets : conn'[d].ql = conn[d].ql,
         walk' \in WalkRecords, walk'.kind # "estab", walk'.q = <<>>
  PROVE  QueuesAgree'
<1>1. \A s : ~Left(s) /\ ~Left(s)' BY EmptyList DEF Left
<1>2. \A d \in Req!Targets, s \in Reqs : Waits(d, s)' <=> Waits(d, s) BY DEF Waits
<1>3. \A d \in Req!Targets : Req!IsInjective(conn'[d].ql) BY DEF QueuesAgree
<1>4. Req!IsInjective(walk'.q) BY EmptyList
<1> QED BY <1>1, <1>2, <1>3, <1>4 DEF QueuesAgree

(* All connections are let go of, and no message waits any more.            *)
LEMMA QueuesEmptied ==
  ASSUME \A r \in Reqs : ~rq'[r].qent, conn' = [d \in Req!Targets |-> Req!NoConn],
         walk' \in WalkRecords, walk'.q = <<>>
  PROVE  QueuesAgree'
<1>1. Req!NoConn \in ConnRecords /\ Req!NoConn.ql = <<>> BY EmptyList DEF Req!NoConn, ConnRecords
<1>2. conn' \in [Req!Targets -> ConnRecords] /\ \A d \in Req!Targets : conn'[d].ql = <<>> BY <1>1
<1>3. /\ \A s : ~Left(s)' 
      /\ \A s : \A d \in Req!Targets : ~Waits(d, s)'
  BY <1>2, EmptyList DEF Left, Waits
<1> QED BY <1>2, <1>3, EmptyList DEF QueuesAgree

-----------------------------------------------------------------------------
(* A walk of a queue.                                                       *)

ReqInv ==
  /\ RequestsSound /\ QueuesAgree /\ HeldAgree /\ WalkAgree
  /\ troubles \in 0..MaxTroubles

(* The entry a walk goes to next is still there, and is the first one.      *)
LEMMA WalkGoesOn ==
  ASSUME None \notin Reqs, walk \in WalkRecords, NEW q \in Seq(Reqs), Req!IsInjective(q), Place(q),
         walk.le # None
  PROVE  /\ walk.le \in Reqs /\ In(q, walk.le) /\ walk.le # walk.at
         /\ ~Req!Misused(q)
         /\ Req!Leaves(q, walk.at) \in Seq(Reqs) /\ Req!IsInjective(Req!Leaves(q, walk.at))
         /\ \A y \in Reqs : In(Req!Leaves(q, walk.at), y) <=> In(q, y) /\ y # walk.at
         /\ Req!Leaves(q, walk.at) # <<>> /\ Req!Leaves(q, walk.at)[1] = walk.le
         /\ Req!Contains(Req!Leaves(q, walk.at), walk.le)
         /\ Req!After(Req!Leaves(q, walk.at), walk.le) = Nth(Req!Leaves(q, walk.at), 2)
<1> DEFINE w == Req!Leaves(q, walk.at)
<1>0. Len(q) \in Nat /\ DOMAIN q = 1..Len(q) /\ (q = <<>> <=> Len(q) = 0) OBVIOUS
<1>1. walk.le \in Reqs BY DEF WalkRecords
<1>2. /\ w \in Seq(Reqs) /\ Req!IsInjective(w)
      /\ \A y \in Reqs : In(w, y) <=> In(q, y) /\ y # walk.at
      /\ Nth(w, 1) = walk.le
      /\ In(q, walk.le) /\ (walk.at # None => In(q, walk.at))
  <2>1. CASE walk.at = None
    <3>1. w = q /\ walk.le = Nth(q, 1) BY <2>1 DEF Req!Leaves, Place
    <3>2. 1 \in DOMAIN q /\ q[1] = walk.le BY <1>0, <3>1 DEF Nth
    <3>3. In(q, walk.le) BY <3>2 DEF In
    <3> QED BY <2>1, <3>1, <3>3
  <2>2. CASE walk.at # None
    <3>1. q # <<>> /\ q[1] = walk.at /\ walk.le = Nth(q, 2) BY <2>2 DEF Place
    <3>2. w = Req!Unlinked(q, walk.at) BY <2>2 DEF Req!Leaves
    <3>3. /\ w \in Seq(Reqs) /\ Req!IsInjective(w)
          /\ \A y : In(w, y) <=> In(q, y) /\ y # walk.at
          /\ \A n \in Nat \ {0} : Nth(w, n) = Nth(q, n + 1)
      BY <3>1, <3>2, UnlinkedSound
    <3>4. Nth(w, 1) = Nth(q, 2)
      <4>1. 1 + 1 = 2 /\ 1 \in Nat \ {0} OBVIOUS
      <4> QED BY <3>3, <4>1
    <3>5. 2 \in DOMAIN q /\ q[2] = walk.le BY <1>0, <3>1 DEF Nth
    <3>6. 1 \in DOMAIN q BY <1>0, <3>1
    <3>7. In(q, walk.le) /\ In(q, walk.at) BY <3>1, <3>5, <3>6 DEF In
    <3> QED BY <3>1, <3>3, <3>4, <3>7
  <2> QED BY <2>1, <2>2
<1> HIDE DEF w
<1>3. Len(w) \in Nat /\ DOMAIN w = 1..Len(w) /\ (w = <<>> <=> Len(w) = 0) BY <1>2
<1>4. 1 \in DOMAIN w /\ w[1] = walk.le BY <1>2, <1>3 DEF Nth
<1>5. w # <<>> BY <1>3, <1>4
<1>6. Req!After(w, walk.le) = Nth(w, 2)
  <2>1. Req!After(w, w[1]) = Nth(w, 1 + 1) BY <1>2, <1>4, AfterIsNext
  <2>2. 1 + 1 = 2 OBVIOUS
  <2> QED BY <1>4, <2>1, <2>2
<1>7. In(w, walk.le) BY <1>4 DEF In
<1>8. Req!Contains(w, walk.le) BY <1>2, <1>7, ContainsIsIn
<1>9. walk.le # walk.at BY <1>1, <1>2, <1>7
<1>10. ~Req!Misused(q) BY <1>2, ContainsIsIn DEF Req!Misused
<1> QED BY <1>1, <1>2, <1>4, <1>5, <1>6, <1>8, <1>9, <1>10 DEF w

(* When a walk ends nothing is left in its queue.                           *)
LEMMA WalkIsOver ==
  ASSUME None \notin Reqs, walk \in WalkRecords, NEW q \in Seq(Reqs), Req!IsInjective(q), Place(q),
         walk.le = None
  PROVE  /\ ~Req!Misused(q)
         /\ \A y \in Reqs : In(q, y) => y = walk.at
         /\ Req!Leaves(q, walk.at) \in Seq(Reqs) /\ Req!IsInjective(Req!Leaves(q, walk.at))
         /\ \A y \in Reqs : ~In(Req!Leaves(q, walk.at), y)
<1> DEFINE w == Req!Leaves(q, walk.at)
<1>0. Len(q) \in Nat /\ DOMAIN q = 1..Len(q) /\ (q = <<>> <=> Len(q) = 0) OBVIOUS
<1>1. \A i \in DOMAIN q : q[i] # None OBVIOUS
<1>2. CASE walk.at = None
  <2>1. w = q /\ Nth(q, 1) = None BY <1>2 DEF Req!Leaves, Place
  <2>2. Len(q) = 0 BY <1>0, <1>1, <2>1 DEF Nth
  <2>3. \A y : ~In(q, y) BY <1>0, <2>2 DEF In
  <2> QED BY <1>2, <2>1, <2>3 DEF Req!Misused
<1>3. CASE walk.at # None
  <2>1. q # <<>> /\ q[1] = walk.at /\ Nth(q, 2) = None BY <1>3 DEF Place
  <2>2. Len(q) = 1 BY <1>0, <1>1, <2>1 DEF Nth
  <2>3. \A y : In(q, y) => y = walk.at BY <1>0, <2>1, <2>2 DEF In
  <2>4. In(q, walk.at) BY <1>0, <2>1, <2>2 DEF In
  <2>5. w = Req!Unlinked(q, walk.at) BY <1>3 DEF Req!Leaves
  <2>6. /\ w \in Seq(Reqs) /\ Req!IsInjective(w)
        /\ \A y : In(w, y) <=> In(q, y) /\ y # walk.at
    BY <2>5, UnlinkedSound
  <2>7. ~Req!Misused(q) BY <2>4, ContainsIsIn DEF Req!Misused
  <2> QED BY <2>3, <2>6, <2>7
<1> QED BY <1>2, <1>3

LEMMA MovesOthers ==
  ASSUME NEW r, NEW waits, Moves(r, waits)
  PROVE  /\ RequestsSound' /\ rq'[r].qent = waits
         /\ \A s \in Reqs \ {r} : rq'[s].qent = rq[s].qent
BY DEF Moves

LEMMA RequestsUnchanged ==
  ASSUME RequestsSound, UNCHANGED <<rq, reql, busy>>
  PROVE  RequestsSound'
BY DEF RequestsSound, Req!Live

(* A connection is closed: a walk of its queue begins.                      *)
LEMMA CloseKeeps ==
  ASSUME Req!Configuration, ReqInv, NEW d \in Req!Targets, Req!conn_close(d)
  PROVE  ReqInv'
<1>0. None \notin Reqs /\ RequestsSound /\ QueuesAgree /\ HeldAgree /\ WalkAgree
  BY ConstantsAre DEF ReqInv
<1>1. /\ walk = Req!Idle /\ busy = None /\ UNCHANGED <<rq, reql, busy, troubles>>
      /\ conn' = [conn EXCEPT ![d] = Req!NoConn]
  BY <1>0, FreeIsIdle DEF Req!conn_close
<1> DEFINE ql == conn[d].ql
           first == IF ql = <<>> THEN None ELSE Head(ql)
           held == msg[d] = "conn"
<1>2. conn[d] \in ConnRecords /\ ql \in Seq(Reqs) /\ Req!IsInjective(ql) BY <1>0 DEF QueuesAgree, ConnRecords
<1>3. first = Nth(ql, 1) BY <1>2, FirstIs
<1>4. first \in Reqs \cup {None}
  <2>1. Len(ql) \in Nat /\ DOMAIN ql = 1..Len(ql) BY <1>2
  <2>2. 1 <= Len(ql) => ql[1] \in Reqs BY <1>2, <2>1
  <2> QED BY <1>3, <2>2 DEF Nth
<1>5. walk' = [Req!Idle EXCEPT !.kind = "close", !.d = d, !.q = ql, !.held = held,
                 !.calls = FALSE, !.le = first]
  BY DEF Req!conn_close
<1>6. held \in BOOLEAN OBVIOUS
<1> HIDE DEF ql, first, held
<1>7. walk' = [kind |-> "close", d |-> d, q |-> ql, at |-> None, le |-> first, held |-> held,
               calls |-> FALSE, bad |-> FALSE]
  BY <1>5 DEF Req!Idle
<1>8. walk' \in WalkRecords BY <1>2, <1>4, <1>6, <1>7 DEF WalkRecords
<1>9. /\ Req!NoConn \in ConnRecords /\ Req!NoConn.ql = <<>> /\ Req!NoConn.state = "none"
      /\ Req!NoConn.refs = 0
  BY EmptyList DEF Req!NoConn, ConnRecords
<1>10. /\ conn' \in [Req!Targets -> ConnRecords] /\ conn'[d] = Req!NoConn
       /\ \A e \in Req!Targets \ {d} : conn'[e] = conn[e]
  BY <1>0, <1>1, <1>9 DEF QueuesAgree
<1>11. QueuesAgree'
  <2>1. \A s \in Reqs : Left(s)' <=> Waits(d, s)
    BY <1>0, <1>1, <1>7, IdleWalk DEF Left, Waits, ql
  <2>2. \A s \in Reqs, e \in Req!Targets : Waits(e, s)' <=> Waits(e, s) /\ e # d
    BY <1>1, <1>7, <1>9, <1>10, EmptyList, IdleWalk DEF Waits
  <2>3. \A s : ~Left(s) BY <1>1, IdleWalk, EmptyList DEF Left
  <2>4. \A e \in Req!Targets : Req!IsInjective(conn'[e].ql)
    BY <1>0, <1>9, <1>10, EmptyList DEF QueuesAgree
  <2>5. Req!IsInjective(walk'.q) BY <1>2, <1>7
  <2>6. \A s \in Reqs : rq'[s].qent <=> (\E e \in Req!Targets : Waits(e, s)') \/ Left(s)'
    BY <1>0, <1>1, <2>1, <2>2, <2>3 DEF QueuesAgree
  <2>7. \A s \in Reqs, e, f \in Req!Targets : Waits(e, s)' /\ Waits(f, s)' => e = f
    BY <1>0, <2>2 DEF QueuesAgree
  <2>8. \A s \in Reqs, e \in Req!Targets : ~(Waits(e, s)' /\ Left(s)')
    BY <1>0, <2>1, <2>2 DEF QueuesAgree
  <2> QED BY <1>8, <1>10, <2>4, <2>5, <2>6, <2>7, <2>8 DEF QueuesAgree
<1>12. HeldAgree'
  <2>1. walk.kind = "no" BY <1>1, IdleWalk
  <2>2. CASE held
    <3>1. /\ old' = [old EXCEPT ![d] = [refs |-> conn[d].refs, why |-> "closed"]]
          /\ msg' = [msg EXCEPT ![d] = "old"] /\ msg[d] = "conn"
      BY <2>2 DEF Req!conn_close, held
    <3>2. conn[d].refs = 2 BY <1>0, <3>1 DEF HeldAgree
    <3>3. /\ old'[d] = [refs |-> 2, why |-> "closed"] /\ msg'[d] = "old"
          /\ \A e \in Req!Targets \ {d} : old'[e] = old[e] /\ msg'[e] = msg[e]
          /\ old' \in [Req!Targets -> [refs : 0..2, why : {"no", "closed", "flushed", "lost"}]]
          /\ msg' \in [Req!Targets -> {"no", "conn", "old"}]
      BY <1>0, <3>1, <3>2 DEF HeldAgree
    <3>4. walk'.kind = "close" /\ walk'.d = d /\ walk'.held BY <1>7, <2>2
    <3> QED BY <1>0, <1>9, <1>10, <2>1, <3>3, <3>4 DEF HeldAgree
  <2>3. CASE ~held
    <3>1. UNCHANGED <<old, msg>> BY <2>3 DEF Req!conn_close, held
    <3>2. walk'.kind = "close" /\ walk'.d = d /\ ~walk'.held BY <1>7, <2>3
    <3>3. msg[d] # "conn" BY <2>3 DEF held
    <3> QED BY <1>0, <1>9, <1>10, <2>1, <3>1, <3>2, <3>3 DEF HeldAgree
  <2> QED BY <2>2, <2>3
<1>13. WalkAgree'
  <2>1. Place(walk.q)' BY <1>3, <1>7 DEF Place, Nth
  <2> QED BY <1>7, <2>1 DEF WalkAgree
<1> QED BY <1>0, <1>1, <1>11, <1>12, <1>13, RequestsUnchanged DEF ReqInv

LEMMA TroublesTyped ==
  ASSUME Req!Configuration, troubles \in 0..MaxTroubles, UNCHANGED troubles \/ Req!Trouble
  PROVE  troubles' \in 0..MaxTroubles
BY ConstantsAre DEF Req!Trouble

(* The next entry is served.                                                *)
LEMMA CloseNextKeeps ==
  ASSUME Req!Configuration, ReqInv, Req!CloseNext
  PROVE  ReqInv'
<1> DEFINE r == walk.le
           q == Req!Leaves(walk.q, walk.at)
           le == IF Req!Contains(q, r) THEN Req!After(q, r) ELSE None
           bad == walk.bad \/ Req!Misused(walk.q)
<1>0. None \notin Reqs /\ RequestsSound /\ QueuesAgree /\ HeldAgree /\ WalkAgree
  BY ConstantsAre DEF ReqInv
<1>1. /\ walk.kind = "close" /\ r # None /\ busy = None /\ Req!TransportFails(r)
      /\ walk' = [walk EXCEPT !.q = q, !.at = r, !.calls = TRUE, !.bad = bad, !.le = le]
      /\ UNCHANGED <<conn, old, msg, troubles>>
  BY DEF Req!CloseNext
<1>2. Place(walk.q) /\ ~walk.bad BY <1>0, <1>1 DEF WalkAgree, Req!Idle
<1>3. walk \in WalkRecords /\ walk.q \in Seq(Reqs) /\ Req!IsInjective(walk.q) BY <1>0 DEF QueuesAgree, WalkRecords
<1>4. /\ r \in Reqs /\ In(walk.q, r) /\ r # walk.at /\ ~bad
      /\ q \in Seq(Reqs) /\ Req!IsInjective(q) /\ q # <<>> /\ q[1] = r /\ le = Nth(q, 2)
      /\ \A y \in Reqs : In(q, y) <=> In(walk.q, y) /\ y # walk.at
  BY <1>0, <1>1, <1>2, <1>3, WalkGoesOn
<1>5. le \in Reqs \cup {None}
  <2>1. Len(q) \in Nat /\ DOMAIN q = 1..Len(q) BY <1>4
  <2> QED BY <1>4, <2>1 DEF Nth
<1> HIDE DEF q, le, bad
<1>6. bad = FALSE BY <1>4 DEF bad
<1>7. /\ walk' \in WalkRecords /\ walk'.kind = "close" /\ walk'.d = walk.d /\ walk'.q = q /\ walk'.at = r
      /\ walk'.le = le /\ walk'.held = walk.held /\ walk'.bad = FALSE
  BY <1>1, <1>3, <1>4, <1>5, <1>6 DEF WalkRecords
<1>8. Left(r) BY <1>4 DEF Left
<1>9. rq[r].qent /\ (\A d \in Req!Targets : ~Waits(d, r)) BY <1>0, <1>4, <1>8 DEF QueuesAgree
<1>10. Req!Live(r) /\ rq[r].ct # "no"
  BY <1>0, <1>4, <1>9 DEF RequestsSound, LiveAs, Rests
<1> HIDE DEF r
<1>11. RequestsSound' /\ ~rq'[r].qent /\ \A s \in Reqs \ {r} : rq'[s].qent = rq[s].qent
  BY <1>0, <1>1, <1>4, <1>10, TransportMoves, MovesOthers
<1>12. \A d \in Req!Targets, s \in Reqs : Waits(d, s)' <=> Waits(d, s)
  BY <1>1, <1>7 DEF Waits
<1>13. \A s \in Reqs : Left(s)' <=> Left(s) /\ s # r
  BY <1>4, <1>7 DEF Left
<1>14. QueuesAgree'
  <2>1. \A s \in Reqs : rq'[s].qent <=> (\E d \in Req!Targets : Waits(d, s)') \/ Left(s)'
    BY <1>0, <1>9, <1>11, <1>12, <1>13 DEF QueuesAgree
  <2> QED BY <1>0, <1>1, <1>4, <1>7, <1>12, <1>13, <2>1 DEF QueuesAgree
<1>15. HeldAgree' BY <1>0, <1>1, <1>7 DEF HeldAgree
<1>16. WalkAgree'
  <2>1. Place(walk.q)' BY <1>0, <1>2, <1>4, <1>7 DEF Place, Nth
  <2> QED BY <1>7, <2>1 DEF WalkAgree
<1> QED BY <1>0, <1>1, <1>11, <1>14, <1>15, <1>16 DEF ReqInv

LEMMA WalkDone ==
  ASSUME walk' = [Req!Idle EXCEPT !.bad = FALSE]
  PROVE  walk' = Req!Idle /\ walk'.kind = "no" /\ walk'.q = <<>> /\ walk' \in WalkRecords
         /\ walk'.bad = FALSE
<1>1. walk' = Req!Idle BY DEF Req!Idle
<1> QED BY <1>1, EmptyList DEF Req!Idle, WalkRecords

(* All that waited has been told: the connection is let go of.              *)
LEMMA CloseEndsKeeps ==
  ASSUME Req!Configuration, ReqInv, Req!CloseEnds
  PROVE  ReqInv'
<1> DEFINE bad == walk.bad \/ Req!Misused(walk.q)
<1>0. None \notin Reqs /\ RequestsSound /\ QueuesAgree /\ HeldAgree /\ WalkAgree
  BY ConstantsAre DEF ReqInv
<1>1. /\ walk.kind = "close" /\ walk.le = None /\ busy = None
      /\ walk' = [Req!Idle EXCEPT !.bad = bad]
      /\ old' = [old EXCEPT ![walk.d].refs = IF walk.held THEN @ - 1 ELSE @]
      /\ UNCHANGED <<rq, reql, conn, msg, busy, troubles>>
  BY DEF Req!CloseEnds
<1>2. Place(walk.q) /\ ~walk.bad BY <1>0, <1>1 DEF WalkAgree, Req!Idle
<1>3. walk \in WalkRecords /\ walk.q \in Seq(Reqs) /\ Req!IsInjective(walk.q) BY <1>0 DEF QueuesAgree, WalkRecords
<1>4. ~bad /\ \A y \in Reqs : In(walk.q, y) => y = walk.at
  BY <1>0, <1>1, <1>2, <1>3, WalkIsOver
<1>5. bad = FALSE BY <1>4
<1> HIDE DEF bad
<1>6. walk' = Req!Idle /\ walk'.kind = "no" /\ walk'.q = <<>> /\ walk' \in WalkRecords /\ ~walk'.bad
  BY <1>1, <1>5, WalkDone
<1>7. \A s \in Reqs : ~Left(s) /\ ~Left(s)' BY <1>4, <1>6, EmptyList DEF Left
<1>8. \A s \in Reqs, d \in Req!Targets : Waits(d, s)' <=> Waits(d, s)
  BY <1>1, <1>6 DEF Waits
<1>9. QueuesAgree'
  <2>1. Req!IsInjective(walk'.q) BY <1>6, EmptyList
  <2> QED BY <1>0, <1>1, <1>6, <1>7, <1>8, <2>1 DEF QueuesAgree
<1>10. HeldAgree'
  <2> DEFINE d == walk.d
  <2>1. d \in Req!Targets BY <1>2 DEF Place
  <2>2. CASE walk.held
    <3>1. old[d].why = "closed" /\ old[d].refs = 2 BY <1>0, <1>1, <2>1, <2>2 DEF HeldAgree
    <3>2. old[d] \in [refs : 0..2, why : {"no", "closed", "flushed", "lost"}]
      BY <1>0, <2>1 DEF HeldAgree
    <3>3. [old[d] EXCEPT !.refs = 1] = [refs |-> 1, why |-> "closed"] BY <3>1, <3>2
    <3>4. /\ old'[d] = [refs |-> 1, why |-> "closed"] /\ \A e \in Req!Targets \ {d} : old'[e] = old[e]
          /\ old' \in [Req!Targets -> [refs : 0..2, why : {"no", "closed", "flushed", "lost"}]]
      <4>1. old' = [old EXCEPT ![d] = [old[d] EXCEPT !.refs = 1]]
        <5>1. 2 - 1 = 1 OBVIOUS
        <5>2. old' = [old EXCEPT ![d].refs = old[d].refs - 1] BY <1>0, <1>1, <2>1, <2>2 DEF HeldAgree
        <5> QED BY <3>1, <5>1, <5>2
      <4>2. old' = [old EXCEPT ![d] = [refs |-> 1, why |-> "closed"]] BY <3>3, <4>1
      <4> QED BY <1>0, <2>1, <4>2 DEF HeldAgree
    <3> HIDE DEF d
    <3>5. msg[d] = "old" BY <1>0, <2>1, <3>1 DEF HeldAgree
    <3>6. walk.d = d BY DEF d
    <3> QED BY <1>0, <1>1, <1>6, <3>1, <3>4, <3>5, <3>6 DEF HeldAgree
  <2>3. CASE ~walk.held
    <3>0. old[d] \in [refs : 0..2, why : {"no", "closed", "flushed", "lost"}]
      BY <1>0, <2>1 DEF HeldAgree
    <3>1. old' = old
      <4>1. [old[d] EXCEPT !.refs = old[d].refs] = old[d] BY <3>0
      <4>2. old' = [old EXCEPT ![d] = [old[d] EXCEPT !.refs = old[d].refs]] BY <1>1, <2>3
      <4>3. old' = [old EXCEPT ![d] = old[d]] BY <4>1, <4>2
      <4> DEFINE T == [refs : 0..2, why : {"no", "closed", "flushed", "lost"}]
      <4>4. old \in [Req!Targets -> T] BY <1>0 DEF HeldAgree
      <4> HIDE DEF T
      <4> QED BY <4>3, <4>4
    <3>2. UNCHANGED <<conn, msg>> /\ walk'.kind # "close" BY <1>1, <1>6
    <3> QED BY <1>0, <2>3, <3>1, <3>2 DEF HeldAgree
  <2> QED BY <2>2, <2>3
<1>11. WalkAgree' BY <1>6 DEF WalkAgree
<1> QED BY <1>0, <1>1, <1>9, <1>10, <1>11, RequestsUnchanged DEF ReqInv

(* A connection is up: a walk of its queue begins.                          *)
LEMMA EstabKeeps ==
  ASSUME Req!Configuration, ReqInv, NEW d \in Req!Targets, Req!tcp_estab_handler(d)
  PROVE  ReqInv'
<1>0. None \notin Reqs /\ RequestsSound /\ QueuesAgree /\ HeldAgree /\ WalkAgree
  BY ConstantsAre DEF ReqInv
<1>1. /\ walk = Req!Idle /\ busy = None /\ UNCHANGED <<rq, reql, busy, troubles, old, msg>>
      /\ conn' = [conn EXCEPT ![d].state = "up"] /\ conn[d].state = "setup"
  BY <1>0, FreeIsIdle DEF Req!tcp_estab_handler
<1> DEFINE ql == conn[d].ql
           first == IF ql = <<>> THEN None ELSE Head(ql)
<1>2. conn[d] \in ConnRecords /\ ql \in Seq(Reqs) /\ Req!IsInjective(ql) BY <1>0 DEF QueuesAgree, ConnRecords
<1>3. first = Nth(ql, 1) BY <1>2, FirstIs
<1>4. first \in Reqs \cup {None}
  <2>1. Len(ql) \in Nat /\ DOMAIN ql = 1..Len(ql) BY <1>2
  <2>2. 1 <= Len(ql) => ql[1] \in Reqs BY <1>2, <2>1
  <2> QED BY <1>3, <2>2 DEF Nth
<1>5. walk' = [Req!Idle EXCEPT !.kind = "estab", !.d = d, !.calls = FALSE, !.le = first]
  BY DEF Req!tcp_estab_handler
<1> DEFINE c == [conn[d] EXCEPT !.state = "up"]
<1>6. c \in ConnRecords /\ c.ql = ql /\ c.state = "up" /\ c.refs = conn[d].refs BY <1>2 DEF ConnRecords
<1>7. conn' = [conn EXCEPT ![d] = c] BY <1>0, <1>1 DEF QueuesAgree
<1> HIDE DEF first, c
<1>8. walk' = [kind |-> "estab", d |-> d, q |-> <<>>, at |-> None, le |-> first, held |-> FALSE,
               calls |-> FALSE, bad |-> FALSE]
  BY <1>5 DEF Req!Idle
<1>9. walk' \in WalkRecords BY <1>4, <1>8, EmptyList DEF WalkRecords
<1>10. /\ conn' \in [Req!Targets -> ConnRecords] /\ conn'[d] = c
       /\ \A e \in Req!Targets \ {d} : conn'[e] = conn[e]
  BY <1>0, <1>6, <1>7 DEF QueuesAgree
<1>11. \A e \in Req!Targets : conn'[e].ql = conn[e].ql BY <1>6, <1>10
<1>12. QueuesAgree'
  <2>1. \A s \in Reqs : ~Left(s) /\ ~Left(s)'
    BY <1>1, <1>8, EmptyList, IdleWalk DEF Left
  <2>2. \A s \in Reqs, e \in Req!Targets : Waits(e, s)' <=> Waits(e, s)
    BY <1>0, <1>1, <1>8, <1>11, IdleWalk DEF Waits
  <2>3. Req!IsInjective(walk'.q) BY <1>8, EmptyList
  <2>4. \A e \in Req!Targets : Req!IsInjective(conn'[e].ql) BY <1>0, <1>11 DEF QueuesAgree
  <2> QED BY <1>0, <1>1, <1>9, <1>10, <2>1, <2>2, <2>3, <2>4 DEF QueuesAgree
<1>13. HeldAgree'
  <2>1. walk.kind = "no" /\ walk'.kind = "estab" BY <1>1, <1>8, IdleWalk
  <2>2. msg[d] # "conn" BY <1>0, <1>1 DEF HeldAgree
  <2> QED BY <1>0, <1>1, <1>6, <1>10, <2>1, <2>2 DEF HeldAgree
<1>14. WalkAgree'
  <2>1. Place(conn[walk.d].ql)' BY <1>3, <1>6, <1>8, <1>10 DEF Place, Nth
  <2>2. conn'[walk'.d].state = "up" BY <1>6, <1>8, <1>10
  <2> QED BY <1>8, <2>1, <2>2 DEF WalkAgree
<1> QED BY <1>0, <1>1, <1>12, <1>13, <1>14, RequestsUnchanged DEF ReqInv

(* The message of r is sent.                                                *)
LEMMA DequeuedMoves ==
  ASSUME RequestsSound, None \notin Reqs, NEW r \in Reqs, Req!Live(r), busy = None, busy' = None,
         Req!Becomes(r, [rq[r] EXCEPT !.qent = FALSE])
  PROVE  Moves(r, FALSE)
<1> DEFINE q == rq[r]
           e == [q EXCEPT !.qent = FALSE]
<1>1. LiveAs(q, FALSE) /\ q \in Req!Request BY DEF RequestsSound
<1> HIDE DEF q
<1>2. /\ e \in Req!Request /\ e.ct = q.ct /\ e.qent = FALSE /\ e.life = q.life /\ e.told = q.told
      /\ e.outcome = q.outcome /\ e.untried = q.untried /\ e.port = q.port
      /\ e.addrl = q.addrl /\ e.srvl = q.srvl /\ e.dnsq = q.dnsq /\ e.dnsq2 = q.dnsq2
  BY <1>1 DEF Req!Request
<1>3. e.provrecv = q.provrecv /\ e.canceled = q.canceled /\ e.invite = q.invite
  BY <1>1 DEF Req!Request
<1>4. Req!Becomes(r, e) BY DEF q
<1> HIDE DEF e
<1>5. LiveAs(e, FALSE) BY <1>1, <1>2, <1>3 DEF LiveAs, Looks
<1>6. busy' # r OBVIOUS
<1>7. Moves(r, e.qent) BY <1>4, <1>5, <1>6, BecomesMoves
<1> QED BY <1>2, <1>7

(* The message of the next entry is sent, or cannot be.                     *)
LEMMA EstabNextKeeps ==
  ASSUME Req!Configuration, ReqInv, Req!EstabNext
  PROVE  ReqInv'
<1> DEFINE r == walk.le
           d == walk.d
           ql == conn[d].ql
           q == Req!Leaves(ql, walk.at)
           le == IF Req!Contains(q, r) THEN Req!After(q, r) ELSE None
           bad == walk.bad \/ Req!Misused(ql)
<1>0. None \notin Reqs /\ RequestsSound /\ QueuesAgree /\ HeldAgree /\ WalkAgree
  BY ConstantsAre DEF ReqInv
<1>1. walk.kind = "estab" /\ r # None /\ busy = None /\ UNCHANGED <<old, msg>>
  BY DEF Req!EstabNext
<1>2. Place(ql) /\ ~walk.bad /\ walk.q = <<>> /\ conn[d].state = "up" /\ d \in Req!Targets
  BY <1>0, <1>1 DEF WalkAgree, Req!Idle, Place
<1>3. walk \in WalkRecords /\ conn[d] \in ConnRecords /\ ql \in Seq(Reqs) /\ Req!IsInjective(ql)
  BY <1>0, <1>2 DEF QueuesAgree, ConnRecords
<1>4. /\ r \in Reqs /\ In(ql, r) /\ r # walk.at /\ ~bad
      /\ q \in Seq(Reqs) /\ Req!IsInjective(q) /\ q # <<>> /\ q[1] = r /\ le = Nth(q, 2)
      /\ \A y \in Reqs : In(q, y) <=> In(ql, y) /\ y # walk.at
  <2> HIDE DEF ql
  <2> QED BY <1>0, <1>1, <1>2, <1>3, WalkGoesOn
<1>5. le \in Reqs \cup {None}
  <2>1. Len(q) \in Nat /\ DOMAIN q = 1..Len(q) BY <1>4
  <2> HIDE DEF q, le
  <2> QED BY <1>4, <2>1 DEF Nth
<1>6. Req!Queue = ql BY <1>1 DEF Req!Queue
<1>7. PICK calls \in BOOLEAN :
        /\ walk' = [walk EXCEPT !.at = r, !.bad = bad, !.calls = calls, !.le = le]
        /\ conn' = [conn EXCEPT ![d].ql = q]
        /\ \/ /\ Req!Becomes(r, [rq[r] EXCEPT !.qent = FALSE])
              /\ UNCHANGED <<busy, troubles>>
           \/ Req!Trouble /\ Req!TransportFails(r)
  BY <1>6, Zenon DEF Req!EstabNext
<1>8. bad = FALSE BY <1>4
<1> HIDE DEF q, le, bad
<1> DEFINE c == [conn[d] EXCEPT !.ql = q]
<1>9. c \in ConnRecords /\ c.ql = q /\ c.state = "up" /\ c.refs = conn[d].refs
  BY <1>2, <1>3, <1>4 DEF ConnRecords
<1>10. conn' = [conn EXCEPT ![d] = c] BY <1>7
<1> HIDE DEF c
<1>11. /\ conn' \in [Req!Targets -> ConnRecords] /\ conn'[d] = c
       /\ \A e \in Req!Targets \ {d} : conn'[e] = conn[e]
  BY <1>0, <1>2, <1>9, <1>10 DEF QueuesAgree
<1>12. /\ walk' \in WalkRecords /\ walk'.kind = "estab" /\ walk'.d = d /\ walk'.q = <<>> /\ walk'.at = r
       /\ walk'.le = le /\ walk'.bad = FALSE
  BY <1>1, <1>2, <1>3, <1>4, <1>5, <1>7, <1>8 DEF WalkRecords
<1>13. Waits(d, r) BY <1>1, <1>4 DEF Waits
<1>14. rq[r].qent BY <1>0, <1>2, <1>4, <1>13 DEF QueuesAgree
<1>15. Req!Live(r) /\ rq[r].ct # "no" BY <1>0, <1>4, <1>14 DEF RequestsSound, LiveAs, Rests
<1> HIDE DEF r, d, ql
<1>16. Moves(r, FALSE)
  <2>1. CASE Req!Becomes(r, [rq[r] EXCEPT !.qent = FALSE]) /\ UNCHANGED busy
    BY <1>0, <1>1, <1>4, <1>15, <2>1, DequeuedMoves
  <2>2. CASE Req!TransportFails(r)
    BY <1>0, <1>1, <1>4, <1>15, <2>2, TransportMoves
  <2> QED BY <1>7, <2>1, <2>2
<1>17. RequestsSound' /\ ~rq'[r].qent /\ \A s \in Reqs \ {r} : rq'[s].qent = rq[s].qent
  BY <1>16, MovesOthers
<1>18. \A s \in Reqs : ~Left(s) /\ ~Left(s)' BY <1>2, <1>12, EmptyList DEF Left
<1>19. ASSUME NEW e \in Req!Targets, NEW s \in Reqs
       PROVE Waits(e, s)' <=> Waits(e, s) /\ ~(e = d /\ s = r)
  <2>1. walk.d = d /\ ql = conn[d].ql BY DEF d, ql
  <2>2. CASE e = d BY <1>1, <1>4, <1>9, <1>11, <1>12, <2>1, <2>2 DEF Waits
  <2>3. CASE e # d BY <1>11, <1>12, <2>1, <2>3 DEF Waits
  <2> QED BY <2>2, <2>3
<1>20. QueuesAgree'
  <2>1. \A e \in Req!Targets : Req!IsInjective(conn'[e].ql)
    BY <1>0, <1>4, <1>9, <1>11 DEF QueuesAgree
  <2>2. Req!IsInjective(walk'.q) BY <1>12, EmptyList
  <2>3. \A e \in Req!Targets : Waits(e, r) => e = d BY <1>0, <1>2, <1>4, <1>13 DEF QueuesAgree
  <2>4. \A e \in Req!Targets, s \in Reqs : Waits(e, s)' <=> Waits(e, s) /\ s # r
    BY <1>19, <2>3
  <2>5. \A s \in Reqs : rq'[s].qent <=> (\E e \in Req!Targets : Waits(e, s)') \/ Left(s)'
    BY <1>0, <1>17, <1>18, <2>4 DEF QueuesAgree
  <2> QED BY <1>0, <1>11, <1>12, <1>18, <2>1, <2>2, <2>4, <2>5 DEF QueuesAgree
<1>21. HeldAgree'
  <2>1. walk'.kind # "close" /\ walk.kind # "close" BY <1>1, <1>12
  <2>2. \A e \in Req!Targets : conn'[e].refs = conn[e].refs /\ conn'[e].state = conn[e].state
    BY <1>2, <1>9, <1>11 DEF d
  <2> QED BY <1>0, <1>1, <2>1, <2>2 DEF HeldAgree
<1>22. WalkAgree'
  <2>1. Place(conn[walk.d].ql)' BY <1>0, <1>2, <1>4, <1>9, <1>11, <1>12 DEF Place, Nth
  <2>2. conn'[walk'.d].state = "up" BY <1>9, <1>11, <1>12
  <2> QED BY <1>12, <2>1, <2>2 DEF WalkAgree
<1>23. troubles' \in 0..MaxTroubles
  <2>1. UNCHANGED troubles \/ Req!Trouble BY <1>7
  <2>2. troubles \in 0..MaxTroubles BY DEF ReqInv
  <2> QED BY <2>1, <2>2, TroublesTyped
<1> QED BY <1>17, <1>20, <1>21, <1>22, <1>23 DEF ReqInv

(* All that waited has been sent.                                           *)
LEMMA EstabEndsKeeps ==
  ASSUME Req!Configuration, ReqInv, Req!EstabEnds
  PROVE  ReqInv'
<1> DEFINE d == walk.d
           ql == conn[d].ql
           q == Req!Leaves(ql, walk.at)
           bad == walk.bad \/ Req!Misused(ql)
           c == [conn[d] EXCEPT !.ql = q]
<1>0. None \notin Reqs /\ RequestsSound /\ QueuesAgree /\ HeldAgree /\ WalkAgree
  BY ConstantsAre DEF ReqInv
<1>1. /\ walk.kind = "estab" /\ walk.le = None /\ busy = None
      /\ UNCHANGED <<rq, reql, old, msg, busy, troubles>>
      /\ conn' = [conn EXCEPT ![d] = c]
  BY DEF Req!EstabEnds
<1>2. Place(ql) /\ ~walk.bad /\ walk.q = <<>> /\ conn[d].state = "up" /\ d \in Req!Targets
  BY <1>0, <1>1 DEF WalkAgree, Req!Idle, Place
<1>3. walk \in WalkRecords /\ conn[d] \in ConnRecords /\ ql \in Seq(Reqs) /\ Req!IsInjective(ql)
  BY <1>0, <1>2 DEF QueuesAgree, ConnRecords
<1>4. walk' = [Req!Idle EXCEPT !.bad = bad]
  BY <1>1 DEF Req!EstabEnds, Req!Queue
<1>5. /\ ~bad /\ \A y \in Reqs : In(ql, y) => y = walk.at
      /\ q \in Seq(Reqs) /\ Req!IsInjective(q) /\ \A y \in Reqs : ~In(q, y)
  <2> HIDE DEF ql
  <2> QED BY <1>0, <1>1, <1>2, <1>3, WalkIsOver
<1>6. bad = FALSE BY <1>5
<1> HIDE DEF q, bad
<1>7. c \in ConnRecords /\ c.ql = q /\ c.state = conn[d].state /\ c.refs = conn[d].refs
  BY <1>3, <1>5 DEF ConnRecords
<1> HIDE DEF c
<1>8. /\ conn' \in [Req!Targets -> ConnRecords] /\ conn'[d] = c
      /\ \A e \in Req!Targets \ {d} : conn'[e] = conn[e]
  BY <1>0, <1>1, <1>2, <1>7 DEF QueuesAgree
<1>9. walk' = Req!Idle /\ walk'.kind = "no" /\ walk'.q = <<>> /\ walk' \in WalkRecords /\ ~walk'.bad
  BY <1>4, <1>6, WalkDone
<1>10. \A s \in Reqs : ~Left(s) /\ ~Left(s)' BY <1>2, <1>9, EmptyList DEF Left
<1>11. ASSUME NEW e \in Req!Targets, NEW s \in Reqs PROVE Waits(e, s)' <=> Waits(e, s)
  <2>1. CASE e = d BY <1>1, <1>5, <1>7, <1>8, <1>9, <2>1 DEF Waits
  <2>2. CASE e # d BY <1>8, <1>9, <2>2 DEF Waits
  <2> QED BY <2>1, <2>2
<1>12. QueuesAgree'
  <2>1. \A e \in Req!Targets : Req!IsInjective(conn'[e].ql)
    BY <1>0, <1>5, <1>7, <1>8 DEF QueuesAgree
  <2>2. Req!IsInjective(walk'.q) BY <1>9, EmptyList
  <2> QED BY <1>0, <1>1, <1>8, <1>9, <1>10, <1>11, <2>1, <2>2 DEF QueuesAgree
<1>13. HeldAgree'
  <2>1. walk'.kind # "close" /\ walk.kind # "close" BY <1>1, <1>9
  <2>2. \A e \in Req!Targets : conn'[e].refs = conn[e].refs /\ conn'[e].state = conn[e].state
    BY <1>7, <1>8
  <2> QED BY <1>0, <1>1, <2>1, <2>2 DEF HeldAgree
<1>14. WalkAgree' BY <1>9 DEF WalkAgree
<1> QED BY <1>0, <1>1, <1>12, <1>13, <1>14, RequestsUnchanged DEF ReqInv

-----------------------------------------------------------------------------
(* Connections that nothing walks.                                          *)

OldRecords == [refs : 0..2, why : {"no", "closed", "flushed", "lost"}]

(* uag_reset_transp: no message waits any more.                             *)
LEMMA FlushKeeps ==
  ASSUME Req!Configuration, ReqInv, Req!sip_transp_flush
  PROVE  ReqInv'
<1>0. RequestsSound /\ QueuesAgree /\ HeldAgree /\ WalkAgree /\ troubles \in 0..MaxTroubles
  BY DEF ReqInv
<1>1. /\ walk = Req!Idle /\ UNCHANGED <<reql, busy, walk>> /\ Req!Trouble /\ busy = None
      /\ conn' = [d \in Req!Targets |-> Req!NoConn]
      /\ rq' = [r \in Reqs |-> [rq[r] EXCEPT !.qent = FALSE]]
  BY <1>0, FreeIsIdle DEF Req!sip_transp_flush
<1>2. ASSUME NEW r \in Reqs
      PROVE  /\ rq'[r] \in Req!Request /\ rq'[r].qent = FALSE /\ rq'[r].late = rq[r].late
             /\ Req!Live(r)' <=> Req!Live(r)
             /\ IF Req!Live(r)' THEN LiveAs(rq'[r], FALSE) ELSE busy # r /\ Rests(rq'[r])
  <2> DEFINE q == rq[r]
             e == [q EXCEPT !.qent = FALSE]
  <2>1. q \in Req!Request /\ rq'[r] = e BY <1>0, <1>1 DEF RequestsSound
  <2>2. IF Req!Live(r) THEN LiveAs(q, FALSE) ELSE busy # r /\ Rests(q)
    <3>1. None \notin Reqs BY ConstantsAre
    <3>2. busy # r BY <1>1, <3>1
    <3> QED BY <1>0, <3>2 DEF RequestsSound
  <2>3. Req!Live(r) <=> q.life = "live" BY DEF Req!Live
  <2>4. Req!Live(r)' <=> rq'[r].life = "live" BY DEF Req!Live
  <2> HIDE DEF q
  <2>5. /\ e \in Req!Request /\ e.ct = q.ct /\ e.qent = FALSE /\ e.life = q.life /\ e.told = q.told
        /\ e.outcome = q.outcome /\ e.untried = q.untried /\ e.port = q.port
        /\ e.addrl = q.addrl /\ e.srvl = q.srvl /\ e.dnsq = q.dnsq /\ e.dnsq2 = q.dnsq2
    BY <2>1 DEF Req!Request
  <2>6. /\ e.provrecv = q.provrecv /\ e.canceled = q.canceled /\ e.invite = q.invite
        /\ e.tells = q.tells /\ e.late = q.late
    BY <2>1 DEF Req!Request
  <2> HIDE DEF e
  <2>7. LiveAs(q, FALSE) => LiveAs(e, FALSE) BY <2>5, <2>6 DEF LiveAs, Looks
  <2>8. Rests(q) => Rests(e) BY <2>5, <2>6 DEF Rests, Looks
  <2>9. e.late = rq[r].late BY <2>6 DEF q
  <2> QED BY <2>1, <2>2, <2>3, <2>4, <2>5, <2>7, <2>8, <2>9
<1>3. RequestsSound'
  <2>1. rq' \in [Reqs -> Req!Request] BY <1>1, <1>2
  <2>2. \A r \in Reqs : busy # r BY <1>1, ConstantsAre
  <2> QED BY <1>0, <1>1, <1>2, <2>1, <2>2 DEF RequestsSound
<1>4. walk' \in WalkRecords /\ walk'.q = <<>> /\ walk.kind = "no" BY <1>1, IdleWalk
<1>5. QueuesAgree' BY <1>1, <1>2, <1>4, QueuesEmptied
<1>6. HeldAgree'
  <2>1. Req!NoConn.refs = 0 /\ Req!NoConn.state = "none" BY DEF Req!NoConn
  <2>2. ASSUME NEW d \in Req!Targets
        PROVE /\ conn'[d].refs = 0 /\ conn'[d].state = "none"
              /\ old'[d] \in OldRecords /\ msg'[d] \in {"no", "old"}
              /\ old'[d].why = "no" <=> msg'[d] # "old"
              /\ old'[d].refs = IF old'[d].why \in {"no", "lost"} THEN 0 ELSE 1
    <3>1. CASE msg[d] = "conn"
      <4>1. conn[d].refs = 2 BY <1>0, <3>1 DEF HeldAgree
      <4>2. msg'[d] = "old" /\ old'[d] = [refs |-> conn[d].refs - 1, why |-> "flushed"]
        BY <3>1 DEF Req!sip_transp_flush
      <4>3. old'[d] = [refs |-> 1, why |-> "flushed"] BY <4>1, <4>2
      <4>4. conn'[d] = Req!NoConn BY <1>1
      <4>5. [refs |-> 1, why |-> "flushed"] \in OldRecords BY DEF OldRecords
      <4>6. old'[d].refs = 1 /\ old'[d].why = "flushed" /\ old'[d] \in OldRecords BY <4>3, <4>5
      <4>7. msg'[d] = "old" BY <4>2
      <4>8. conn'[d].refs = 0 /\ conn'[d].state = "none" BY <2>1, <4>4
      <4> HIDE DEF OldRecords
      <4> QED BY <4>6, <4>7, <4>8
    <3>2. CASE msg[d] # "conn"
      <4>1. msg'[d] = msg[d] /\ old'[d] = old[d] BY <3>2 DEF Req!sip_transp_flush
      <4> QED BY <1>0, <1>1, <1>4, <2>1, <3>2, <4>1 DEF HeldAgree, OldRecords
    <3> QED BY <3>1, <3>2
  <2>3. old' \in [Req!Targets -> OldRecords] /\ msg' \in [Req!Targets -> {"no", "conn", "old"}]
    <3>1. old' = [d \in Req!Targets |-> IF msg[d] = "conn" THEN [refs |-> conn[d].refs - 1, why |-> "flushed"]
                                        ELSE old[d]]
          /\ msg' = [d \in Req!Targets |-> IF msg[d] = "conn" THEN "old" ELSE msg[d]]
      BY DEF Req!sip_transp_flush
    <3> QED BY <2>2, <3>1
  <2>4. walk'.kind # "close" BY <1>1, <1>4
  <2> QED BY <2>2, <2>3, <2>4 DEF HeldAgree, OldRecords
<1>7. WalkAgree' BY <1>1, <1>4, IdleWalk DEF WalkAgree
<1>8. troubles' \in 0..MaxTroubles BY <1>0, <1>1, TroublesTyped
<1> QED BY <1>3, <1>5, <1>6, <1>7, <1>8 DEF ReqInv

(* A message that holds a connection comes, or is done with.                *)
LEMMA ServerKeeps ==
  ASSUME Req!Configuration, ReqInv, NEW d \in Req!Targets,
         Req!ServerTakes(d) \/ Req!ServerEnds(d) \/ Req!FlushedCloses(d)
  PROVE  ReqInv'
<1>0. RequestsSound /\ QueuesAgree /\ HeldAgree /\ WalkAgree /\ troubles \in 0..MaxTroubles
  BY DEF ReqInv
<1>1. /\ walk = Req!Idle /\ UNCHANGED <<rq, reql, busy, walk, troubles>>
  BY <1>0, FreeIsIdle DEF Req!ServerTakes, Req!ServerEnds, Req!FlushedCloses
<1>2. /\ conn \in [Req!Targets -> ConnRecords] /\ conn[d] \in ConnRecords
      /\ old \in [Req!Targets -> OldRecords] /\ old[d] \in OldRecords
      /\ msg \in [Req!Targets -> {"no", "conn", "old"}]
  BY <1>0 DEF QueuesAgree, HeldAgree, OldRecords
<1>3. walk.kind = "no" /\ walk.q = <<>> /\ walk \in WalkRecords BY <1>1, IdleWalk
<1>4. \A c \in ConnRecords : \A n \in 0..2 :
        LET x == [c EXCEPT !.refs = n]
        IN x \in ConnRecords /\ x.refs = n /\ x.state = c.state /\ x.ql = c.ql
  BY DEF ConnRecords
<1>5. \E n \in 0..2, m \in {"no", "conn", "old"}, o \in OldRecords :
         /\ conn' = [conn EXCEPT ![d] = [conn[d] EXCEPT !.refs = n]]
         /\ msg' = [msg EXCEPT ![d] = m] /\ old' = [old EXCEPT ![d] = o]
         /\ n = IF conn[d].state = "none" THEN 0 ELSE IF m = "conn" THEN 2 ELSE 1
         /\ m = "conn" => conn[d].state = "up"
         /\ o.why = "no" <=> m # "old"
         /\ o.refs = IF o.why \in {"no", "lost"} THEN 0 ELSE 1
  <2>0. /\ conn = [conn EXCEPT ![d] = [conn[d] EXCEPT !.refs = conn[d].refs]]
        /\ old = [old EXCEPT ![d] = old[d]] /\ msg = [msg EXCEPT ![d] = msg[d]]
    <3>1. [conn[d] EXCEPT !.refs = conn[d].refs] = conn[d] BY <1>2 DEF ConnRecords
    <3>2. conn = [conn EXCEPT ![d] = conn[d]]
      <4> HIDE DEF ConnRecords
      <4> QED BY <1>2
    <3>3. old = [old EXCEPT ![d] = old[d]] BY <1>2
    <3>4. msg = [msg EXCEPT ![d] = msg[d]] BY <1>2
    <3> QED BY <3>1, <3>2, <3>3, <3>4
  <2>1. /\ conn[d].refs \in 0..2
        /\ conn[d].refs = IF conn[d].state = "none" THEN 0 ELSE IF msg[d] = "conn" THEN 2 ELSE 1
        /\ msg[d] = "conn" => conn[d].state = "up"
        /\ old[d].why = "no" <=> msg[d] # "old"
        /\ old[d].refs = IF old[d].why \in {"no", "lost"} THEN 0 ELSE 1
    BY <1>0, <1>2, <1>3 DEF HeldAgree, ConnRecords
  <2>2. CASE Req!ServerTakes(d)
    <3>1. /\ conn[d].state = "up" /\ msg[d] = "no" /\ UNCHANGED old
          /\ msg' = [msg EXCEPT ![d] = "conn"]
          /\ conn' = [conn EXCEPT ![d] = [conn[d] EXCEPT !.refs = conn[d].refs + 1]]
      BY <2>2 DEF Req!ServerTakes
    <3>2. conn[d].refs + 1 = 2 BY <2>1, <3>1
    <3>3. /\ conn' = [conn EXCEPT ![d] = [conn[d] EXCEPT !.refs = 2]]
          /\ old' = [old EXCEPT ![d] = old[d]]
      BY <2>0, <3>1, <3>2
    <3>4. old[d].why = "no" <=> "conn" # "old" BY <2>1, <3>1
    <3>5. 2 \in 0..2 OBVIOUS
    <3> QED BY <1>2, <2>1, <3>1, <3>3, <3>4, <3>5
  <2>3. CASE Req!ServerEnds(d) /\ msg[d] = "conn"
    <3>1. /\ UNCHANGED old /\ msg' = [msg EXCEPT ![d] = "no"]
          /\ conn' = [conn EXCEPT ![d] = [conn[d] EXCEPT !.refs = conn[d].refs - 1]]
      BY <2>3 DEF Req!ServerEnds
    <3>2. conn[d].refs - 1 = 1 /\ conn[d].state # "none" BY <2>1, <2>3
    <3>3. /\ conn' = [conn EXCEPT ![d] = [conn[d] EXCEPT !.refs = 1]]
          /\ old' = [old EXCEPT ![d] = old[d]]
      BY <2>0, <3>1, <3>2
    <3>4. old[d].why = "no" <=> "no" # "old" BY <2>1, <2>3
    <3>5. 1 \in 0..2 OBVIOUS
    <3> QED BY <1>2, <2>1, <3>1, <3>2, <3>3, <3>4, <3>5
  <2>4. CASE Req!ServerEnds(d) /\ msg[d] # "conn"
    <3>1. /\ UNCHANGED conn /\ msg' = [msg EXCEPT ![d] = "no"]
          /\ old' = [old EXCEPT ![d] = Req!NoOld]
      BY <2>4 DEF Req!ServerEnds
    <3>2. conn' = [conn EXCEPT ![d] = [conn[d] EXCEPT !.refs = conn[d].refs]] BY <2>0, <3>1
    <3>3. Req!NoOld \in OldRecords /\ Req!NoOld.refs = 0 /\ Req!NoOld.why = "no" BY DEF Req!NoOld, OldRecords
    <3>4. conn[d].refs = IF conn[d].state = "none" THEN 0 ELSE IF "no" = "conn" THEN 2 ELSE 1
      BY <2>1, <2>4
    <3> QED BY <2>1, <3>1, <3>2, <3>3, <3>4
  <2>5. CASE Req!FlushedCloses(d)
    <3> DEFINE o == [refs |-> old[d].refs - 1, why |-> "lost"]
    <3>1. /\ UNCHANGED <<conn, msg>> /\ old[d].why = "flushed" /\ old' = [old EXCEPT ![d] = o]
      BY <2>5 DEF Req!FlushedCloses
    <3>2. old[d].refs = 1 BY <2>1, <3>1
    <3>3. o \in OldRecords /\ o.refs = 0 /\ o.why = "lost" BY <3>2 DEF OldRecords
    <3>4. /\ conn' = [conn EXCEPT ![d] = [conn[d] EXCEPT !.refs = conn[d].refs]]
          /\ msg' = [msg EXCEPT ![d] = msg[d]]
      BY <2>0, <3>1
    <3>5. msg[d] = "old" /\ msg[d] \in {"no", "conn", "old"} BY <2>1, <3>1
    <3> HIDE DEF o
    <3> QED BY <2>1, <3>1, <3>3, <3>4, <3>5
  <2> QED BY <2>2, <2>3, <2>4, <2>5
<1>6. PICK n \in 0..2, m \in {"no", "conn", "old"}, o \in OldRecords :
         /\ conn' = [conn EXCEPT ![d] = [conn[d] EXCEPT !.refs = n]]
         /\ msg' = [msg EXCEPT ![d] = m] /\ old' = [old EXCEPT ![d] = o]
         /\ n = IF conn[d].state = "none" THEN 0 ELSE IF m = "conn" THEN 2 ELSE 1
         /\ m = "conn" => conn[d].state = "up"
         /\ o.why = "no" <=> m # "old"
         /\ o.refs = IF o.why \in {"no", "lost"} THEN 0 ELSE 1
  BY <1>5
<1> DEFINE c == [conn[d] EXCEPT !.refs = n]
<1>7. c \in ConnRecords /\ c.refs = n /\ c.state = conn[d].state /\ c.ql = conn[d].ql BY <1>2, <1>4
<1>8. conn' = [conn EXCEPT ![d] = c] BY <1>6
<1> HIDE DEF c
<1>9. /\ conn' \in [Req!Targets -> ConnRecords] /\ conn'[d] = c
      /\ old' \in [Req!Targets -> OldRecords] /\ old'[d] = o
      /\ msg' \in [Req!Targets -> {"no", "conn", "old"}] /\ msg'[d] = m
      /\ \A e \in Req!Targets \ {d} : conn'[e] = conn[e] /\ msg'[e] = msg[e] /\ old'[e] = old[e]
  BY <1>2, <1>6, <1>7, <1>8
<1>10. QueuesAgree'
  <2>1. \A e \in Req!Targets : conn'[e].ql = conn[e].ql BY <1>7, <1>9
  <2> QED BY <1>0, <1>1, <1>3, <1>9, <2>1, QueuesUnwalked
<1>11. HeldAgree'
  <2>1. walk'.kind # "close" /\ walk.kind # "close" BY <1>1, <1>3
  <2> QED BY <1>0, <1>6, <1>7, <1>9, <2>1 DEF HeldAgree, OldRecords
<1>12. WalkAgree' BY <1>1, <1>3, IdleWalk DEF WalkAgree
<1> QED BY <1>0, <1>1, <1>10, <1>11, <1>12, RequestsUnchanged DEF ReqInv

-----------------------------------------------------------------------------
(* sip_close.                                                               *)

LEMMA NoneFirst ==
  ASSUME None \notin Reqs, NEW s \in Seq(Reqs), Nth(s, 1) = None
  PROVE  s = <<>> /\ \A y : ~In(s, y)
<1>1. Len(s) \in Nat /\ DOMAIN s = 1..Len(s) /\ (s = <<>> <=> Len(s) = 0)
      /\ \A i \in DOMAIN s : s[i] \in Reqs
  OBVIOUS
<1>2. Len(s) = 0 BY <1>1 DEF Nth
<1> QED BY <1>1, <1>2 DEF In

(* The first walk of the list of requests begins.                           *)
LEMMA SipCloseKeeps ==
  ASSUME Req!Configuration, ReqInv, Req!sip_close
  PROVE  ReqInv'
<1>0. /\ RequestsSound /\ QueuesAgree /\ HeldAgree /\ WalkAgree /\ troubles \in 0..MaxTroubles
      /\ None \notin Reqs
  BY ConstantsAre DEF ReqInv
<1>1. walk = Req!Idle /\ busy = None /\ UNCHANGED <<rq, reql, conn, old, msg, busy, troubles>>
  BY <1>0, FreeIsIdle DEF Req!sip_close
<1> DEFINE first == IF reql = <<>> THEN None ELSE Head(reql)
<1>2. reql \in Seq(Reqs) BY <1>0 DEF RequestsSound
<1>3. first = Nth(reql, 1) BY <1>2, FirstIs
<1>4. first \in Reqs \cup {None}
  <2>1. Len(reql) \in Nat /\ DOMAIN reql = 1..Len(reql) BY <1>2
  <2>2. 1 <= Len(reql) => reql[1] \in Reqs BY <1>2, <2>1
  <2> QED BY <1>3, <2>2 DEF Nth
<1>5. walk' = [Req!Idle EXCEPT !.kind = "abort1", !.calls = FALSE, !.le = first]
  BY DEF Req!sip_close
<1> HIDE DEF first
<1>6. /\ walk' \in WalkRecords /\ walk'.kind = "abort1" /\ walk'.q = <<>> /\ walk'.le = first
      /\ walk'.bad = FALSE
  BY <1>4, <1>5, EmptyList DEF Req!Idle, WalkRecords
<1>7. walk.kind = "no" /\ walk.q = <<>> BY <1>1, IdleWalk
<1>8. QueuesAgree'
  <2>1. conn' \in [Req!Targets -> ConnRecords] BY <1>0, <1>1 DEF QueuesAgree
  <2> QED BY <1>0, <1>1, <1>6, <1>7, <2>1, QueuesUnwalked
<1>9. HeldAgree' BY <1>0, <1>1, <1>6, <1>7 DEF HeldAgree
<1>10. WalkAgree'
  <2>1. first = None => Late' BY <1>0, <1>1, <1>2, <1>3, NoneFirst DEF Late
  <2> QED BY <1>1, <1>3, <1>6, <2>1 DEF WalkAgree, Nth
<1> QED BY <1>0, <1>1, <1>8, <1>9, <1>10, RequestsUnchanged DEF ReqInv

(* close_handler ends the first request of the list and goes to the next.   *)
LEMMA CloseHandlerKeeps ==
  ASSUME Req!Configuration, ReqInv, Req!close_handler
  PROVE  ReqInv'
<1> DEFINE r == walk.le
           bad == walk.bad \/ ~Req!Contains(reql, r)
           le == IF Req!Contains(reql, r) THEN Req!After(reql, r) ELSE None
<1>0. /\ RequestsSound /\ QueuesAgree /\ HeldAgree /\ WalkAgree /\ troubles \in 0..MaxTroubles
      /\ None \notin Reqs
  BY ConstantsAre DEF ReqInv
<1>1. /\ walk.kind \in {"abort1", "abort2"} /\ busy = None /\ r # None
      /\ walk' = [walk EXCEPT !.at = r, !.calls = TRUE, !.bad = bad, !.le = le]
      /\ Req!terminate(r, rq[r], "aborted")
      /\ conn' = [d \in Req!Targets |-> [conn[d] EXCEPT !.ql = Req!Unlinked(@, r)]]
      /\ UNCHANGED <<old, msg, busy, troubles>>
  BY DEF Req!close_handler
<1>2. /\ ~walk.bad /\ walk.q = <<>> /\ r = Nth(reql, 1)
      /\ walk.kind = "abort2" => Late
  BY <1>0, <1>1 DEF WalkAgree, Req!Idle
<1>3. walk \in WalkRecords /\ r \in Reqs BY <1>0, <1>1 DEF QueuesAgree, WalkRecords
<1>4. reql \in Seq(Reqs) /\ Req!IsInjective(reql) BY <1>0 DEF RequestsSound
<1>5. Len(reql) \in Nat /\ DOMAIN reql = 1..Len(reql) /\ (reql = <<>> <=> Len(reql) = 0) BY <1>4
<1>6. 1 \in DOMAIN reql /\ reql[1] = r /\ reql # <<>> BY <1>1, <1>2, <1>5 DEF Nth
<1>7. In(reql, r) /\ Req!Contains(reql, r) BY <1>4, <1>6, ContainsIsIn DEF In
<1>8. reql' = Req!Unlinked(reql, r) BY <1>1 DEF Req!terminate
<1>9. /\ reql' \in Seq(Reqs) /\ \A y : In(reql', y) <=> In(reql, y) /\ y # r
      /\ Nth(reql', 1) = Nth(reql, 2)
  <2> HIDE DEF r, le, bad
  <2>1. \A n \in Nat \ {0} : Nth(Req!Unlinked(reql, r), n) = Nth(reql, n + 1)
    BY <1>4, <1>6, UnlinkedSound
  <2>2. 1 + 1 = 2 /\ 1 \in Nat \ {0} OBVIOUS
  <2> QED BY <1>4, <1>8, <2>1, <2>2, UnlinkedSound
<1>10. le = Nth(reql, 2)
  <2>1. Req!After(reql, reql[1]) = Nth(reql, 1 + 1) BY <1>4, <1>6, AfterIsNext
  <2>2. 1 + 1 = 2 OBVIOUS
  <2> QED BY <1>6, <1>7, <2>1, <2>2
<1>11. bad = FALSE BY <1>2, <1>7
<1>12. le \in Reqs \cup {None}
  <2>1. 2 \in DOMAIN reql => reql[2] \in Reqs BY <1>4
  <2> HIDE DEF le
  <2> QED BY <1>10, <2>1 DEF Nth
<1> HIDE DEF bad, le
<1>13. /\ walk' \in WalkRecords /\ walk'.kind = walk.kind /\ walk'.q = <<>> /\ walk'.at = r
       /\ walk'.le = le /\ walk'.bad = FALSE
  BY <1>1, <1>2, <1>3, <1>11, <1>12 DEF WalkRecords
<1> HIDE DEF r
<1>14. Req!Live(r) BY <1>0, <1>3, <1>7 DEF RequestsSound
<1>15. Moves(r, FALSE) /\ rq'[r].late = rq[r].late
  <2>1. MayEnd(rq[r], "aborted")
    <3>1. LiveAs(rq[r], busy = r) BY <1>0, <1>3, <1>14 DEF RequestsSound
    <3>2. "aborted" \in Outcomes \ {"failed"} BY DEF Outcomes
    <3> QED BY <3>1, <3>2, LiveMayEnd DEF LiveAs
  <2>2. busy' = None BY <1>1
  <2> QED BY <1>0, <1>1, <1>3, <1>14, <2>1, <2>2, TerminateMoves
<1>16. RequestsSound' /\ \A s \in Reqs \ {r} : rq'[s] = rq[s] BY <1>15 DEF Moves
<1>17. QueuesAgree'
  <2>1. walk.kind # "estab" /\ walk'.kind # "estab" BY <1>1, <1>13
  <2> QED BY <1>0, <1>1, <1>2, <1>3, <1>13, <1>15, <2>1, UnqueueKeeps
<1>18. HeldAgree'
  <2>1. walk'.kind # "close" /\ walk.kind # "close" BY <1>1, <1>13
  <2>2. \A e \in Req!Targets : conn'[e].refs = conn[e].refs /\ conn'[e].state = conn[e].state
    <3>1. \A e \in Req!Targets : conn[e] \in ConnRecords BY <1>0 DEF QueuesAgree
    <3> QED BY <1>1, <3>1 DEF ConnRecords
  <2> QED BY <1>0, <1>1, <2>1, <2>2 DEF HeldAgree
<1>19. WalkAgree'
  <2>1. Late => Late' BY <1>9, <1>16 DEF Late
  <2>2. le = None => Late' BY <1>0, <1>9, <1>10, NoneFirst DEF Late
  <2>3. le = Nth(reql', 1) BY <1>9, <1>10
  <2>4. walk.kind = "abort2" => rq'[r].late BY <1>2, <1>3, <1>7, <1>15 DEF Late
  <2>5. busy' = None /\ r # None BY <1>1 DEF r
  <2>6. CASE walk.kind = "abort1" BY <1>13, <2>2, <2>3, <2>5, <2>6 DEF WalkAgree, Nth
  <2>7. CASE walk.kind = "abort2"
    BY <1>2, <1>3, <1>13, <2>1, <2>3, <2>4, <2>5, <2>7 DEF WalkAgree, Nth
  <2> QED BY <1>1, <2>6, <2>7
<1> QED BY <1>0, <1>1, <1>16, <1>17, <1>18, <1>19 DEF ReqInv

(* The second walk begins, or the stack is freed.                           *)
LEMMA CloseAgainKeeps ==
  ASSUME Req!Configuration, ReqInv, Req!CloseAgain
  PROVE  ReqInv'
<1>0. /\ RequestsSound /\ QueuesAgree /\ HeldAgree /\ WalkAgree /\ troubles \in 0..MaxTroubles
      /\ None \notin Reqs
  BY ConstantsAre DEF ReqInv
<1>1. /\ walk.kind \in {"abort1", "abort2"} /\ busy = None /\ walk.le = None
      /\ UNCHANGED <<rq, reql, busy, troubles>>
  BY DEF Req!CloseAgain
<1>2. ~walk.bad /\ walk.q = <<>> /\ Late /\ (walk.kind = "abort2" => Nth(reql, 1) = None)
  BY <1>0, <1>1 DEF WalkAgree, Req!Idle
<1>3. walk \in WalkRecords BY <1>0 DEF QueuesAgree
<1>4. reql \in Seq(Reqs) BY <1>0 DEF RequestsSound
<1>5. CASE walk.kind = "abort1"
  <2> DEFINE first == IF reql = <<>> THEN None ELSE Head(reql)
  <2>1. first = Nth(reql, 1) BY <1>4, FirstIs
  <2>2. first \in Reqs \cup {None}
    <3>1. Len(reql) \in Nat /\ DOMAIN reql = 1..Len(reql) BY <1>4
    <3>2. 1 <= Len(reql) => reql[1] \in Reqs BY <1>4, <3>1
    <3> QED BY <2>1, <3>2 DEF Nth
  <2>3. /\ walk' = [walk EXCEPT !.kind = "abort2", !.at = None, !.calls = FALSE, !.le = first]
        /\ UNCHANGED <<conn, old, msg>>
    BY <1>5 DEF Req!CloseAgain
  <2> HIDE DEF first
  <2>4. /\ walk' \in WalkRecords /\ walk'.kind = "abort2" /\ walk'.q = <<>> /\ walk'.le = first
        /\ walk'.bad = FALSE /\ walk'.at = None /\ ~walk'.calls
    BY <1>2, <1>3, <2>2, <2>3 DEF WalkRecords
  <2>5. QueuesAgree'
    <3>1. conn' \in [Req!Targets -> ConnRecords] BY <1>0, <2>3 DEF QueuesAgree
    <3> QED BY <1>0, <1>1, <1>2, <1>5, <2>3, <2>4, <3>1, QueuesUnwalked
  <2>6. HeldAgree' BY <1>0, <1>5, <2>3, <2>4 DEF HeldAgree
  <2>7. WalkAgree' BY <1>1, <1>2, <2>1, <2>4 DEF WalkAgree, Late, Nth, In
  <2> QED BY <1>0, <1>1, <2>5, <2>6, <2>7, RequestsUnchanged DEF ReqInv
<1>6. CASE walk.kind = "abort2"
  <2>1. reql = <<>> /\ \A y : ~In(reql, y) BY <1>0, <1>2, <1>4, <1>6, NoneFirst
  <2>2. walk' = [walk EXCEPT !.kind = "over", !.at = None] /\ Req!Flushed
    BY <1>6 DEF Req!CloseAgain
  <2>3. /\ walk' \in WalkRecords /\ walk'.kind = "over" /\ walk'.q = <<>> /\ walk'.bad = FALSE
    BY <1>2, <1>3, <2>2 DEF WalkRecords
  <2>4. \A r \in Reqs : ~rq'[r].qent BY <1>0, <1>1, <2>1 DEF RequestsSound, Rests
  <2>5. QueuesAgree' BY <2>2, <2>3, <2>4, QueuesEmptied DEF Req!Flushed
  <2>6. HeldAgree'
    <3>1. /\ \A d \in Req!Targets : conn'[d] = Req!NoConn /\ old'[d] = Req!NoOld /\ msg'[d] = "no"
      BY <2>2 DEF Req!Flushed
    <3>2. Req!NoConn.refs = 0 /\ Req!NoConn.state = "none" BY DEF Req!NoConn
    <3>3. Req!NoOld.refs = 0 /\ Req!NoOld.why = "no" /\ Req!NoOld \in OldRecords BY DEF Req!NoOld, OldRecords
    <3>4. old' \in [Req!Targets -> OldRecords] /\ msg' \in [Req!Targets -> {"no", "conn", "old"}]
      BY <2>2, <3>3 DEF Req!Flushed
    <3> QED BY <2>3, <3>1, <3>2, <3>3, <3>4 DEF HeldAgree, OldRecords
  <2>7. WalkAgree' BY <1>1, <2>1, <2>3 DEF WalkAgree
  <2> QED BY <1>0, <1>1, <2>5, <2>6, <2>7, RequestsUnchanged DEF ReqInv
<1> QED BY <1>1, <1>5, <1>6

-----------------------------------------------------------------------------
(* A request is made.                                                       *)

Fresh(q) ==
  /\ q \in Req!Request /\ q.life = "live" /\ q.told = 0 /\ q.outcome = "none"
  /\ ~Looks(q) /\ q.ct = "no" /\ ~q.qent /\ ~q.dnsq2
  /\ q.untried = {} /\ q.addrl = {} /\ q.srvl = {}
  /\ (q.late <=> walk.kind \in {"abort1", "abort2"})

(* What a request is when it is made.                                       *)
LEMMA MadeIs ==
  ASSUME Req!Configuration, NEW k, NEW stateful \in BOOLEAN, NEW inv \in BOOLEAN,
         NEW tp \in Supported \cup {None}
  PROVE  Fresh(Req!Made(k, stateful, inv, tp))
<1> DEFINE q == Req!Made(k, stateful, inv, tp)
           t == IF tp = None THEN Req!transp_next(Req!NoTransp) ELSE tp
           selected == k = "name" /\ tp # None
           late == walk.kind \in {"abort1", "abort2"}
<1>2. t \in Req!NoTransp..Req!TranspC BY TransportsAre
<1>3. selected \in BOOLEAN /\ late \in BOOLEAN OBVIOUS
<1>4. q = [Req!Unused EXCEPT !.life = "live", !.stateful = stateful, !.invite = inv,
             !.owner = stateful, !.tells = stateful, !.tp = t, !.tp_selected = selected,
             !.late = late]
  BY DEF Req!Made
<1> HIDE DEF q, t, selected, late
<1>5. Req!Unused \in Req!Request
  BY DEF Req!Request, Req!Unused, Req!NoTransp, Req!TranspC, Req!Targets
<1>6. /\ q.life = "live" /\ q.told = 0 /\ q.outcome = "none" /\ ~Looks(q) /\ q.ct = "no" /\ ~q.qent
      /\ ~q.dnsq2 /\ q.untried = {} /\ q.addrl = {} /\ q.srvl = {} /\ q.late = late
  BY <1>4 DEF Req!Unused, Looks
<1> DEFINE u == Req!Unused
<1>7. u \in Req!Request /\ q = [u EXCEPT !.life = "live", !.stateful = stateful, !.invite = inv,
             !.owner = stateful, !.tells = stateful, !.tp = t, !.tp_selected = selected,
             !.late = late]
  BY <1>4, <1>5
<1> HIDE DEF u
<1>8. [u EXCEPT !.life = "live", !.stateful = stateful, !.invite = inv,
             !.owner = stateful, !.tells = stateful, !.tp = t, !.tp_selected = selected,
             !.late = late] \in Req!Request
  <2>1. u \in Req!Request /\ t \in Req!NoTransp..Req!TranspC /\ selected \in BOOLEAN /\ late \in BOOLEAN
    BY <1>2, <1>3, <1>7
  <2> QED BY <2>1 DEF Req!Request
<1>9. q \in Req!Request BY <1>7, <1>8
<1> QED BY <1>6, <1>9 DEF q, late, Fresh

(* It is under way, or over at once.                                        *)
LEMMA BeginMoves ==
  ASSUME RequestsSound, NEW r \in Reqs, rq[r].life = "unused", NEW q, None \notin Reqs,
         rq' = [rq EXCEPT ![r] = q], busy = None, busy' = None,
         \/ LiveAs(q, FALSE) /\ reql' = Append(reql, r)
         \/ Rests(q) /\ UNCHANGED reql
  PROVE  Moves(r, q.qent) /\ rq'[r] = q
<1>1. q \in Req!Request BY DEF LiveAs, Rests
<1>2. /\ rq' \in [Reqs -> Req!Request] /\ rq'[r] = q
      /\ \A s \in Reqs \ {r} : rq'[s] = rq[s]
  BY <1>1 DEF RequestsSound
<1>3. ~Req!Live(r) BY DEF Req!Live
<1>4. reql \in Seq(Reqs) /\ Req!IsInjective(reql) /\ ~In(reql, r) BY <1>3 DEF RequestsSound
<1>5. /\ reql' \in Seq(Reqs) /\ Req!IsInjective(reql')
      /\ \A y : In(reql', y) <=> In(reql, y) \/ (q.life = "live" /\ y = r)
  <2>1. CASE LiveAs(q, FALSE) /\ reql' = Append(reql, r)
    <3>1. q.life = "live" BY <2>1 DEF LiveAs
    <3> QED BY <1>4, <2>1, <3>1, AppendedSound
  <2>2. CASE Rests(q) /\ UNCHANGED reql
    <3>1. q.life # "live" BY <2>2 DEF Rests
    <3> QED BY <1>4, <2>2, <3>1
  <2> QED BY <2>1, <2>2
<1>6. /\ Req!Live(r)' <=> q.life = "live"
      /\ \A s \in Reqs \ {r} : Req!Live(s)' <=> Req!Live(s)
  BY <1>2 DEF Req!Live
<1>7. ASSUME NEW s \in Reqs
      PROVE (IF Req!Live(s) THEN LiveAs(rq[s], busy = s) ELSE busy # s /\ Rests(rq[s]))'
  <2>0. busy # s /\ busy' # s OBVIOUS
  <2>1. CASE s = r
    <3>1. IF q.life = "live" THEN LiveAs(q, FALSE) ELSE Rests(q) BY DEF LiveAs, Rests
    <3>2. IF Req!Live(s)' THEN LiveAs(rq'[s], FALSE) ELSE Rests(rq'[s])
      BY <1>2, <1>6, <2>1, <3>1
    <3> QED BY <2>0, <3>2
  <2>2. CASE s # r
    <3>2. rq'[s] = rq[s] BY <1>2, <2>2
    <3>3. IF Req!Live(s) THEN LiveAs(rq[s], FALSE) ELSE Rests(rq[s])
      BY <2>0 DEF RequestsSound
    <3>4. IF Req!Live(s)' THEN LiveAs(rq'[s], FALSE) ELSE Rests(rq'[s])
      BY <1>6, <2>2, <3>2, <3>3
    <3> QED BY <2>0, <3>4
  <2> QED BY <2>1, <2>2
<1>8. (\A s \in Reqs : In(reql, s) <=> Req!Live(s))' BY <1>3, <1>5, <1>6 DEF RequestsSound
<1> QED BY <1>2, <1>5, <1>7, <1>8 DEF RequestsSound, Moves

(* The requests are unchanged but for r, which was not made yet.            *)
LEMMA BeginKeepsWalk ==
  ASSUME RequestsSound, WalkAgree, None \notin Reqs, NEW r \in Reqs, rq[r].life = "unused", NEW q, Moves(r, q.qent),
         rq'[r] = q, walk.calls, walk.kind = "abort2" => ~rq[walk.at].late, walk.kind # "over",
         q.late <=> walk.kind \in {"abort1", "abort2"}, busy' = None,
         UNCHANGED reql \/ reql' = Append(reql, r), UNCHANGED walk,
         walk.kind = "estab" => conn'[walk.d] = conn[walk.d]
  PROVE  WalkAgree'
<1>1. reql \in Seq(Reqs) /\ Req!IsInjective(reql) BY DEF RequestsSound
<1>2. ~Req!Live(r) BY DEF Req!Live
<1>3. ~In(reql, r) BY <1>2 DEF RequestsSound
<1>4. /\ \A y : In(Append(reql, r), y) <=> In(reql, y) \/ y = r
      /\ Nth(Append(reql, r), 1) = IF reql = <<>> THEN r ELSE Nth(reql, 1)
  BY <1>1, <1>3, AppendedSound
<1>5. \A y : In(reql', y) => In(reql, y) \/ y = r BY <1>4
<1>6. Nth(reql, 1) # None => Nth(reql', 1) = Nth(reql, 1)
  <2>1. reql = <<>> => Nth(reql, 1) = None BY EmptyList
  <2> QED BY <1>4, <2>1
<1>7. \A s \in Reqs \ {r} : rq'[s] = rq[s] BY DEF Moves
<1>8. CASE walk = Req!Idle BY <1>8 DEF WalkAgree, Req!Idle
<1>9. CASE walk.kind = "close" /\ Place(walk.q) BY <1>9 DEF WalkAgree, Place, Nth
<1>10. CASE /\ walk.kind = "estab" /\ walk.q = <<>> /\ Place(conn[walk.d].ql)
           /\ conn[walk.d].state = "up"
  BY <1>10 DEF WalkAgree, Place, Nth
<1>11. CASE /\ walk.kind = "abort1" /\ walk.q = <<>> /\ busy = None
            /\ IF walk.le = None THEN Late ELSE walk.le = Nth(reql, 1)
  <2>1. Late => Late' BY <1>5, <1>7, <1>11 DEF Late
  <2>2. walk.le # None => walk.le = Nth(reql', 1) BY <1>6, <1>11
  <2>3. ~walk.bad BY DEF WalkAgree
  <2> QED BY <1>11, <2>1, <2>2, <2>3 DEF WalkAgree, Nth
<1>12. ASSUME walk.kind = "abort2",
              IF walk.at = None THEN ~walk.calls ELSE walk.at \in Reqs /\ rq[walk.at].late
       PROVE FALSE
  BY <1>12
<1> QED BY <1>8, <1>9, <1>10, <1>11, <1>12 DEF WalkAgree

(* sip_request, from the main loop or from a handler of a walk.             *)
LEMMA SipRequestKeeps ==
  ASSUME Req!Configuration, ReqInv, NEW r \in Reqs, Req!sip_request(r)
  PROVE  ReqInv'
<1>0. /\ RequestsSound /\ QueuesAgree /\ HeldAgree /\ WalkAgree /\ troubles \in 0..MaxTroubles
      /\ None \notin Reqs
  BY ConstantsAre DEF ReqInv
<1>1. /\ busy = None /\ busy' = None /\ walk.calls /\ walk.kind # "over" /\ rq[r].life = "unused"
      /\ walk.kind = "abort2" => ~rq[walk.at].late
      /\ UNCHANGED <<old, msg, busy, walk>>
  BY DEF Req!sip_request, Req!UserRuns, Req!Over
<1>2. PICK k \in IF r \in Plain THEN {"address"} ELSE Routes,
           stateful \in IF r \in Plain THEN {TRUE} ELSE BOOLEAN,
           inv \in IF r \in Plain THEN {FALSE} ELSE BOOLEAN,
           tp \in IF r \in Plain THEN Supported \ {Req!UDP} ELSE Supported \cup {None} :
         LET q == Req!Made(k, stateful, inv, tp) IN
       \/ /\ Req!Trouble /\ rq' = [rq EXCEPT ![r] = Req!Ended(q, "refused")]
          /\ UNCHANGED <<reql, conn>>
       \/ /\ k = "address" /\ UNCHANGED troubles
          /\ \E a \in Req!Addrs : Req!SentAtOnce(r, q, <<Host, a>>)
       \/ /\ k # "address" /\ UNCHANGED <<conn, troubles>>
          /\ rq' = [rq EXCEPT ![r] =
               IF k = "port" THEN Req!Looking(q)
               ELSE [q EXCEPT !.dnsq = IF q.tp_selected THEN "srv" ELSE "naptr"]]
          /\ reql' = Append(reql, r)
  BY Zenon DEF Req!sip_request
<1> DEFINE q == Req!Made(k, stateful, inv, tp)
<1>3. \/ /\ Req!Trouble /\ rq' = [rq EXCEPT ![r] = Req!Ended(q, "refused")]
         /\ UNCHANGED <<reql, conn>>
      \/ /\ UNCHANGED troubles
         /\ \E a \in Req!Addrs : Req!SentAtOnce(r, q, <<Host, a>>)
      \/ /\ UNCHANGED <<conn, troubles>>
         /\ rq' = [rq EXCEPT ![r] =
              IF k = "port" THEN Req!Looking(q)
              ELSE [q EXCEPT !.dnsq = IF q.tp_selected THEN "srv" ELSE "naptr"]]
         /\ reql' = Append(reql, r)
  BY <1>2
<1>4. /\ q \in Req!Request /\ q.life = "live" /\ q.told = 0 /\ q.outcome = "none"
      /\ ~Looks(q) /\ q.ct = "no" /\ ~q.qent /\ ~q.dnsq2
      /\ q.untried = {} /\ q.addrl = {} /\ q.srvl = {}
      /\ (q.late <=> walk.kind \in {"abort1", "abort2"})
  <2>1. stateful \in BOOLEAN /\ inv \in BOOLEAN /\ tp \in Supported \cup {None} OBVIOUS
  <2>2. Fresh(q) BY <2>1, MadeIs
  <2> QED BY <2>2 DEF Fresh
<1> HIDE DEF q
<1>5. rq[r].qent = FALSE /\ rq[r] \in Req!Request
  <2>1. Rests(rq[r]) BY <1>0, <1>1 DEF RequestsSound, Req!Live
  <2> QED BY <2>1 DEF Rests, Req!Request
<1>6. {q.port} \X q.addrl = {} BY <1>4
<1>7. troubles' \in 0..MaxTroubles
  <2>1. UNCHANGED troubles \/ Req!Trouble BY <1>3
  <2> QED BY <1>0, <2>1, TroublesTyped
<1>8. ASSUME NEW e, rq' = [rq EXCEPT ![r] = e], e.late = q.late, e.qent = FALSE, UNCHANGED conn,
             \/ LiveAs(e, FALSE) /\ reql' = Append(reql, r)
             \/ Rests(e) /\ UNCHANGED reql
      PROVE  ReqInv'
  <2>1. Moves(r, e.qent) /\ rq'[r] = e BY <1>0, <1>1, <1>8, BeginMoves
  <2>2. Moves(r, rq[r].qent) BY <1>5, <1>8, <2>1
  <2>3. QueuesAgree' BY <1>0, <1>1, <1>8, <2>2, QueuesKept
  <2>4. HeldAgree' BY <1>0, <1>1, <1>8 DEF HeldAgree
  <2>5. WalkAgree' BY <1>0, <1>1, <1>4, <1>8, <2>1, BeginKeepsWalk
  <2> QED BY <1>7, <2>1, <2>3, <2>4, <2>5 DEF ReqInv, Moves
<1>9. CASE Req!Trouble /\ rq' = [rq EXCEPT ![r] = Req!Ended(q, "refused")] /\ UNCHANGED <<reql, conn>>
  <2> DEFINE e == Req!Ended(q, "refused")
  <2>1. MayEnd(q, "refused") BY <1>4, LiveMayEnd DEF Outcomes
  <2>2. Rests(e) /\ e.late = q.late BY <2>1, EndedRests
  <2>3. rq' = [rq EXCEPT ![r] = e] /\ UNCHANGED <<reql, conn>> BY <1>9
  <2> HIDE DEF e
  <2>4. e.qent = FALSE BY <2>2 DEF Rests, Req!Request
  <2> QED BY <1>8, <2>2, <2>3, <2>4
<1>10. CASE \E a \in Req!Addrs : Req!SentAtOnce(r, q, <<Host, a>>)
  <2>1. PICK a \in Req!Addrs : Req!SentAtOnce(r, q, <<Host, a>>) BY <1>10
  <2> DEFINE d == <<Host, a>>
             waits == Req!Queues(q, d)
  <2>2. d \in Req!Targets /\ waits \in BOOLEAN BY DEF Req!Targets, Req!Queues
  <2>3. Req!conn_send(r, q, d) BY <2>1 DEF Req!SentAtOnce
  <2>4. PICK e : /\ rq' = [rq EXCEPT ![r] = e] /\ e.late = q.late /\ e.qent = (q.stateful /\ waits)
                 /\ \/ LiveAs(e, FALSE) /\ reql' = Append(reql, r)
                    \/ Rests(e) /\ UNCHANGED reql
    <3>1. CASE q.stateful
      <4> DEFINE e == Req!Sent(q, d, waits)
      <4>1. rq' = [rq EXCEPT ![r] = e] /\ reql' = Append(reql, r)
        BY <2>1, <3>1 DEF Req!SentAtOnce
      <4>2. e.qent = waits /\ e.late = q.late BY <1>4 DEF Req!Sent, Req!Request
      <4>3. q.untried \ {d} = {q.port} \X q.addrl BY <1>4, <1>6
      <4> HIDE DEF waits, d
      <4>4. LiveAs(e, FALSE) BY <1>4, <2>2, <4>3, SentLives
      <4>5. q.stateful = TRUE BY <1>4, <3>1 DEF Req!Request
      <4>6. (q.stateful /\ waits) = waits BY <2>2, <4>5
      <4> HIDE DEF e
      <4> QED BY <4>1, <4>2, <4>4, <4>6
    <3>2. CASE ~q.stateful
      <4> DEFINE e == Req!Ended(q, "sent")
      <4>1. rq' = [rq EXCEPT ![r] = e] /\ UNCHANGED reql
        BY <2>1, <3>2 DEF Req!SentAtOnce
      <4>2. MayEnd(q, "sent") BY <1>4, LiveMayEnd DEF Outcomes
      <4>3. Rests(e) /\ e.late = q.late BY <4>2, EndedRests
      <4> HIDE DEF e
      <4>4. e.qent = FALSE BY <4>3 DEF Rests, Req!Request
      <4>5. (q.stateful /\ waits) = FALSE BY <3>2
      <4> QED BY <4>1, <4>3, <4>4, <4>5
    <3> QED BY <3>1, <3>2
  <2> HIDE DEF d, waits
  <2>5. Moves(r, e.qent) /\ rq'[r] = e BY <1>0, <1>1, <2>4, BeginMoves
  <2>6. Moves(r, q.stateful /\ Req!Queues(q, d)) BY <2>4, <2>5 DEF waits
  <2>7. QueuesAgree' /\ HeldAgree' /\ (walk.kind = "estab" => conn'[walk.d] = conn[walk.d])
    BY <1>0, <1>1, <1>4, <1>5, <2>2, <2>3, <2>6, SendKeeps
  <2>8. WalkAgree' BY <1>0, <1>1, <1>4, <2>4, <2>5, <2>7, BeginKeepsWalk
  <2> QED BY <1>7, <2>5, <2>7, <2>8 DEF ReqInv, Moves
<1>11. CASE /\ UNCHANGED <<conn, troubles>>
            /\ rq' = [rq EXCEPT ![r] =
                 IF k = "port" THEN Req!Looking(q)
                 ELSE [q EXCEPT !.dnsq = IF q.tp_selected THEN "srv" ELSE "naptr"]]
            /\ reql' = Append(reql, r)
  <2>1. CASE k = "port"
    <3> DEFINE e == Req!Looking(q)
    <3>1. rq' = [rq EXCEPT ![r] = e] BY <1>11, <2>1
    <3>2. LiveAs(e, FALSE) BY <1>4, <1>6, LookingLives
    <3>3. e.late = q.late /\ e.qent = q.qent BY <1>4 DEF Req!Looking, Req!Request
    <3>4. q.qent = FALSE BY <1>4 DEF Req!Request
    <3> HIDE DEF e
    <3> QED BY <1>8, <1>11, <3>1, <3>2, <3>3, <3>4
  <2>2. CASE k # "port"
    <3> DEFINE dnsq == IF q.tp_selected THEN "srv" ELSE "naptr"
               e == [q EXCEPT !.dnsq = dnsq]
    <3>1. rq' = [rq EXCEPT ![r] = e] BY <1>11, <2>2
    <3>2. dnsq \in {"srv", "naptr"} OBVIOUS
    <3> HIDE DEF dnsq
    <3>3. /\ e \in Req!Request /\ e.dnsq = dnsq /\ e.dnsq2 = q.dnsq2 /\ e.ct = q.ct /\ e.qent = q.qent
          /\ e.untried = q.untried /\ e.life = q.life /\ e.told = q.told /\ e.outcome = q.outcome
          /\ e.port = q.port /\ e.addrl = q.addrl /\ e.srvl = q.srvl /\ e.late = q.late
      BY <1>4, <3>2 DEF Req!Request
    <3> HIDE DEF e
    <3>4. LiveAs(e, FALSE) BY <1>4, <3>2, <3>3 DEF LiveAs, Looks
    <3>5. q.qent = FALSE BY <1>4 DEF Req!Request
    <3> QED BY <1>8, <1>11, <3>1, <3>3, <3>4, <3>5
  <2> QED BY <2>1, <2>2
<1> QED BY <1>3, <1>9, <1>10, <1>11

-----------------------------------------------------------------------------
(* Steps of one request.                                                    *)

(* Nothing that a walk depends on changes.                                  *)
LEMMA WalkKept ==
  ASSUME WalkAgree, UNCHANGED walk, walk.kind \notin {"abort1", "abort2", "over"},
         walk.kind = "estab" => conn'[walk.d] = conn[walk.d]
  PROVE  WalkAgree'
<1>1. CASE walk = Req!Idle BY <1>1 DEF WalkAgree, Req!Idle
<1>2. CASE walk.kind = "close" /\ Place(walk.q) BY <1>2 DEF WalkAgree, Place, Nth
<1>3. CASE /\ walk.kind = "estab" /\ walk.q = <<>> /\ Place(conn[walk.d].ql)
           /\ conn[walk.d].state = "up"
  BY <1>3 DEF WalkAgree, Place, Nth
<1> QED BY <1>1, <1>2, <1>3 DEF WalkAgree

(* A step of the request r alone, whose message does not wait.              *)
LEMMA MoveKeeps ==
  ASSUME ReqInv, NEW r \in Reqs, Moves(r, FALSE), ~rq[r].qent,
         UNCHANGED <<conn, old, msg, walk>>, troubles' \in 0..MaxTroubles,
         walk.kind \notin {"abort1", "abort2", "over"}
  PROVE  ReqInv'
<1>1. RequestsSound /\ QueuesAgree /\ HeldAgree /\ WalkAgree BY DEF ReqInv
<1>2. rq[r].qent = FALSE
  <2>1. rq[r].qent \in BOOLEAN BY <1>1 DEF RequestsSound, Req!Request
  <2> QED BY <2>1
<1>3. Moves(r, rq[r].qent) BY <1>2
<1>4. QueuesAgree' BY <1>1, <1>3, QueuesKept
<1>5. HeldAgree' BY <1>1 DEF HeldAgree
<1>6. WalkAgree' BY <1>1, WalkKept
<1> QED BY <1>4, <1>5, <1>6 DEF ReqInv, Moves

LEMMA AsksTroubles ==
  ASSUME NEW r, NEW q, Req!Asks(r, q)
  PROVE  UNCHANGED troubles \/ Req!Trouble
BY DEF Req!Asks

(* Answers and responses.                                                   *)
LEMMA AnswersKeep ==
  ASSUME Req!Configuration, ReqInv, NEW r \in Reqs,
         Req!Answers(r) \/ Req!Provisional(r) \/ Req!response_handler(r)
  PROVE  ReqInv'
<1>0. RequestsSound /\ WalkAgree /\ troubles \in 0..MaxTroubles BY DEF ReqInv
<1>1. Req!Free /\ UNCHANGED <<conn, old, msg, walk>>
  BY DEF Req!Answers, Req!naptr_handler, Req!srv_handler, Req!addr_handler, Req!Provisional,
         Req!response_handler, Req!Responding
<1>2. walk.kind \notin {"abort1", "abort2", "over"} BY <1>1 DEF Req!Free
<1>3. UNCHANGED troubles \/ Req!Trouble
  <2>1. CASE Req!naptr_handler(r) BY <2>1, AsksTroubles DEF Req!naptr_handler
  <2>2. CASE Req!srv_handler(r) BY <2>2, AsksTroubles DEF Req!srv_handler
  <2>3. CASE Req!addr_handler(r) \/ Req!Provisional(r) \/ Req!response_handler(r)
    BY <2>3 DEF Req!addr_handler, Req!Provisional, Req!response_handler
  <2> QED BY <2>1, <2>2, <2>3 DEF Req!Answers
<1>4. troubles' \in 0..MaxTroubles BY <1>0, <1>3, TroublesTyped
<1>5. Moves(r, FALSE) /\ ~rq[r].qent
  BY <1>0, NaptrMoves, SrvMoves, AddrMoves, ProvisionalMoves, ResponseMoves DEF Req!Answers
<1> QED BY <1>1, <1>2, <1>4, <1>5, MoveKeeps

(* request_next, which may queue the message.                               *)
LEMMA RequestNextKeeps ==
  ASSUME Req!Configuration, ReqInv, NEW r \in Reqs, Req!request_next(r)
  PROVE  ReqInv'
<1>0. /\ RequestsSound /\ QueuesAgree /\ HeldAgree /\ WalkAgree /\ troubles \in 0..MaxTroubles
      /\ None \notin Reqs
  BY ConstantsAre DEF ReqInv
<1>1. busy = r /\ UNCHANGED <<old, msg, walk>> BY DEF Req!request_next
<1>2. walk.kind \notin {"abort1", "abort2", "over"} BY <1>0, <1>1 DEF WalkAgree, Req!Idle
<1>3. UNCHANGED troubles \/ Req!Trouble BY AsksTroubles DEF Req!request_next
<1>4. troubles' \in 0..MaxTroubles BY <1>0, <1>3, TroublesTyped
<1>5. ~rq[r].qent BY <1>0, NextMoves
<1>6. CASE UNCHANGED conn /\ Moves(r, FALSE) BY <1>1, <1>2, <1>4, <1>5, <1>6, MoveKeeps
<1>7. CASE \E t \in Req!Request, d \in Req!Targets :
             Req!conn_send(r, t, d) /\ Moves(r, t.stateful /\ Req!Queues(t, d))
  <2>1. PICK t \in Req!Request, d \in Req!Targets :
          Req!conn_send(r, t, d) /\ Moves(r, t.stateful /\ Req!Queues(t, d))
    BY <1>7
  <2>2. QueuesAgree' /\ HeldAgree' /\ (walk.kind = "estab" => conn'[walk.d] = conn[walk.d])
    BY <1>0, <1>1, <1>5, <2>1, SendKeeps
  <2>3. WalkAgree' BY <1>0, <1>1, <1>2, <2>2, WalkKept
  <2> QED BY <1>4, <2>1, <2>2, <2>3 DEF ReqInv, Moves
<1> QED BY <1>0, <1>6, <1>7, NextMoves

(* The user cancels a request or lets go of it.                             *)
LEMMA UserKeeps ==
  ASSUME Req!Configuration, ReqInv, NEW r \in Reqs,
         Req!sip_request_cancel(r) \/ Req!destructor(r)
  PROVE  ReqInv'
<1>0. RequestsSound /\ QueuesAgree /\ HeldAgree /\ WalkAgree BY DEF ReqInv
<1>1. /\ Moves(r, rq[r].qent) /\ rq'[r].late = rq[r].late
      /\ UNCHANGED <<reql, conn, old, msg, busy, walk, troubles>>
  BY <1>0, UserMoves
<1>2. QueuesAgree' BY <1>0, <1>1, QueuesKept
<1>3. HeldAgree' BY <1>0, <1>1 DEF HeldAgree
<1>4. \A s \in Reqs : rq'[s].late = rq[s].late BY <1>1 DEF Moves
<1>5. WalkAgree'
  <2>1. Late' <=> Late BY <1>1, <1>4 DEF Late
  <2>2. walk.at \in Reqs => rq'[walk.at].late = rq[walk.at].late BY <1>4
  <2>3. \A q : Place(q)' <=> Place(q) BY <1>1 DEF Place
  <2> QED BY <1>0, <1>1, <2>1, <2>2, <2>3 DEF WalkAgree, Nth
<1> QED BY <1>1, <1>2, <1>3, <1>5 DEF ReqInv, Moves

(* The transaction runs out; its message may still wait.                    *)
LEMMA TimeoutKeeps ==
  ASSUME Req!Configuration, ReqInv, NEW r \in Reqs, Req!Timeout(r)
  PROVE  ReqInv'
<1>0. /\ RequestsSound /\ QueuesAgree /\ HeldAgree /\ WalkAgree /\ troubles \in 0..MaxTroubles
      /\ None \notin Reqs
  BY ConstantsAre DEF ReqInv
<1>1. /\ walk = Req!Idle /\ busy = None /\ Req!Live(r) /\ rq[r].ct # "no"
      /\ Req!TransportFails(r) /\ Req!Unqueue(r) /\ UNCHANGED <<old, msg, troubles>>
  BY <1>0, FreeIsIdle DEF Req!Timeout, Req!TransportFails
<1>2. walk.kind = "no" /\ walk.q = <<>> /\ walk \in WalkRecords BY <1>1, IdleWalk
<1>3. Moves(r, FALSE) BY <1>0, <1>1, TransportMoves
<1>4. CASE rq[r].qent
  <2>1. conn' = [d \in Req!Targets |-> [conn[d] EXCEPT !.ql = Req!Unlinked(@, r)]]
    BY <1>1, <1>4 DEF Req!Unqueue
  <2>2. walk' = walk
    <3>1. Req!Unlinked(<<>>, r) = <<>>
      <4>1. {i \in DOMAIN <<>> : <<>>[i] = r} = {} OBVIOUS
      <4> QED BY <4>1 DEF Req!Unlinked
    <3>2. walk' = [walk EXCEPT !.q = <<>>] BY <1>1, <1>2, <1>4, <3>1 DEF Req!Unqueue
    <3>3. \A w \in WalkRecords : [w EXCEPT !.q = w.q] = w BY DEF WalkRecords
    <3> QED BY <1>2, <3>2, <3>3
  <2>3. QueuesAgree'
    <3>1. walk.kind # "estab" /\ walk'.kind # "estab" /\ walk'.q = <<>> /\ walk' \in WalkRecords
      BY <1>2, <2>2
    <3> QED BY <1>0, <1>2, <1>3, <2>1, <3>1, UnqueueKeeps
  <2>4. HeldAgree'
    <3>1. \A e \in Req!Targets : conn[e] \in ConnRecords BY <1>0 DEF QueuesAgree
    <3>2. \A e \in Req!Targets : conn'[e].refs = conn[e].refs /\ conn'[e].state = conn[e].state
      BY <2>1, <3>1 DEF ConnRecords
    <3> QED BY <1>0, <1>1, <2>2, <3>2 DEF HeldAgree
  <2>5. WalkAgree' BY <1>1, <1>2, <2>2, IdleWalk DEF WalkAgree
  <2> QED BY <1>0, <1>1, <1>3, <2>3, <2>4, <2>5 DEF ReqInv, Moves
<1>5. CASE ~rq[r].qent
  <2>1. UNCHANGED <<conn, walk>> BY <1>1, <1>5 DEF Req!Unqueue
  <2>2. walk.kind \notin {"abort1", "abort2", "over"} BY <1>2
  <2> QED BY <1>0, <1>1, <1>3, <1>5, <2>1, <2>2, MoveKeeps
<1> QED BY <1>4, <1>5

-----------------------------------------------------------------------------
LEMMA ReqInvInit ==
  ASSUME Req!Configuration, Req!Init
  PROVE  ReqInv
<1>1. /\ rq = [r \in Reqs |-> Req!Unused] /\ reql = <<>>
      /\ conn = [d \in Req!Targets |-> Req!NoConn] /\ old = [d \in Req!Targets |-> Req!NoOld]
      /\ msg = [d \in Req!Targets |-> "no"]
      /\ busy = None /\ walk = Req!Idle /\ troubles = 0
  BY DEF Req!Init
<1>2. None \notin Reqs /\ MaxTroubles \in Nat BY ConstantsAre
<1>3. /\ Req!Unused \in Req!Request /\ Req!Unused.life = "unused" /\ Req!Unused.told = 0
      /\ Req!Unused.qent = FALSE /\ Req!Unused.ct = "no" /\ ~Looks(Req!Unused)
      /\ Req!Unused.outcome = "none"
  BY DEF Req!Request, Req!Unused, Req!NoTransp, Req!TranspC, Req!Targets, Looks
<1>4. Rests(Req!Unused) BY <1>3 DEF Rests
<1>5. RequestsSound
  <2>1. rq \in [Reqs -> Req!Request] /\ \A r \in Reqs : ~Req!Live(r) BY <1>1, <1>3 DEF Req!Live
  <2> QED BY <1>1, <1>2, <1>4, <2>1, EmptyList DEF RequestsSound
<1>6. QueuesAgree
  <2>1. Req!NoConn \in ConnRecords /\ Req!NoConn.ql = <<>> BY EmptyList DEF Req!NoConn, ConnRecords
  <2>2. conn \in [Req!Targets -> ConnRecords] /\ \A d \in Req!Targets : conn[d].ql = <<>> BY <1>1, <2>1
  <2>3. walk \in WalkRecords /\ walk.q = <<>> BY <1>1, IdleWalk
  <2>4. \A r : ~Left(r) /\ \A d \in Req!Targets : ~Waits(d, r)
    BY <2>2, <2>3, EmptyList DEF Left, Waits
  <2>5. \A r \in Reqs : ~rq[r].qent BY <1>1, <1>3
  <2> QED BY <2>2, <2>3, <2>4, <2>5, EmptyList DEF QueuesAgree
<1>7. HeldAgree
  <2>1. \A d \in Req!Targets : conn[d] = Req!NoConn /\ old[d] = Req!NoOld /\ msg[d] = "no"
    BY <1>1
  <2>2. Req!NoConn.refs = 0 /\ Req!NoConn.state = "none" BY DEF Req!NoConn
  <2>3. Req!NoOld.refs = 0 /\ Req!NoOld.why = "no" /\ Req!NoOld \in OldRecords BY DEF Req!NoOld, OldRecords
  <2>4. old \in [Req!Targets -> OldRecords] /\ msg \in [Req!Targets -> {"no", "conn", "old"}]
    BY <1>1, <2>3
  <2>5. walk.kind # "close" BY <1>1, IdleWalk
  <2> QED BY <2>1, <2>2, <2>3, <2>4, <2>5 DEF HeldAgree, OldRecords
<1>8. WalkAgree BY <1>1, IdleWalk DEF WalkAgree
<1> QED BY <1>1, <1>2, <1>5, <1>6, <1>7, <1>8 DEF ReqInv

LEMMA ReqInvStep ==
  ASSUME Req!Configuration, ReqInv, [Req!Next]_Req!vars
  PROVE  ReqInv'
<1>1. CASE Req!User BY <1>1, SipRequestKeeps, UserKeeps DEF Req!User
<1>2. CASE Req!Network
  BY <1>2, AnswersKeep, CloseKeeps, EstabKeeps, ServerKeeps, FlushKeeps DEF Req!Network
<1>3. CASE Req!Walks
  BY <1>3, CloseNextKeeps, CloseEndsKeeps, EstabNextKeeps, EstabEndsKeeps, CloseHandlerKeeps,
     CloseAgainKeeps DEF Req!Walks
<1>4. CASE Req!sip_close BY <1>4, SipCloseKeeps
<1>5. CASE \E r \in Reqs : Req!Answers(r) \/ Req!request_next(r) \/ Req!Timeout(r)
  BY <1>5, AnswersKeep, RequestNextKeeps, TimeoutKeeps
<1>6. CASE UNCHANGED Req!vars
  <2>1. UNCHANGED <<rq, reql, conn, old, msg, busy, walk, troubles>> BY <1>6 DEF Req!vars
  <2>2. RequestsSound' BY <2>1, RequestsUnchanged DEF ReqInv
  <2>3. QueuesAgree' BY <2>1 DEF ReqInv, QueuesAgree, Waits, Left
  <2>4. HeldAgree' BY <2>1 DEF ReqInv, HeldAgree
  <2>5. WalkAgree' BY <2>1 DEF ReqInv, WalkAgree, Place, Late, Nth
  <2> QED BY <2>1, <2>2, <2>3, <2>4, <2>5 DEF ReqInv
<1> QED BY <1>1, <1>2, <1>3, <1>4, <1>5, <1>6 DEF Req!Next

(* What the invariant says of the properties.                               *)
LEMMA ReqInvTyped ==
  ASSUME Req!Configuration, ReqInv
  PROVE  Req!TypeOK /\ ~walk.bad
<1>1. RequestsSound /\ QueuesAgree /\ HeldAgree /\ WalkAgree /\ troubles \in 0..MaxTroubles
  BY DEF ReqInv
<1>2. \A s \in Seq(Reqs) : Req!ToSet(s) \subseteq Reqs BY DEF Req!ToSet
<1>3. ASSUME NEW d \in Req!Targets
      PROVE /\ conn[d].state \in {"none", "setup", "up"}
            /\ Req!ToSet(conn[d].ql) \subseteq Reqs /\ conn[d].refs \in 0..2
  <2>1. conn[d] \in ConnRecords BY <1>1 DEF QueuesAgree
  <2> QED BY <1>2, <2>1 DEF ConnRecords
<1>4. /\ rq \in [Reqs -> Req!Request] /\ Req!IsInjective(reql) /\ Req!ToSet(reql) \subseteq Reqs
      /\ busy \in Reqs \cup {None}
  BY <1>1, <1>2 DEF RequestsSound
<1>5. /\ old \in [Req!Targets -> [refs : 0..2, why : {"no", "closed", "flushed", "lost"}]]
      /\ msg \in [Req!Targets -> {"no", "conn", "old"}]
  BY <1>1 DEF HeldAgree
<1>6. ~walk.bad BY <1>1 DEF WalkAgree
<1> QED BY <1>1, <1>3, <1>4, <1>5, <1>6 DEF Req!TypeOK

(* The clauses of LiveAs exclude each other.                                *)
LEMMA ReqInvOneAttempt ==
  ASSUME ReqInv
  PROVE  Req!OneAttempt
<1> SUFFICES ASSUME NEW r \in Reqs
             PROVE LET at == {x \in {"query", "next", "transaction"} :
                        CASE x = "query" -> rq[r].dnsq # "no" \/ rq[r].dnsq2
                          [] x = "next" -> busy = r
                          [] x = "transaction" -> rq[r].ct # "no"}
                   IN IF Req!Live(r) THEN \E x \in at : at = {x} ELSE at = {}
  BY DEF Req!OneAttempt
<1> DEFINE at == {x \in {"query", "next", "transaction"} :
                    CASE x = "query" -> rq[r].dnsq # "no" \/ rq[r].dnsq2
                      [] x = "next" -> busy = r
                      [] x = "transaction" -> rq[r].ct # "no"}
<1>1. /\ "query" \in at <=> Looks(rq[r])
      /\ "next" \in at <=> busy = r
      /\ "transaction" \in at <=> rq[r].ct # "no"
      /\ at \subseteq {"query", "next", "transaction"}
  BY DEF Looks
<1> HIDE DEF at
<1>2. CASE Req!Live(r)
  <2>1. LiveAs(rq[r], busy = r) BY <1>2 DEF ReqInv, RequestsSound
  <2>2. CASE Looks(rq[r])
    <3>1. at = {"query"} BY <1>1, <2>1, <2>2 DEF LiveAs
    <3> QED BY <1>2, <3>1 DEF at
  <2>3. CASE rq[r].ct # "no"
    <3>1. at = {"transaction"} BY <1>1, <2>1, <2>3 DEF LiveAs
    <3> QED BY <1>2, <3>1 DEF at
  <2>4. CASE ~Looks(rq[r]) /\ rq[r].ct = "no"
    <3>1. at = {"next"} BY <1>1, <2>1, <2>4 DEF LiveAs
    <3> QED BY <1>2, <3>1 DEF at
  <2> QED BY <2>2, <2>3, <2>4
<1>3. CASE ~Req!Live(r)
  <2>1. busy # r /\ Rests(rq[r]) BY <1>3 DEF ReqInv, RequestsSound
  <2>2. at = {} BY <1>1, <2>1 DEF Rests
  <2> QED BY <1>3, <2>2 DEF at
<1> QED BY <1>2, <1>3

LEMMA ReqInvSafe ==
  ASSUME Req!Configuration, ReqInv
  PROVE  Req!MemorySafety
<1>1. RequestsSound /\ QueuesAgree /\ HeldAgree /\ WalkAgree BY DEF ReqInv
<1>2. Req!QueuesSound
  <2> SUFFICES ASSUME NEW r \in Reqs, rq[r].qent
               PROVE /\ Req!Live(r) /\ rq[r].ct = "calling"
                     /\ \/ \E d \in Req!Targets : Req!Contains(conn[d].ql, r)
                        \/ Req!Contains(walk.q, r)
    BY DEF Req!QueuesSound
  <2>1. Req!Live(r) /\ rq[r].ct = "calling" BY <1>1 DEF RequestsSound, Rests, LiveAs
  <2>2. (\E d \in Req!Targets : In(conn[d].ql, r)) \/ In(walk.q, r)
    BY <1>1 DEF QueuesAgree, Waits, Left
  <2>3. \A d \in Req!Targets : conn[d].ql \in Seq(Reqs) BY <1>1 DEF QueuesAgree, ConnRecords
  <2>4. walk.q \in Seq(Reqs) BY <1>1 DEF QueuesAgree, WalkRecords
  <2> QED BY <2>1, <2>2, <2>3, <2>4, ContainsIsIn
<1>3. Req!HeldIsKept
  <2> SUFFICES ASSUME NEW d \in Req!Targets
               PROVE /\ msg[d] = "conn" => conn[d].refs > 1
                     /\ msg[d] = "old" => old[d].refs > 0 \/ old[d].why = "lost"
    BY DEF Req!HeldIsKept
  <2>1. msg[d] = "conn" => conn[d].refs = 2 BY <1>1 DEF HeldAgree
  <2>2. msg[d] = "old" => old[d].why = "lost" \/ old[d].refs = 1 \/ old[d].refs = 2
    BY <1>1 DEF HeldAgree
  <2> QED BY <2>1, <2>2
<1>4. Req!AllClosed
  <2> SUFFICES ASSUME walk.kind = "over", NEW r \in Reqs PROVE ~Req!Live(r)
    BY DEF Req!AllClosed, Req!Over
  <2>1. reql = <<>> BY <1>1 DEF WalkAgree, Req!Idle
  <2> QED BY <1>1, <2>1, EmptyList DEF RequestsSound
<1> QED BY <1>2, <1>3, <1>4, ReqInvTyped, ReqInvOneAttempt DEF Req!MemorySafety

LEMMA ReqInvOutcomes ==
  ASSUME ReqInv
  PROVE  Req!OutcomeIsRight
<1>1. ASSUME NEW r \in Reqs
      PROVE  LET q == rq[r] IN
             /\ q.life = "freed" /\ q.tells => q.told = IF q.outcome = "refused" THEN 0 ELSE 1
             /\ q.life # "freed" \/ ~q.tells => q.told = 0
             /\ q.outcome = "failed" /\ ~q.canceled => q.untried = {} /\ q.srvl = {}
             /\ ~(q.canceled /\ q.invite /\ q.ct = "proceeding")
  <2>1. CASE Req!Live(r)
    <3>1. LiveAs(rq[r], busy = r) BY <2>1 DEF ReqInv, RequestsSound
    <3> QED BY <3>1 DEF LiveAs
  <2>2. CASE ~Req!Live(r)
    <3>1. Rests(rq[r]) BY <2>2 DEF ReqInv, RequestsSound
    <3> QED BY <3>1 DEF Rests
  <2> QED BY <2>1, <2>2
<1> QED BY <1>1 DEF Req!OutcomeIsRight, Req!ToldOnce, Req!TriesAll, Req!CancelReaches

(* However requests are made, cancelled and let go of, from the handlers of *)
(* a walk or from the main loop, and whatever becomes of their queries and  *)
(* connections: no walk of sip/transp.c or sip/request.c uses an entry that *)
(* a handler has freed, a live request is at exactly one thing, the queues  *)
(* hold the messages of live requests, a message keeps its connection, and  *)
(* no request outlives the stack.                                           *)
THEOREM RequestsAreSafe == RequestSpec => []MemorySafety
<1>1. Req!Init => ReqInv BY ReqInvInit, SipRequestAssumption
<1>2. ReqInv /\ [Req!Next]_Req!vars => ReqInv' BY ReqInvStep, SipRequestAssumption
<1>3. ReqInv => MemorySafety BY ReqInvSafe, SipRequestAssumption DEF MemorySafety
<1> QED BY <1>1, <1>2, <1>3, PTL DEF RequestSpec, Req!Spec

(* sip/request.c tells the user of each request that it accepted the        *)
(* outcome, once; a failure has tried every address and SRV target that was *)
(* found; and a cancelled INVITE is cancelled at the server that answers it.*)
THEOREM RequestsEndRight == RequestSpec => []OutcomeIsRight
<1>1. Req!Init => ReqInv BY ReqInvInit, SipRequestAssumption
<1>2. ReqInv /\ [Req!Next]_Req!vars => ReqInv' BY ReqInvStep, SipRequestAssumption
<1>3. ReqInv => OutcomeIsRight BY ReqInvOutcomes, SipRequestAssumption DEF OutcomeIsRight
<1> QED BY <1>1, <1>2, <1>3, PTL DEF RequestSpec, Req!Spec
=============================================================================
