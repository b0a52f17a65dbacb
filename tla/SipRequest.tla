----------------------------- MODULE SipRequest -----------------------------
(****************************************************************************)
(* SIP requests on their way to a server (re sip/request.c): the DNS        *)
(* queries that find its addresses, the failover from one address to the    *)
(* next, and the connections they share (sip/transp.c).  Client             *)
(* transactions are those of SipTransaction, seen from their user.          *)
(*                                                                          *)
(* One thread runs all this.  A function that calls handlers while it walks *)
(* a list is several steps, with the user's calls between them.             *)
(****************************************************************************)
EXTENDS Integers, Sequences, SequencesExt

CONSTANTS
  Reqs,       \* struct sip_request
  Srvs,       \* targets of SRV records
  Host,       \* the host of the URI, as a target
  A, AAAA,    \* the addresses there are, by record type
  Supported,  \* transports, of UDP (0) and TCP (1); TLS is as TCP
  IPv6,       \* they are bound to IPv6 too
  Routes,     \* forms of the route a request is given
  Plain,      \* requests to an address over TCP, with a transaction, not INVITE
  None,
  Talkers,    \* the addresses whose server sends requests itself
  MaxTroubles \* queries that cannot be sent, sends that fail, flushes

UDP == 0
NoTransp == -1
TranspC == 3
Kinds == {"address", "port", "name"}

\* What the constants are, an assumption of the modules that instantiate this one.
Configuration ==
  /\ Host \notin Srvs /\ None \notin Reqs \cup Supported /\ A \cap AAAA = {}
  /\ Supported \subseteq {0, 1} /\ Supported # {} /\ IPv6 \in BOOLEAN
  /\ Routes \subseteq Kinds /\ Plain \subseteq Reqs /\ MaxTroubles \in Nat /\ Talkers \subseteq A \cup AAAA

Addrs == A \cup IF IPv6 THEN AAAA ELSE {}
Targets == (Srvs \cup {Host}) \X Addrs   \* port and address

VARIABLES
  rq,        \* the requests
  reql,      \* sip.reql
  conn,      \* the connection to each target, while conn_find finds it
  old,       \* one no longer found, held by a message
  msg,       \* which of them a message received over it holds
  busy,      \* the request that is in request_next
  walk,      \* the list that is being walked
  troubles

vars == <<rq, reql, conn, old, msg, busy, walk, troubles>>

(* owner    the user's pointer to it (reqp)                                 *)
(* tells    resph is set                                                    *)
(* ct       its transaction, see SipTransaction; "ending": CANCEL was sent  *)
(* qent     the transaction has its message queued on a connection          *)
(* untried  addresses it has found and not sent to; told, outcome: what     *)
(*          became of it                                                    *)
(* late     made by a handler while the stack was being closed              *)
Request ==
  [life : {"unused", "live", "freed"}, invite : BOOLEAN, stateful : BOOLEAN,
   owner : BOOLEAN, tells : BOOLEAN, canceled : BOOLEAN, provrecv : BOOLEAN,
   tp : NoTransp..TranspC, tp_selected : BOOLEAN, port : Srvs \cup {Host},
   dnsq : {"no", "naptr", "srv", "addr"}, dnsq2 : BOOLEAN,
   srvl : SUBSET Srvs, addrl : SUBSET Addrs,
   ct : {"no", "calling", "proceeding", "ending"}, qent : BOOLEAN,
   late : BOOLEAN, untried : SUBSET Targets, told : 0..2,
   outcome : {"none", "refused", "answered", "failed", "trouble", "aborted", "sent"}]

Unused ==
  [life |-> "unused", invite |-> FALSE, stateful |-> FALSE, owner |-> FALSE,
   tells |-> FALSE, canceled |-> FALSE, provrecv |-> FALSE, tp |-> NoTransp,
   tp_selected |-> FALSE, port |-> Host, dnsq |-> "no", dnsq2 |-> FALSE,
   srvl |-> {}, addrl |-> {}, ct |-> "no", qent |-> FALSE, late |-> FALSE,
   untried |-> {}, told |-> 0, outcome |-> "none"]

NoConn == [state |-> "none", ql |-> <<>>, refs |-> 0]
NoOld == [refs |-> 0, why |-> "no"]

(* kind     what walks: conn_close, tcp_estab_handler, sip_request_close    *)
(*          (its first and second call)                                     *)
(* q        the queue it walks, when conn_find does not find it any more    *)
(* at, le   the entry it is at, the next one                                *)
(* held     a message holds the connection that is being closed             *)
(* calls    the handler it has called may call the library                  *)
(* bad      it has used an entry that was freed                             *)
Idle == [kind |-> "no", d |-> None, q |-> <<>>, at |-> None, le |-> None,
         held |-> FALSE, calls |-> TRUE, bad |-> FALSE]

Init ==
  /\ rq = [r \in Reqs |-> Unused] /\ reql = <<>>
  /\ conn = [d \in Targets |-> NoConn] /\ old = [d \in Targets |-> NoOld]
  /\ msg = [d \in Targets |-> "no"]
  /\ busy = None /\ walk = Idle /\ troubles = 0

Live(r) == rq[r].life = "live"
Over == walk.kind = "over"                       \* the stack has been freed
Free == busy = None /\ walk.kind = "no"
UserRuns == busy = None /\ walk.calls /\ ~Over   \* or a handler of its own

Trouble == troubles < MaxTroubles /\ troubles' = troubles + 1

After(s, x) ==
  LET i == CHOOSE i \in DOMAIN s : s[i] = x
  IN IF i < Len(s) THEN s[i + 1] ELSE None

(* list_unlink.                                                             *)
Unlinked(s, x) ==
  LET at == {i \in DOMAIN s : s[i] = x}
  IN IF at = {} THEN s ELSE RemoveAt(s, CHOOSE i \in at : TRUE)

-----------------------------------------------------------------------------
(* The end of a request: it tells its user and is freed, with its queries   *)
(* and its transaction, which takes its message out of the queue.           *)

Ended(q, outcome) ==
  [Unused EXCEPT !.life = "freed", !.outcome = outcome, !.tells = q.tells,
            !.told = IF q.tells /\ outcome # "refused" THEN q.told + 1 ELSE q.told,
            !.canceled = q.canceled, !.untried = q.untried, !.srvl = q.srvl,
            !.late = q.late]

Unqueue(r) ==
  IF rq[r].qent
  THEN /\ conn' = [d \in Targets |-> [conn[d] EXCEPT !.ql = Unlinked(@, r)]]
       /\ walk' = [walk EXCEPT !.q = Unlinked(@, r)]
  ELSE UNCHANGED <<conn, walk>>

(* What request_next, addr_lookup and response_handler do to the request.   *)
(* The connections are left to the caller.                                  *)
Becomes(r, q) == rq' = [rq EXCEPT ![r] = q] /\ UNCHANGED reql

terminate(r, q, outcome) ==
  /\ rq' = [rq EXCEPT ![r] = Ended(q, outcome)]
  /\ reql' = Unlinked(reql, r)

(* sip_ctrans_cancel on the transaction of q.                               *)
sip_ctrans_cancel(q) == IF q.ct = "proceeding" /\ q.invite THEN "ending" ELSE q.ct

Canceled(q) ==
  IF q.canceled THEN q
  ELSE [q EXCEPT !.canceled = TRUE,
                 !.ct = IF q.provrecv THEN sip_ctrans_cancel(q) ELSE @]

-----------------------------------------------------------------------------
(* Finding addresses.                                                       *)

(* The A and AAAA queries for the host of q.  The second may fail when the  *)
(* first is already under way.                                              *)
Looking(q) == [q EXCEPT !.dnsq = "addr", !.dnsq2 = IPv6]

(* The next transport in the order of enum sip_transp, and the one before.  *)
transp_next(tp) ==
  LET more == {t \in Supported : t > tp}
  IN IF more = {} THEN None ELSE CHOOSE t \in more : \A u \in more : t <= u

transp_next_srv(tp) ==
  LET less == {t \in Supported : t < tp}
  IN IF less = {} THEN None ELSE CHOOSE t \in less : \A u \in less : t >= u

(* A query is started for q, or cannot be and the request ends.             *)
Asks(r, q) ==
  \/ Becomes(r, q) /\ UNCHANGED troubles
  \/ Trouble /\ terminate(r, q, "trouble")

(* The answer to the NAPTR query: a record for a transport there is, with   *)
(* or without SRV records in the additional section; or none.               *)
naptr_handler(r) ==
  /\ Free /\ Live(r) /\ rq[r].dnsq = "naptr"
  /\ \/ /\ \E tp \in Supported, srvs \in SUBSET Srvs :
             LET q == [rq[r] EXCEPT !.tp = tp, !.tp_selected = TRUE, !.srvl = srvs]
             IN IF srvs = {}
                THEN Asks(r, [q EXCEPT !.dnsq = "srv"]) /\ UNCHANGED busy
                ELSE Becomes(r, [q EXCEPT !.dnsq = "no"]) /\ busy' = r
                     /\ UNCHANGED troubles
     \/ /\ Asks(r, [rq[r] EXCEPT !.dnsq = "srv", !.tp = transp_next_srv(TranspC)])
        /\ UNCHANGED busy
  /\ UNCHANGED <<conn, old, msg, walk>>

(* The answer to an SRV query.  Without records the next transport is       *)
(* tried, then the host itself.                                             *)
srv_handler(r) ==
  /\ Free /\ Live(r) /\ rq[r].dnsq = "srv"
  /\ \E srvs \in SUBSET Srvs :
       LET q == rq[r]
           next == transp_next_srv(q.tp)
       IN IF srvs # {}
          THEN /\ Becomes(r, [q EXCEPT !.srvl = srvs, !.dnsq = "no"])
               /\ busy' = r /\ UNCHANGED troubles
          ELSE /\ UNCHANGED busy
               /\ IF ~q.tp_selected /\ next # None
                  THEN Asks(r, [q EXCEPT !.tp = next])
                  ELSE Asks(r, Looking([q EXCEPT !.port = Host,
                         !.tp = IF q.tp_selected THEN @ ELSE transp_next(NoTransp)]))
  /\ UNCHANGED <<conn, old, msg, walk>>

(* Fault: it does not wait for the other query.                             *)
addr_handler_eager(r) ==
  /\ Free /\ Live(r)
  /\ \E first \in BOOLEAN : \E found \in SUBSET (IF first THEN A ELSE AAAA) :
       LET q == rq[r]
           t == [q EXCEPT !.addrl = @ \cup found, !.untried = @ \cup {q.port} \X found,
                          !.dnsq = IF first THEN "no" ELSE @,
                          !.dnsq2 = IF first THEN @ ELSE FALSE]
       IN /\ IF first THEN q.dnsq = "addr" ELSE q.dnsq2
          /\ \/ t.addrl = {} /\ t.srvl = {} /\ terminate(r, t, "failed") /\ UNCHANGED busy
             \/ (t.addrl # {} \/ t.srvl # {}) /\ Becomes(r, t) /\ busy' = r
  /\ UNCHANGED <<conn, old, msg, walk, troubles>>

(* The answer to the A query (the first) or to the AAAA query.              *)
addr_handler(r) ==
  /\ Free /\ Live(r)
  /\ \E first \in BOOLEAN : \E found \in SUBSET (IF first THEN A ELSE AAAA) :
       LET q == rq[r]
           t == [q EXCEPT !.addrl = @ \cup found, !.untried = @ \cup {q.port} \X found,
                          !.dnsq = IF first THEN "no" ELSE @,
                          !.dnsq2 = IF first THEN @ ELSE FALSE]
       IN /\ IF first THEN q.dnsq = "addr" ELSE q.dnsq2
          /\ IF t.dnsq # "no" \/ t.dnsq2 THEN Becomes(r, t) /\ UNCHANGED busy
             ELSE IF t.addrl = {} /\ t.srvl = {}
             THEN terminate(r, t, "failed") /\ UNCHANGED busy
             ELSE Becomes(r, t) /\ busy' = r
  /\ UNCHANGED <<conn, old, msg, walk, troubles>>

-----------------------------------------------------------------------------
(* Sending.                                                                 *)

(* Fault: provrecv is left from the attempt before.                         *)
Sent_provrecv(q, d, queued) ==
  [q EXCEPT !.ct = "calling", !.qent = queued, !.untried = @ \ {d}]

(* A transaction with target d has begun.                                   *)
Sent(q, d, queued) ==
  [q EXCEPT !.provrecv = FALSE, !.ct = "calling", !.qent = queued,
            !.untried = @ \ {d}]

(* The message waits for a connection that is being set up, perhaps for it. *)
Queues(q, d) == q.tp # UDP /\ conn[d].state # "up"

conn_send(r, q, d) ==
  IF ~Queues(q, d) THEN UNCHANGED conn
  ELSE conn' = [conn EXCEPT ![d] =
         [state |-> "setup", refs |-> 1,
          ql |-> IF q.stateful THEN Append(@.ql, r) ELSE @.ql]]

(* request(): the transaction begins, or a stateless request is done.       *)
request(r, q, d) ==
  /\ conn_send(r, q, d)
  /\ IF q.stateful THEN Becomes(r, Sent(q, d, Queues(q, d)))
     ELSE terminate(r, [q EXCEPT !.tells = FALSE], "sent")

(* Fault: a target that cannot be sent to ends it.                          *)
request_next_once(r) ==
  /\ busy = r /\ rq[r].addrl # {}
  /\ \E a \in rq[r].addrl :
       LET q == [rq[r] EXCEPT !.addrl = @ \ {a}]
           d == <<q.port, a>>
       IN \/ request(r, q, d) /\ UNCHANGED troubles
          \/ Trouble /\ terminate(r, q, "failed") /\ UNCHANGED conn
  /\ busy' = None /\ UNCHANGED <<old, msg, walk>>

(* The next address; when there is none, the next SRV target, whose         *)
(* addresses may be known from the answer it came with.                     *)
request_next(r) ==
  /\ busy = r /\ UNCHANGED <<old, msg, walk>>
  /\ LET q == rq[r] IN
     \/ \E a \in q.addrl :
          LET t == [q EXCEPT !.addrl = @ \ {a}]
              d == <<q.port, a>>
              u == [t EXCEPT !.untried = @ \ {d}]
          IN \/ request(r, t, d) /\ busy' = None /\ UNCHANGED troubles
             \/ /\ Trouble /\ UNCHANGED conn
                /\ IF t.addrl # {} \/ t.srvl # {} THEN Becomes(r, u) /\ UNCHANGED busy
                   ELSE terminate(r, u, "failed") /\ busy' = None
     \/ /\ q.addrl = {} /\ UNCHANGED conn
        /\ \E s \in q.srvl, known \in SUBSET Addrs :
             LET t == [q EXCEPT !.srvl = @ \ {s}, !.port = s, !.addrl = known,
                                !.untried = @ \cup {s} \X known]
             IN IF known # {} THEN Becomes(r, t) /\ UNCHANGED <<busy, troubles>>
                ELSE Asks(r, Looking(t)) /\ busy' = None

(* The transaction of r has failed, by an error or with 503.                *)
Failover(r, q, outcome) ==
  IF ~q.canceled /\ (q.addrl # {} \/ q.srvl # {})
  THEN Becomes(r, q) /\ busy' = r
  ELSE terminate(r, q, outcome) /\ busy' = None

-----------------------------------------------------------------------------
(* What the user does, in the main loop or in a handler.                    *)

(* The request r as it is made: with or without a transaction, to an        *)
(* address, a name with a port or a name.  The route may select a transport,*)
(* which is remembered for a name.                                          *)
Made(k, stateful, invite, tp) ==
  [Unused EXCEPT !.life = "live", !.stateful = stateful, !.invite = invite,
     !.owner = stateful, !.tells = stateful,
     !.tp = IF tp = None THEN transp_next(NoTransp) ELSE tp,
     !.tp_selected = k = "name" /\ tp # None,
     !.late = walk.kind \in {"abort1", "abort2"}]

SentAtOnce(r, q, d) ==
  /\ conn_send(r, q, d)
  /\ IF q.stateful
     THEN rq' = [rq EXCEPT ![r] = Sent(q, d, Queues(q, d))] /\ reql' = Append(reql, r)
     ELSE rq' = [rq EXCEPT ![r] = Ended(q, "sent")] /\ UNCHANGED reql

(* Its outcome is an error, of which the caller knows, or it is under way.  *)
(* Follow-ups of requests that were aborted start no others.                *)
sip_request(r) ==
  /\ UserRuns /\ rq[r].life = "unused"
  /\ walk.kind = "abort2" => ~rq[walk.at].late
  /\ \E k \in IF r \in Plain THEN {"address"} ELSE Routes,
        stateful \in IF r \in Plain THEN {TRUE} ELSE BOOLEAN,
        invite \in IF r \in Plain THEN {FALSE} ELSE BOOLEAN,
        tp \in IF r \in Plain THEN Supported \ {UDP} ELSE Supported \cup {None} :
       LET q == Made(k, stateful, invite, tp) IN
       \/ /\ Trouble /\ rq' = [rq EXCEPT ![r] = Ended(q, "refused")]
          /\ UNCHANGED <<reql, conn>>
       \/ /\ k = "address" /\ UNCHANGED troubles
          /\ \E a \in Addrs : SentAtOnce(r, q, <<Host, a>>)
       \/ /\ k # "address" /\ UNCHANGED <<conn, troubles>>
          /\ rq' = [rq EXCEPT ![r] =
               IF k = "port" THEN Looking(q)
               ELSE [q EXCEPT !.dnsq = IF q.tp_selected THEN "srv" ELSE "naptr"]]
          /\ reql' = Append(reql, r)
  /\ UNCHANGED <<old, msg, busy, walk>>

sip_request_cancel(r) ==
  /\ UserRuns /\ Live(r) /\ rq[r].owner /\ ~rq[r].canceled
  /\ Becomes(r, Canceled(rq[r]))
  /\ UNCHANGED <<conn, old, msg, busy, walk, troubles>>

(* Fault: a request its user lets go of is freed at once.                   *)
destructor_now(r) ==
  /\ UserRuns /\ Live(r) /\ rq[r].owner
  /\ terminate(r, [rq[r] EXCEPT !.tells = FALSE], "aborted") /\ Unqueue(r)
  /\ UNCHANGED <<old, msg, busy, troubles>>

(* The user lets go of a request: it lives on until it is over.             *)
destructor(r) ==
  /\ UserRuns /\ Live(r) /\ rq[r].owner
  /\ Becomes(r, Canceled([rq[r] EXCEPT !.owner = FALSE, !.tells = FALSE]))
  /\ UNCHANGED <<conn, old, msg, busy, walk, troubles>>

-----------------------------------------------------------------------------
(* What becomes of a transaction.                                           *)

Responding(r) == Free /\ Live(r) /\ rq[r].ct # "no" /\ ~rq[r].qent

Provisional(r) ==
  /\ Responding(r)
  /\ LET q == [rq[r] EXCEPT !.ct = IF @ = "ending" THEN @ ELSE "proceeding"]
         t == [q EXCEPT !.provrecv = TRUE]
     IN Becomes(r, IF ~q.provrecv /\ q.canceled
                   THEN [t EXCEPT !.ct = sip_ctrans_cancel(q)] ELSE t)
  /\ UNCHANGED <<conn, old, msg, busy, walk, troubles>>

response_handler(r) ==
  /\ Responding(r)
  /\ LET q == [rq[r] EXCEPT !.ct = "no"]
     IN \/ terminate(r, q, "answered") /\ UNCHANGED busy
        \/ Failover(r, q, "failed")                     \* 503
  /\ UNCHANGED <<conn, old, msg, walk, troubles>>

(* Its timer, which an INVITE with a provisional response has not until it  *)
(* is cancelled.  The message may still be queued.                          *)
Timeout(r) ==
  /\ Free /\ Live(r) /\ rq[r].ct # "no"
  /\ ~(rq[r].invite /\ rq[r].ct = "proceeding")
  /\ Failover(r, [rq[r] EXCEPT !.ct = "no", !.qent = FALSE], "failed")
  /\ Unqueue(r)
  /\ UNCHANGED <<old, msg, troubles>>

-----------------------------------------------------------------------------
(* Connections.  Each step of a walk removes the entry it has served and    *)
(* serves the next one.                                                     *)

(* The queue that is being walked, and what is left when at is removed.     *)
Queue == IF walk.kind = "estab" THEN conn[walk.d].ql ELSE walk.q

Misused(q) == (walk.at # None /\ ~Contains(q, walk.at))
              \/ (walk.le # None /\ ~Contains(q, walk.le))

(* transport_handler for the entry of r, whose qent has been cleared.       *)
TransportFails(r) ==
  Failover(r, [rq[r] EXCEPT !.ct = "no", !.qent = FALSE], "failed")

Leaves(q, x) == IF x = None THEN q ELSE Unlinked(q, x)

(* It is lost, refused or idle for too long: it is not found any more, and  *)
(* all that waits for it is told.                                           *)
conn_close(d) ==
  /\ Free /\ conn[d].state # "none"
  /\ conn' = [conn EXCEPT ![d] = NoConn]
  /\ IF msg[d] = "conn"
     THEN old' = [old EXCEPT ![d] = [refs |-> conn[d].refs, why |-> "closed"]]
          /\ msg' = [msg EXCEPT ![d] = "old"]
     ELSE UNCHANGED <<old, msg>>
  /\ walk' = [Idle EXCEPT !.kind = "close", !.d = d, !.q = conn[d].ql,
                !.held = msg[d] = "conn", !.calls = FALSE, !.le = IF conn[d].ql = <<>> THEN None ELSE Head(conn[d].ql)]
  /\ UNCHANGED <<rq, reql, busy, troubles>>

CloseNext ==
  /\ busy = None /\ walk.kind = "close" /\ walk.le # None
  /\ LET q == Leaves(walk.q, walk.at)
     IN walk' = [walk EXCEPT !.q = q, !.at = walk.le, !.calls = TRUE,
                   !.bad = @ \/ Misused(walk.q),
                   !.le = IF Contains(q, walk.le) THEN After(q, walk.le) ELSE None]
  /\ TransportFails(walk.le)
  /\ UNCHANGED <<conn, old, msg, troubles>>

(* The end of the walk; the connection is let go of.                        *)
CloseEnds ==
  /\ busy = None /\ walk.kind = "close" /\ walk.le = None
  /\ walk' = [Idle EXCEPT !.bad = walk.bad \/ Misused(walk.q)]
  /\ old' = [old EXCEPT ![walk.d].refs =
       IF walk.held THEN @ - 1 ELSE @]
  /\ UNCHANGED <<rq, reql, conn, msg, busy, troubles>>

(* It is up: what waits is sent; a send may fail.                           *)
tcp_estab_handler(d) ==
  /\ Free /\ conn[d].state = "setup"
  /\ conn' = [conn EXCEPT ![d].state = "up"]
  /\ walk' = [Idle EXCEPT !.kind = "estab", !.d = d, !.calls = FALSE,
                !.le = IF conn[d].ql = <<>> THEN None ELSE Head(conn[d].ql)]
  /\ UNCHANGED <<rq, reql, old, msg, busy, troubles>>

EstabNext ==
  /\ busy = None /\ walk.kind = "estab" /\ walk.le # None
  /\ LET q == Leaves(Queue, walk.at)
         r == walk.le
         go(calls) == walk' = [walk EXCEPT !.at = r, !.bad = @ \/ Misused(Queue), !.calls = calls,
                        !.le = IF Contains(q, r) THEN After(q, r) ELSE None]
     IN /\ conn' = [conn EXCEPT ![walk.d].ql = q]
        /\ \/ /\ Becomes(r, [rq[r] EXCEPT !.qent = FALSE])
              /\ go(FALSE) /\ UNCHANGED <<busy, troubles>>
           \/ Trouble /\ TransportFails(r) /\ go(TRUE)
  /\ UNCHANGED <<old, msg>>

EstabEnds ==
  /\ busy = None /\ walk.kind = "estab" /\ walk.le = None
  /\ conn' = [conn EXCEPT ![walk.d].ql = Leaves(@, walk.at)]
  /\ walk' = [Idle EXCEPT !.bad = walk.bad \/ Misused(Queue)]
  /\ UNCHANGED <<rq, reql, old, msg, busy, troubles>>

(* The network has changed (uag_reset_transp): connections are let go of    *)
(* without a word to what is queued on them.                                *)
sip_transp_flush ==
  /\ Free /\ \E d \in Targets : conn[d].state # "none"
  /\ Trouble
  /\ conn' = [d \in Targets |-> NoConn]
  /\ old' = [d \in Targets |-> IF msg[d] = "conn" THEN [refs |-> conn[d].refs - 1, why |-> "flushed"]
                               ELSE old[d]]
  /\ msg' = [d \in Targets |-> IF msg[d] = "conn" THEN "old" ELSE msg[d]]
  /\ rq' = [r \in Reqs |-> [rq[r] EXCEPT !.qent = FALSE]]
  /\ UNCHANGED <<reql, busy, walk>>

(* A request is received over a connection, and its server transaction ends.*)
ServerTakes(d) ==
  /\ Free /\ conn[d].state = "up" /\ msg[d] = "no"
  /\ d[2] \in Talkers
  /\ msg' = [msg EXCEPT ![d] = "conn"] /\ conn' = [conn EXCEPT ![d].refs = @ + 1]
  /\ UNCHANGED <<rq, reql, old, busy, walk, troubles>>

ServerEnds(d) ==
  /\ Free /\ msg[d] # "no" /\ msg' = [msg EXCEPT ![d] = "no"]
  /\ IF msg[d] = "conn"
     THEN conn' = [conn EXCEPT ![d].refs = @ - 1] /\ UNCHANGED old
     ELSE old' = [old EXCEPT ![d] = NoOld] /\ UNCHANGED conn
  /\ UNCHANGED <<rq, reql, busy, walk, troubles>>

(* A connection that was flushed but is still held is lost: conn_close and  *)
(* mem_deref all the same.                                                  *)
FlushedCloses(d) ==
  /\ Free /\ old[d].why = "flushed"
  /\ old' = [old EXCEPT ![d] = [refs |-> @.refs - 1, why |-> "lost"]]
  /\ UNCHANGED <<rq, reql, conn, msg, busy, walk, troubles>>

-----------------------------------------------------------------------------
(* The stack is closed (sip.c): sip_request_close, twice.                   *)

sip_close ==
  /\ Free
  /\ walk' = [Idle EXCEPT !.kind = "abort1", !.calls = FALSE,
                !.le = IF reql = <<>> THEN None ELSE Head(reql)]
  /\ UNCHANGED <<rq, reql, conn, old, msg, busy, troubles>>

(* close_handler for the next request; its user may call again.             *)
close_handler ==
  /\ busy = None /\ walk.kind \in {"abort1", "abort2"} /\ walk.le # None
  /\ LET r == walk.le
         w == [walk EXCEPT !.at = r, !.calls = TRUE, !.bad = @ \/ ~Contains(reql, r),
                 !.le = IF Contains(reql, r) THEN After(reql, r) ELSE None]
     IN /\ walk' = w
        /\ terminate(r, rq[r], "aborted")
        /\ conn' = [d \in Targets |-> [conn[d] EXCEPT !.ql = Unlinked(@, r)]]
  /\ UNCHANGED <<old, msg, busy, troubles>>

Flushed == conn' = [d \in Targets |-> NoConn] /\ old' = [d \in Targets |-> NoOld]
           /\ msg' = [d \in Targets |-> "no"]

(* Fault: requests are closed only once.                                    *)
CloseAgain_once ==
  /\ busy = None /\ walk.kind = "abort1" /\ walk.le = None
  /\ walk' = [walk EXCEPT !.kind = "over", !.at = None] /\ Flushed
  /\ UNCHANGED <<rq, reql, busy, troubles>>

(* After the second time the stack is freed, and what it has left.          *)
CloseAgain ==
  /\ busy = None /\ walk.kind \in {"abort1", "abort2"} /\ walk.le = None
  /\ IF walk.kind = "abort1"
     THEN /\ walk' = [walk EXCEPT !.kind = "abort2", !.at = None, !.calls = FALSE,
                        !.le = IF reql = <<>> THEN None ELSE Head(reql)]
          /\ UNCHANGED <<conn, old, msg>>
     ELSE walk' = [walk EXCEPT !.kind = "over", !.at = None] /\ Flushed
  /\ UNCHANGED <<rq, reql, busy, troubles>>

-----------------------------------------------------------------------------
User == \E r \in Reqs : sip_request(r) \/ sip_request_cancel(r) \/ destructor(r)

Answers(r) == naptr_handler(r) \/ srv_handler(r) \/ addr_handler(r)

Walks == CloseNext \/ CloseEnds \/ EstabNext \/ EstabEnds \/ close_handler \/ CloseAgain

Network ==
  \/ \E r \in Reqs : Provisional(r) \/ response_handler(r)
  \/ \E d \in Targets :
       \/ conn_close(d) \/ tcp_estab_handler(d)
       \/ ServerTakes(d) \/ ServerEnds(d) \/ FlushedCloses(d)
  \/ sip_transp_flush

Next ==
  \/ User \/ Network \/ Walks \/ sip_close
  \/ \E r \in Reqs : Answers(r) \/ request_next(r) \/ Timeout(r)

Spec == Init /\ [][Next]_vars

-----------------------------------------------------------------------------
TypeOK ==
  /\ rq \in [Reqs -> Request] /\ IsInjective(reql) /\ ToSet(reql) \subseteq Reqs
  /\ \A d \in Targets : conn[d].state \in {"none", "setup", "up"}
                        /\ ToSet(conn[d].ql) \subseteq Reqs /\ conn[d].refs \in 0..2
  /\ old \in [Targets -> [refs : 0..2, why : {"no", "closed", "flushed", "lost"}]]
  /\ msg \in [Targets -> {"no", "conn", "old"}]
  /\ busy \in Reqs \cup {None} /\ troubles \in 0..MaxTroubles

(* A live request is at one thing, never at none: it looks for addresses,   *)
(* sends to one of them or waits for its transaction.  A second transaction *)
(* would outlive it, and without any it would be forgotten.                 *)
OneAttempt ==
  \A r \in Reqs :
    LET at == {x \in {"query", "next", "transaction"} :
                CASE x = "query" -> rq[r].dnsq # "no" \/ rq[r].dnsq2
                  [] x = "next" -> busy = r
                  [] x = "transaction" -> rq[r].ct # "no"}
    IN IF Live(r) THEN \E x \in at : at = {x} ELSE at = {}

(* The queue of a connection and the transactions that wait in it agree:    *)
(* those of live requests, each in one queue.                               *)
QueuesSound ==
  \A r \in Reqs : rq[r].qent =>
    /\ Live(r) /\ rq[r].ct = "calling"
    /\ \/ \E d \in Targets : Contains(conn[d].ql, r)
       \/ Contains(walk.q, r)

(* A connection that a message holds is not freed before it, except one     *)
(* that was flushed while it was held, and lost afterwards.                 *)
HeldIsKept ==
  \A d \in Targets : /\ msg[d] = "conn" => conn[d].refs > 1
                     /\ msg[d] = "old" => old[d].refs > 0 \/ old[d].why = "lost"

(* No request outlives the stack.                                           *)
AllClosed == Over => \A r \in Reqs : ~Live(r)

(* Walks of queues and of the list of requests use no entry that the        *)
(* handlers they call have freed.                                           *)
MemorySafety == TypeOK /\ ~walk.bad /\ OneAttempt /\ QueuesSound /\ HeldIsKept /\ AllClosed

(* A request that was accepted tells its user the outcome once, or not at   *)
(* all when the user has let go of it.                                      *)
ToldOnce ==
  \A r \in Reqs : LET q == rq[r] IN
    /\ q.life = "freed" /\ q.tells => q.told = IF q.outcome = "refused" THEN 0 ELSE 1
    /\ q.life # "freed" \/ ~q.tells => q.told = 0

(* A request that fails has tried every address it has found, and every     *)
(* SRV target, unless it was cancelled or a query could not be sent.        *)
TriesAll ==
  \A r \in Reqs : rq[r].outcome = "failed" /\ ~rq[r].canceled =>
    rq[r].untried = {} /\ rq[r].srvl = {}

(* A cancelled INVITE is cancelled at the server it was last sent to, as    *)
(* soon as there is a provisional response, through all failovers.          *)
CancelReaches ==
  \A r \in Reqs : ~(rq[r].canceled /\ rq[r].invite /\ rq[r].ct = "proceeding")

OutcomeIsRight == ToldOnce /\ TriesAll /\ CancelReaches
=============================================================================
