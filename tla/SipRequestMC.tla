---------------------------- MODULE SipRequestMC ----------------------------
(****************************************************************************)
(* SipRequest under names of its own, for its run and for the module that   *)
(* proves it beside SipTransaction.                                         *)
(****************************************************************************)
CONSTANTS
  Reqs, Srvs, Host, A, AAAA, Supported, IPv6, Routes, Plain, None, Talkers, MaxTroubles

VARIABLES rq, reql, conn, old, msg, busy, walk, troubles

Req == INSTANCE SipRequest

ASSUME SipRequestAssumption == Req!Configuration

RequestSpec == Req!Spec

(* No walk uses an entry a handler has freed, a live request is at one       *)
(* thing, queues and transactions agree, what is held is kept, and no        *)
(* request outlives the stack (request.c, transp.c).                         *)
MemorySafety == Req!MemorySafety

(* The user is told once, a failure has tried every address and target, and  *)
(* a cancelled INVITE is cancelled where it is answered (request.c).         *)
OutcomeIsRight == Req!OutcomeIsRight
=============================================================================
