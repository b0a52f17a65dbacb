# Specifications of the Baresip demo

TLA+ specifications of the program in this repository: a SIP telephone for
Android (`AndroidBaresipDemo`) built on baresip, libre (`re`) and librem.  The
demo is thin; the logic that decides whether a call is set up, ended and freed
correctly lives in `baresip-android/re/src` and `baresip-android/baresip/src`,
and that is what is modelled.

`SRC` below is `src/baresip-android`.  Line numbers refer to this commit.

| module | what it is | runs | theorems |
|---|---|---|---|
| `SessionMoves` | the moves a session makes in the eyes of its user (a table) | | |
| `SessionService` | what a SIP session promises (abstract) | | |
| `SipSession` | one session object, `SRC/re/src/sipsess` | `SipSession.cfg` | `SipSessionProofs` |
| `Call` | the calls of one user agent, `SRC/baresip/src` call.c and ua.c | `Call.cfg`, `CallHangup.cfg`, `CallTransfer.cfg` | `CallProofs` |
| `TransactionService` | what a SIP transaction promises (abstract) | | |
| `SipTransaction` | client and server transaction over a network, `SRC/re/src/sip` | `SipTransaction.cfg` | `SipTransactionProofs` |
| `SipRequest` | the way of a request to a server: `SRC/re/src/sip` request.c, transp.c, sip.c | (in `SipRequestMC`) | (there) |
| `SipRequestMC` | SipRequest under names of its own, for its run and its proofs | `SipRequest.cfg` | `SipTransactionProofs` |
| `SipReg` | registration clients, their owner, the registrar: `SRC/re/src/sipreg`, `SRC/baresip/src/reg.c` | `SipReg.cfg`, `SipRegRace.cfg` | `SipRegProofs` |
| `SipSubscription` | one subscription or REFER: `SRC/re/src/sipevent/subscribe.c`, the NOTIFY handler of listen.c | `SipSubscription.cfg` | `SipSubscriptionProofs` |
| `SipNotifier` | one notifier: `SRC/re/src/sipevent/notify.c`, the SUBSCRIBE handler of listen.c | `SipNotifier.cfg` | `SipNotifierProofs` |
| `MainLoop` | the loop all of these run in, its timers and message queue: `SRC/re/src` main.c, tmr.c, mqueue.c, with the demo's threads (baresip_helper.c) | `MainLoop.cfg` | `MainLoopProofs` |
| `JitterBuffer` | the jitter buffer as operators, `SRC/re/src/jbuf/jbuf.c` | (in `AudioStream`) | (there) |
| `AudioStream` | a call's audio between network and devices: `SRC/baresip/src` stream.c, audio.c, `SRC/rem/src/aubuf` | `AudioStream.cfg` | `AudioStreamProofs` |

To check a module: `tlc -config SipReg.cfg SipReg`; to check its proofs:
`tlapm SipRegProofs.tla`.  `PROJECT.json` maps every definition to the lines it
models, and lists the runs, the faults the properties detect ("mutants"), the
hazards of the code and the theorems.


## The system

Everything in re and baresip runs in one event loop (`re_main`): sockets, timers
and message queues call handlers, one at a time, and a handler runs to its end,
with every callback it makes.  So concurrency inside the library is the order in
which handlers run, and an action of a model is a whole handler.  What makes it
hard is that objects are reference counted by hand, that handlers call back into
their owners (who may free the object whose handler is running), and that
transactions outlive the objects that started them.

| component | state | operations | talks to |
|---|---|---|---|
| SIP session (`re/src/sipsess`) | reference count, teardown stage, the one request in flight, unacknowledged 2xx replies, INFO requests, offer/answer flags | connect, accept, progress, answer, reject, modify, info, release; responses; the peer's INVITE, ACK, BYE, CANCEL, INFO, REFER; reply and re-INVITE timers | transactions below, call above (callbacks) |
| SIP transactions (`re/src/sip` ctrans.c, strans.c) | a state machine and timers on each side, the last message for retransmission | request, cancel, reply; responses, requests, ACK, CANCEL; timers | transport below, request.c and sessions above |
| SIP requests (request.c) | DNS records to try, the current client transaction, loop state | request, cancel, lookup results, failover | DNS, transactions |
| SIP transport (transp.c) | connections, their queues of waiting requests, keepalives | send, receive, connect, close | sockets, transactions |
| Registration (`re/src/sipreg`, baresip reg.c) | one request, one timer, keepalive, flags; the client in use | register, unregister; responses, timer, flow failure | requests, user agent |
| SIP events (`re/src/sipevent`) | subscriptions and notifiers: reference count, the one request in flight, a timer with two uses, what was ended and told | subscribe, refer, accept, notify, fork; responses, NOTIFYs, SUBSCRIBEs, expiry | dialogs, call (transfer) |
| Call (baresip call.c) | state, session, media, timers, transfer | connect, answer, hold, hangup, transfer, modify | session, SDP, streams, user agent |
| User agent (ua.c) | calls, register clients, listening sockets | connect, answer, hang up, register, shut down, network change | calls, registration, application events |
| SDP (`re/src/sdp`) | local and remote media lines | offer, answer, negotiate directions and formats | call, streams |
| Media (stream.c, audio.c, `jbuf`, `aubuf`) | jitter buffer, audio ring buffers shared with the audio driver's threads, RTP timeout | send, receive, read, write | drivers, call |
| Main loop, timers, message queue (`re/src/main`, `tmr`, `mqueue`) | descriptors, the ordered timer list, the lock | poll, start, cancel, push | everything |
| Memory (`re/src/mem`) | reference counts | ref, deref with destructor | everything |
| STUN, TURN, ICE, DNS | transactions with retransmission | | sockets |
| Android service and JNI (`AndroidBaresipDemo`) | two message queues, the user agent pointer, a static `isCallActive` | intents, events, native calls | baresip, from two threads |

Hard behaviours, each listed at its line as a hazard in `PROJECT.json`:

* **Teardown.**  A session dropped by the application still waits for requests,
  INFOs and ACKs; each kind holds one reference, taken in one function and given
  back in five others.  The destructor resurrects its own object.
* **Callbacks that free.**  `sipsess_terminate`, the ACK handler and the response
  handlers call the application and then go on.
* **Crossing requests.**  Re-INVITEs of both sides, CANCEL and answer, BYE and
  2xx, un-REGISTER and REGISTER.
* **The network.**  UDP loses, repeats and reorders; retransmissions, timers and
  the server's kept replies must make one request of it.
* **Failure.**  Sends that fail, challenges that cannot be met, loops, timeouts
  whose request was granted after all.
* **Forgotten wakeups.**  A registration lives on its timer: one path of the
  response handler that does not arm it and the user is silently unreachable.
* **Threads.**  The Android service calls the library from a thread of its own
  while another runs the loop, without the lock the library provides.
* **Numbers.**  Seconds multiplied into 32-bit milliseconds, sequence numbers
  that wrap.

What makes each component correct, beyond the properties below: a call shows one
end to the user, whoever hangs up first; a transfer ends in one call or the old
one; offers and answers leave both sides with complementary directions; a timer
fires once, in order, and never after it was cancelled; a jitter buffer hands out
packets in order and never twice; a registration is shown exactly while it
exists.


## SipSession

One `struct sipsess`.  `obj` holds what the memory and teardown functions work on
(life, `nrefs`, `terminated`, `sess->req`, the loop state); the other variables
are the fields of the structure under their names, `replies` the list of 2xx
replies and `info` that of INFO requests.  The functions of sess.c are operators
on the value of `obj` (`termwait`, `terminate`, `destructor`, `mem_deref`,
`sipsess_terminate`), so that one handler can apply several of them and stop
where its callback freed the object.  Handlers are actions under their names in
the code.  `Env` is what a step finds outside: whether a message can be sent,
whether the application accepts the offer or has credentials, and whether it
drops the session from inside the callback.

Assumptions.  The application drops a session from `progrh`, `estabh` and
`closeh`, or between handlers, as baresip's call.c does.  A CSeq that equals the
last one is accepted, as dialog.c:529 does.  A 2xx the session cannot use
("2xxbad": no usable Contact or no memory, connect.c:53) ends it without ACK or
BYE, because the dialog has no target to send them to.  The cache of ACKs (ack.c)
is reduced to what the session sees of it; `sipsess_close_all` is not modelled.

`session` explores every order of calls, responses, peer requests and timers with
three CSeqs, three 2xx replies, one INFO and loops of two: 46 493 states.  Three
replies and CSeqs let a modification, an answer that awaits its ACK and a crossing
re-INVITE be in progress together; a loop limit of two reaches "one failure" and
"loop" (the code's is 16); a second INFO adds nothing, as only the emptiness of
the list is ever tested.

* Safety, checked and proved: `MemorySafety` (`RefBalance`, the count is what the
  holders add up to; `NoUseAfterFree`; `NothingDangling`; `OneRequest`),
  `NoHalfOpenCall` (the peer is never left with a call, whatever order answer,
  cancellation, teardown and lost ACK come in); `PutOffNotForgotten`, which is `NoGlare`
  and `NothingForgotten`
  (`ModifyHasTrigger`, a postponed modification is always sent by somebody;
  `AwaitingHasReply`; `PendingInviteKept`);
  `ToldOfEnd`; and `ImplementsSession`: every step is a move of `SessionService`, so that a
  session is established at most once, its end is told at most once and last, and a
  session its user has released is silent.
* Liveness: `ReleasedIsFreed`.  Fairness: the transaction
  layer ends the requests of a session that is going away (an INVITE that was
  cancelled, everything else; this is what `SipTransaction!Ends` establishes) and
  the reply timer fires.  Nothing is assumed of an INVITE that rings, of the
  re-INVITE timer or of the application.

## TransactionService and SipTransaction

`TransactionService` is the promise made to the two users of a transaction: the
request is handed up once, and again only if the earlier answer was not kept; an
answer that was kept is the last; the client is told one outcome, an answer that
was given or an error.

`SipTransaction` is what delivers it: the client transaction with the part of
request.c that owns it (`ct`, `timers`, `provrecv`, `canceled`), the transaction of
its CANCEL (`cc`), the connection's queue (`queued`), the messages in flight, and
the server transaction (`st`, `stimers`, `reply`) with its user.  INVITE or not, and
UDP or a connection, are chosen in `Init`.  `net` is a set: over UDP a message
received may stay in it (a duplicate) or leave, in any order, and `Lose` drops it;
over a connection a message is received once.

Assumptions.  One destination (failover starts another transaction).  The user of
the server allocates and answers in one step, as `sipsess_accept` and `sip_treply`
do.  CANCEL is answered without a transaction, with 481 by `sip_recv` when there is
none to cancel.  Merged requests (482) are left out.  `Outlived` is the protocol's
own assumption that 64*T1 and T4 outlast every copy of the request; without it no
timer value is right.

`transaction` (19 328 states, the request handed up at most three times) checks
`ImplementsService`, the refinement; `CauseBeforeEffect` (`ConfirmedIsKnown` and
`CancelFollowsRequest`), `NothingSentAfterOutcome`; and `BothEnd` (`Ends` and
`Released`) under fairness:
an armed timer fires (the loop runs expired timers) and no message stays in flight for
ever.  Being handed up three times covers a reply that failed, a stateless one and one
that was kept; the theorem covers every number.  An INVITE in PROCEEDING has no timer
in ctrans.c (RFC 3261's Timer C belongs to proxies), so `Ends` promises an end only to
requests that are cancelled or not INVITEs, and to the others a response or an end.

## SipReg

All the registration clients baresip's reg.c creates one after the other, and the
registrar that keeps one binding for their common contact.  A client is a record;
`request`, `destructor`, `Settle` and `response_handler` are functions of it, so
that the destructor can call `request` and the response handler the destructor, as
the code does.  The registrar answers a request at any moment after it was sent,
in any order among clients, with a grant, a challenge, a longer minimum expiry or
a failure; the answer may be lost ("fail").

* `registration` (73 317 states; two clients, loops of two): `NeverDormant` (the
  client in use has its one request out or its timer armed), `MemorySafe`,
  `LeavesNoBinding`, `NoRegisterOnceDropped`, and under fairness `AsksOrGoes`:
  `DroppedIsFreed`, and `KeepsAsking`, that a client which stays in use has refreshes or
  retries attempted for ever.  The fairness is that armed timers fire and that
  transactions end.  Nothing is assumed of the registrar, nor of the network: without
  one, `tmr_handler` fails, re-arms and fails again (reg.c:105), and no request need
  ever go out.  Such a failure after another changes nothing in the client; `attempt`,
  which alternates whenever the timer's handler runs, makes it a step, so that fairness
  does not force a send to succeed.
  Two clients are the one in use and the one it replaced: a third meets either of them
  as the second did.
* `registration_race` refutes `RegisteredIsBound`: baresip shows an account as
  registered (ua.c:248 "it is enough if one of the registrations work") though the
  registrar has no binding.  `reg_register` drops the client in use and starts its
  successor in one step; the dropped client, if its REGISTER is outstanding, sends
  its un-REGISTER only when that is answered, which may be after the successor was
  granted its binding, and removes it.  The next refresh repairs it.

## SipSubscription and SipNotifier

The two ends of a subscription, each as one record with the fields of its C
structure (`struct sipsub`, `struct sipnot`), and the functions of subscribe.c and
notify.c as functions of that record, as in SipReg.  Each module has the other end as
its environment: `peer` and `notes` are the notifier of a subscription and its NOTIFYs
in flight, which are delayed, lost and overtaken by responses; a notifier meets every
SUBSCRIBE and every answer to its NOTIFY at any moment.  `Env` is what a step finds
outside: whether requests can be sent, whether what arrived can be used, whether the
application drops the subscription from inside its NOTIFY handler.

Assumptions.  No fork handler, as baresip passes none.  Matching of CSeq and event
(listen.c) and the parsing of msg.c are left out; a late "active" after the last
NOTIFY is refused by its CSeq, so the last NOTIFY clears `notes`.  A close handler
that drops its object is the next step, since both `terminate` functions end with the
call of it.  `FailMax` and `LoopMax` of two reach "one failure" and "the limit" (the
code's are 7 and 16).

* `subscription` (7 199 states): `MemorySafety` (`RefBalance` and
  `NoUseAfterFree`), `NeverDormant` (a subscription in use has its one request out or
  its timer armed, and a timer that waits for the last NOTIFY is not taken for a
  refresh), `EndIsSettled` (`ToldOnce` and `LeavesNoSubscription`), and under fairness `ReleasedIsFreed`
  and `EndIsLearnt`: an
  application learns of the end though every NOTIFY that says so is lost, because the
  refresh is answered 481.  Timers fire and transactions end; nothing is assumed of
  the notifier or of the network.
* `notifier` (322 states): `MemorySafety`, `OneNotifyAndItsExpiry`,
  `NoLostUpdate`, `EndIsSettled` (`EndIsSent` and `ToldOnce`), `FinalIsLast`, and `ReleasedIsFreed` if
  transactions end.

What the properties except is what the code really does.  `stray`: a 2xx of another
dialog than that of the NOTIFY before it is ignored (subscribe.c:203) without arming
a timer or giving back a reference, so that a subscription in use is not refreshed any
more and a dropped one is kept.  A subscription made by a REFER has no timer until a
NOTIFY brings an expiry.  `failed`: notify.c:172 ignores that a NOTIFY could not be
sent, and its state is not sent again.  An open notifier of `Call` (`notifiers[n].open`)
is one that is "live" and not terminated here.

## Call

The calls of one user agent, each on top of a session.  What a session may do to its
call is the table of `SessionMoves`, which `SipSession` implements (as
`SessionService`; proved, `Implements`), so the two modules compose through that promise and not by a
product of their states.  `call[c]` holds the fields of `struct call` that control
anything: `state`, the phase of `sess`, the timer `tmr_inv`, `mnat` (with
`mnat_wait`), whether the streams run (`media`) and watch for RTP (`rtp`), and the
notifier `not`.  `calls` is `ua->calls`; `notifiers` are sipevent's, reduced to what a
transfer does with them.  `hungup` and `closed` record the application's side: what it
asked for and how often it was told of the end.

A handler of call.c reports to `call_event_handler` of ua.c, which tells the
application and may free the call, all before the handler returns.  The functions on
such a chain are operators from a value of the objects to the next one (`w` below
`W`, the current one), named as in the code, and an action is `Becomes` of the whole
chain: `sipsess_close_handler` notifies the transferor, stops the streams, reports
the end and frees the call, in that order and in one step.

Assumptions.  `local_timeout` and the RTP timeout are on and `rtp_timeout` does not
change, as in the demo.  The application hangs a call up once and does not call the
library from inside an event.  An attempt that fails at once, and an incoming call
refused with 486, leave nothing behind and are no steps.  What the program does after
it has used freed memory is not modelled: `corrupt` ends the behaviour.  Left out:
hold and re-INVITE (`call_modify`), the transfer we ask for (`call_transfer`), DTMF,
video, and the change of network.

* `call` (91 738 states): two calls and two notifiers, a call limit that is not
  reached, every account setting.  Two calls are the transferred call and the one
  made for it; a second notifier comes with a second REFER; a third of either meets
  these two only as they meet each other.  `NotifierBalance`,
  `StateMatchesSession`, `EndReportedOnce`, `NeverStuck` (`AwaitsSomething` and
  `TimerWhileRinging`), and
  `IncomingIsSettled`, with the event loop running an expired timer as the only
  fairness.  The
  exceptions `AwaitsSomething` names are where the code really stops: `mnat_handler`
  ignores a failed `send_invite` (call.c:276), and `call_progress` has cancelled the
  timer (call.c:774) before it knows whether the 183 could be sent.
* Two runs refute what the repository says of calls.
  - `call_hangup`, `HungUpIsOver`: `ua_hangup` keeps the call it has hung up
    (ua.c:824), so that a call hung up between 200 OK and ACK is established by the
    ACK, media NAT, RTP timer or session end such a call again, and with the demo's
    `max_calls` of 1 it still fills the list: every incoming call is refused.
  - `call_transfer`, `NotifierHasCall`: the call that received a REFER is freed while
    the call made for it keeps the notifier, whose close handler has the first call as
    its argument.

These runs and `call` do not check for deadlock: with the user agent gone, or memory
corrupted, nothing is left to do.


## MainLoop

`re_main` with its mutex (`lock`), the sorted list of timers (`tmrl`, and `due` for
`tmr.jfs` less the time), the poll and the message queue's pipe, run by one thread.
`Workers` enter the library with `re_thread_enter`; `Bare` threads call it without, as
the demo's worker thread does (baresip_helper.c:127).  Handlers and threads start,
restart and cancel timers, send messages and end the loop; signals interrupt the poll,
errors end it, and the clock, which is the time of day (tmr.c:124), is set.

`loop` (166 564 states): two timers with delays up to 3, a pipe with room for one
message, one thread of each kind, an `int` that wraps at 6, handlers that run one unit
past a timer's time, one trouble.  Two timers are every order, tie and restart of a
pair, and the list is only ever compared pairwise; a delay of 3 is the one that does
not fit the `int`.

* `ListSound`: the list is sorted and has no timer twice, and threads that enter the
  library are never in it together, nor with the loop, through sleeping, waking,
  signals, errors and the end of `re_main`.
* `WakesInTime`: the poll sleeps no longer than until the first timer.  Its three
  exceptions are what the code does: a timer another thread starts while the loop
  sleeps does not wake it, nor does a clock set forward, and a timeout that does not fit
  the `int` (main.c:713) is negative and sleeps for ever.  The last is not remote:
  `local_timeout` is in seconds, the demo sets it to 7200000, and call.c:1424 multiplies
  by 1000.
* `LoopServes`: an overdue timer runs and a message arrives.  Fairness: handlers and
  calls return, threads do not keep the mutex from the loop for ever, time passes.
  Excepted are `Raced`, a bare thread met another inside the library, after which
  nothing is defined and the model stops, and `Wedged`, a thread that holds the mutex,
  or a handler, blocks on a full pipe only the loop can empty (mqueue.c:152).

Left out: registering descriptors (fd_listen, fd_close) and events for one that was
closed, the choice of the poll method, the signal handler.

## SipRequest

What `SipTransaction` leaves to its user: from a URI to an address, and from one
address to the next.  A record of `rq` has the fields of `struct sip_request`;
`naptr_handler`, `srv_handler`, `addr_handler` and `request_next` walk the records DNS
returns, `Failover` is taken after an error or a 503, and a client transaction is the
field `ct`, with the states its user can tell apart.  Connections are shared: `conn` is
what conn_find finds, `old` one that messages still hold, and a request waits in a
connection's queue until it is up.  Functions that call handlers while they walk a list
(conn_close, tcp_estab_handler, sip_request_close) are one action per entry, with the
user's calls between them.

`request` (1 454 036 states): two requests, the second to an address over TCP; one SRV
target and the host, one A and one AAAA record, UDP and TCP, one failure.  Two requests
are what one queue and one list walk need; two targets and two addresses make every
failover there is between addresses and between targets.

* `MemorySafety`: a walk uses no entry that the handlers it calls have freed, a live
  request is at exactly one thing (`OneAttempt`), queues and transactions agree, a
  connection that is held is kept, and no request outlives the stack, though handlers
  make new ones while it is closed.  `HeldIsKept` excepts a connection that was flushed
  while a message held it and lost afterwards: transp.c gives its reference back twice.
* `OutcomeIsRight`: the user is told once, a request fails only after every address and
  target, and a cancelled INVITE is cancelled wherever failover has brought it.

Left out: keepalives, UDP sockets, the framing of messages, and the DNS client itself
(a query is answered, fails or is cancelled with its request).

## JitterBuffer and AudioStream

`JitterBuffer` has jbuf.c as operators on a buffer: the pool, the list sorted by 16-bit
sequence numbers, what counts as late and as a duplicate.  `AudioStream` is its user:
the main thread receives packets (`rtp_recv`), gives them to the decoder
(`stream_recv_handler`, `aurx_stream_decode`, concealment of what was lost) and sets
codecs (`audio_encoder_set`, `audio_decoder_set`), one call of audio.c at a time as
call.c makes them (`todo`); player and source call back on threads of their own, and
closing a device waits for the call it is in.  The network delays, loses and repeats
packets.  A packet is its place in the order of sending; its number, source and payload
type follow from that.

`audio` (668 914 states): four packets whose numbers cross the wrap (at 16), a new
source and a new payload type among them and a telephone event; each packet may
overtake one older one, and so be overtaken by all; delays of none, 1 and 2 frames of at
most 2, which are no jitter buffer, a working one and one that is always full; a codec
of each rate and a second one of the same; the device at its codec's rate or a fixed one;
one update of the call and one trouble (a packet lost or repeated, a device or codec
that fails).  One update meets every packet and thread; a second finds the state a
first left, which the next packet's payload type reaches too.

* `MemorySafety`: the jitter buffer is sorted and counted; a device's thread never works
  on a buffer that was freed nor with an encoder that was replaced, except that the
  encoder is replaced under the running source by a codec of the same rate
  (audio.c:1213).
* `PlaysInOrder`: while no packet is delayed by more than `min` places and none is
  repeated, packets are decoded in the order they were sent in.  A packet repeated
  exactly `min` places later is decoded twice, as jbuf.c:208 compares it with what
  waits, not with what was given out.
* `KeepsWhatArrives`: no packet of the present source is refused or thrown away while
  neighbours are all the network swaps and sources do not mix, and at most `min` frames
  wait.  Sources mix when one that was heard of goes on after another: each change of
  source flushes what waits.
* `DecodedIsHeard`: a codec set in mid-call has its devices reopened, what is decoded
  reaches the audio buffer, and the buffer's count is that of its frames.  Excepted are a
  change of rate, as the audio buffer and the resampler stay those of the codec before,
  and a packet that changes the codec while the source cannot be opened:
  `audio_decoder_set` starts the source as well, and returns its error before the packet
  is decoded (audio.c:1283 and 650).

The model also shows that a buffer with `min` = `max` never gives a frame, and that the
demo's own setting (`jitter_buffer_delay` 0-2) is no jitter buffer.  Left out: the
contents of what is sent, the sending threads other than the device's, telephone
events, filters, RTCP, the RTP timeout (a timer of `Call`), the limit of the audio
buffer when empty pieces are queued (aubuf.c:125), video.


## Theorems

The type invariants (`TypeOK`) are proved, and so no run repeats them, but for
SipSubscription's and SipRequest's, which are part of their `MemorySafety`.  The
theorems hold for every value of the constants, from the named assumptions of the
modules: `BoundsAssumption` (SipSession, SipReg, SipSubscription),
`MaxHandedAssumption` and `LoopMaxAssumption`, which say that bounds are positive;
`CallAssumption` (finitely many calls, and a value that is none of them);
`MainLoopAssumption` (the threads are told apart, the bounds are positive);
`SipRequestAssumption` (the host is no target of an SRV record, the address types are
disjoint, some transport of UDP and TCP is supported; it is stated of SipRequest by the module
that instantiates it, `SipRequestMC`);
`WrapAssumption` (sequence numbers wrap at an even number) and `AudioStreamAssumption`
(packets, codecs and delays are what the code can be given; every packet has a source,
as SSRC 0 stands for none yet).  Nothing else is assumed, but for what four theorems of
AudioStreamProofs state themselves.

* `SipSessionProofs`: `TypeCorrect`, `MemorySafe` (MemorySafety, with one theorem for
  each of its parts: `Balanced`, `NeverUsedFreed`, `RequestsSerialised`,
  `FreedWhenUnused`), `CallsAreEnded` (NoHalfOpenCall).
  `RefBalance` alone is not inductive: to see that a handler pays back what teardown
  took, one must know that stage 1 is left only when nothing is waited for, that
  stage 2 waits for a BYE or nothing, and that a session in use is held by the
  application.  `Core` says so (`Sound` for the object, the history of the call for
  NoHalfOpenCall), and the proof follows the code: lemmas about `termwait`,
  `terminate` and `mem_deref`, one about each way a handler ends (`Callback`, `Close`,
  `Deref`), and one step per handler on top of them.
  On top of it `EndIsTold` (ToldOfEnd), `PutOffIsKept` (PutOffNotForgotten) and
  `Implements` (ImplementsSession), from the invariant `SInv`: `Informed` ties the
  callbacks made to the teardown stage, `Exchanged` says which request of ours can be in
  flight with which answer (so that a reply waiting for its ACK excludes a re-INVITE of
  ours, and an INVITE in flight a dialog), and `Awaited` that the reply whose ACK must
  bring an answer is the newest, since the timer takes the oldest first.  Each handler is
  shown to be one of four things to its user (`Acts`: nothing, a release, an end or an
  establishment), and `ActsMove` that each of these is a move of the table.
* `SipTransactionProofs`: `TypeCorrect`, `Refinement` (ImplementsService), `SentNoMore`
  (NothingSentAfterOutcome) and `CausesFirst` (CauseBeforeEffect).  The
  invariant `IInv` says that an answer is kept as long as the request may arrive once
  more (`Keeps`), that what the server says on the wire was answered (`Truthful`),
  and that a queued or repeated request is that of a client that waits
  (`ClientSound`).  Every step is shown to be a `ClientMove` or a `ServerMove`, which
  name what a step of either side may change, and those preserve `IInv` and map to a
  step of the service or to a stutter.  `CausesFirst` follows a cause from one side to
  the other: an ACK, in flight or received, is of a client that has its rejection
  (`Heard`), a provisional response and the CANCEL it releases are of a server whose
  user has the request (`Given`).
  The second half of the module is about SipRequest: `RequestsAreSafe` (MemorySafety)
  and `RequestsEndRight` (OutcomeIsRight), for any number of requests, targets and
  addresses, from the invariant `ReqInv`, four parts none of which is inductive alone.
  `RequestsSound`: a live request is at one thing (`LiveAs`), one that is not rests, and
  `reql` holds exactly the live ones.  `QueuesAgree`: a message that waits is in exactly
  one queue, a connection's or the one that is being walked.  `HeldAgree`: a connection's
  references are those of its state, of the message received over it and of the walk that
  closes it.  `WalkAgree`: a walk is at the first entry of its queue and knows the next,
  and the second walk of `sip_close` finds only requests made while it closed.  Each step
  is shown to move one request and one connection (`Moves`); what a handler does to a
  list it is called from is a fact about sequences (`UnlinkedSound`, `AppendedSound`,
  `AfterIsNext`), and `WalkGoesOn` that the walk survives it.
* `SipRegProofs`: `TypeCorrect`, `AlwaysAwake` (NeverDormant), `NoUseAfterFree`
  (MemorySafe), `UnregistersFirst` (LeavesNoBinding), `DroppedAsksNoMore`
  (NoRegisterOnceDropped).  `NeverDormant` needs to know that only the client in use
  is not terminated, and `LeavesNoBinding` how flags, request and binding go
  together: a client whose binding is held has registered, has been in trouble or has
  a grant it has not seen.  `IInv` describes a client between steps (`Steady`), and
  the lemmas one inside a handler (`Handling`).
* `SipNotifierProofs`: `Invariance`, `TypeCorrect`, `MemorySafe`
  (MemorySafety), `ExpiryRuns` (OneNotifyAndItsExpiry), `UpdatesGoOut`
  (NoLostUpdate), `EndKnownToBoth` (EndIsSettled, of `SaysGoodbye` and `EndToldOnce`),
  `NothingAfterFinal` (FinalIsLast), from `LoopMaxAssumption` alone.  `EndIsSent` speaks
  of a freed notifier; the invariant `Steady` carries its reason through the life of
  one: a NOTIFY in flight after `termsent` is the final one, and a notifier that has
  ended with none in flight has sent it or is in trouble.  The lemmas lead a notifier
  through a handler: `Handling` when its NOTIFY is over, `Ending` and `Ended` around
  `terminate`, `Over` when its last NOTIFY is over.
* `SipSubscriptionProofs`: `Invariance`, `MemorySafe` (MemorySafety), `AlwaysRefreshed`
  (NeverDormant), `EndKnownToBoth` (EndIsSettled).  The count alone is not inductive: a
  dropped subscription is held by what it waits for, so that one must know which
  requests, timers and answers still come.  Nor is `LeavesNoSubscription`: what was
  answered or refused before settles whether the notifier has its side.  `Live` and
  `Gone` describe a subscription between steps and after its end; the lemmas lead it
  through a handler, `Handling` in the response handler, `Ending` and `JustEnded` around
  `terminate`, `WaitOver` when what it waited for has come.
* `CallProofs`: `Invariance`, `TypeCorrect`, `NotifiersBalanced` (NotifierBalance),
  `StatesMatch`, `TimersMatch` (TimerWhileRinging), `EndsReportedOnce`, `NobodyStuck`
  (NeverStuck), for any number of
  notifiers and any finite set of calls.  A call is `Sound` when its state, session,
  timer and media NAT go together: none of the four last properties is inductive
  alone, as each handler's guard is the session's phase and its effect the call's
  state.  The proof is about operators: `Good` says that a value of the objects is
  balanced and that one call is in the hands of a handler; `Closed`, `DropNot`,
  `call_notify_sipfrag` and the others each lead from a good value to a good one, and
  `EndLemma` puts back a sound call.  Counting references needs one fact of finite
  sets: a notifier's holders gain or lose one element when a call takes or drops it.

* `MainLoopProofs`: `Invariance`, `TypeCorrect`, `ListIsSound` (ListSound),
  `LoopWakesInTime` (WakesInTime), for any number of timers, delays and threads.  That
  the list stays sorted is a fact about sequences (`Removed`, `Inserted`: what
  tmr_cancel and the walk of tmr_start do to a sorted list); that it stays so between
  threads needs the lock's owner and what each thread is in the middle of.  `WakesInTime`
  needs the timeout as it was computed, under the lock, before the loop went to sleep.
* `AudioStreamProofs`: `Invariance`, `AudioIsSafe` (MemorySafety), `BufferWaitsForMin`
  (NoneIsDelayed, part of KeepsWhatArrives).  The buffer's part is a theorem about
  jbuf.c as operators: where jbuf_put places a packet (`PlaceSound`, from `LessTotal`,
  as numbers that wrap have no order in general), and that put, get and flush keep it
  sorted and counted (`PutSound`, `GetSound`, `FlushSound`).  The threads' part says
  which device runs on what while audio.c replaces codecs (`EncoderSet`, `DecoderSet`,
  `BothStart`).
  `DecodedInOrder` (PlaysInOrder) and `ArrivedIsDecoded` (KeepsWhatArrives) are about
  streams of any length, on `Packetwise`: what waits are packets of the present source
  with their own numbers, and a running buffer remembers the last one put into it.
  They need the condition `StaysNear` on steps: a packet that arrives is less than half a
  turn of the numbers (32768) away from those of its source that wait or were decoded
  last.  `seq_less` orders packets further apart the other way round, so without it both
  are false; the code has no check of it.  `ShortSourcesInOrder` has both
  without a condition on steps, if no source sends that many packets, as in the run
  (3 - 1 + 2 < 8).  The mixing of sources in `KeepsWhatArrives` was found by the proof:
  the premise of an earlier form did not see a source that goes on after a third one.
  `DecodedReachesPlayer` (DecodedIsHeard) is for devices whose frames fit the array they
  are resampled into (`FramesFit`; AUDIO_SAMPSZ is 60 ms at 48 kHz, 2 channels).  Its
  invariant `DInv` says that receiver and transmitter are what audio.c makes of them
  (`Works`), that they run at the rate of their codecs while nothing has failed
  (`AtRate`), and that the buffer counts what it holds (`BufferCounts`); the lemmas lead
  it through each function (`StartWorks`, `EncoderWorks`, `DecoderWorks`, `PacketWorks`).
  The exception of a source that cannot be opened was found by this proof.  How much the
  buffer holds is a sum (`Sizes`, a recursive function); its laws (`AppendTotal`,
  `EndTotal`, `RestTotal`) are proved from a least counterexample.

Only model-checked: the liveness properties (`ReleasedIsFreed`, `BothEnd`, `AsksOrGoes`,
`EndIsLearnt`, `IncomingIsSettled`, `LoopServes`), as the prover has neither fairness nor
ENABLED.  Every other property of a passing run is stated by a theorem.  No module declares a
recursive operator, and induction over data is done by hand where it is needed: the
library's induction theorems take an operator, which the provers cannot instantiate.


## Not modelled

* Of `Call`: hold and `call_modify`, the transfer we ask for (`call_transfer`, of which
  SipSubscription is the core), DTMF, the change of network.  Each is a use of a session
  as `SessionService` describes it and multiplies the states of calls that are already
  at the run's limit.
* Forked subscriptions (`sipevent_fork`): baresip passes no fork handler.
* `TelephonyService.java` and the activities: Android delivers intents and lifecycle
  calls in an order that is the framework's, not this code's.  Of the JNI files
  `MainLoop` has what touches the loop: the threads and the lock they do not take.
* SDP: negotiation of directions and formats is a computation on data; whether an offer
  is accepted, and which codec comes of it, are choices in `Call` and `AudioStream`.
* The DNS client, STUN, TURN and ICE: transactions with retransmission, of the structure
  SipTransaction has.  The demo asks for ICE (baresip_helper.c:110); `Call` sees the media
  NAT as an event that succeeds or fails, and a call without one too.
* RTP, RTCP, SRTP, sockets and TLS: formats and cryptography with little control; what
  the network does to packets is part of the models that receive them.
* Dialogs, parsing and the digest: data to the state machines; the CSeq check is part of
  SipSession.  Keepalives, UDP sockets and framing in transp.c; the ACK cache (ack.c)
  beyond what a session sees of it.
* Codecs, resamplers, filters and audio drivers beyond their threads; baresip's modules
  and menu, which the demo does not load or only calls.
* The TURN server and test programs, which the demo does not run; third-party libraries
  (OpenSSL, FFmpeg and others: most of the repository's lines); layout and views of the
  Android application.
