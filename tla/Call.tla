-------------------------------- MODULE Call --------------------------------
(***************************************************************************)
(* The calls of one user agent: baresip's call.c and the part of ua.c that  *)
(* owns them.  A call sits on a SIP session, whose moves are those of       *)
(* SessionMoves, a media-NAT session (ICE), a timer for incoming calls, its *)
(* media streams and, during a transfer, a notifier of sipevent that it     *)
(* shares with the call made on the transferor's behalf.                    *)
(*                                                                          *)
(* Each of these calls back into the call, which reports to the user agent, *)
(* which tells the application and may free the call: every action is one   *)
(* such chain, from the event to the end of the last handler.  The          *)
(* operators that make up a chain map w, the value of the three variables   *)
(* that hold the objects, to their next value.                              *)
(***************************************************************************)
EXTENDS Naturals, Sequences, FiniteSets, SequencesExt, SessionMoves

CONSTANTS
  Calls,     \* the call objects there may ever be
  Sipnots,   \* the notifiers there may ever be
  None,      \* no notifier, no call
  MaxCalls   \* config->call.max_calls; 0 is no limit

ASSUME CallAssumption ==
  /\ MaxCalls \in Nat
  /\ None \notin Calls \cup Sipnots
  /\ IsFiniteSet(Calls)

VARIABLES
  call,     \* the call objects
  calls,    \* ua->calls, the last being the current call
  notifiers, \* the notifiers that calls refer to
  ua,       \* the account's settings, and whether the user agent exists
  corrupt   \* a handler was run with a call that had been freed

vars == <<call, calls, notifiers, ua, corrupt>>

States == {"IDLE", "INCOMING", "OUTGOING", "RINGING", "EARLY", "ESTABLISHED",
           "TERMINATED"}

(* mnat is "gather" while mnat_wait holds and "lost" if the INVITE that     *)
(* waited for it could not be sent; closed counts the CLOSED events the     *)
(* application received, and hungup says that it asked for the end itself.  *)
CallRecord == [ life    : {"none", "live", "freed"},
                state   : States,
                sess    : Phases,
                tmr_inv : BOOLEAN,
                mnat    : {"none", "gather", "done", "lost"},
                media   : BOOLEAN,       \* audio_start has been called
                rtp     : BOOLEAN,       \* the RTP timeout is enabled
                not     : Sipnots \cup {None},
                hungup  : BOOLEAN,
                closed  : Nat ]

(* refs are the references of calls, arg the argument of the close handler, *)
(* which is called as long as the notifier is open.                         *)
Sipnot == [refs : Nat, arg : Calls \cup {None}, open : BOOLEAN]

NoCall == [life |-> "none", state |-> "IDLE", sess |-> "idle", tmr_inv |-> FALSE,
           mnat |-> "none", media |-> FALSE, rtp |-> FALSE, not |-> None,
           hungup |-> FALSE, closed |-> 0]

Init ==
  /\ call = [c \in Calls |-> NoCall]
  /\ calls = <<>>
  /\ notifiers = [n \in Sipnots |-> [refs |-> 0, arg |-> None, open |-> FALSE]]
  /\ ua \in [answermode : {"manual", "early", "auto"}, mnat : BOOLEAN, alive : {TRUE}]
  /\ corrupt = FALSE

W == [call |-> call, calls |-> calls, notifiers |-> notifiers]

Becomes(w) ==
  /\ call' = w.call /\ calls' = w.calls /\ notifiers' = w.notifiers
  /\ UNCHANGED <<ua, corrupt>>

Live(c) == call[c].life = "live"
Unused(c) == ua.alive /\ call[c].life = "none"
Moves_to(c, to, tells) == Move(call[c].sess, to, tells) \in Moves

-----------------------------------------------------------------------------
(* Notifiers.                                                               *)

mem_deref_not(w, n) ==
  IF n = None THEN w
  ELSE [w EXCEPT !.notifiers[n].refs = @ - 1, !.notifiers[n].open = @ /\ w.notifiers[n].refs > 1]

(* call->not = mem_deref(call->not)                                         *)
DropNot(w, c) == [mem_deref_not(w, w.call[c].not) EXCEPT !.call[c].not = None]

(* The final NOTIFY ends the subscription and gives the reference back.     *)
call_notify_sipfrag(w, c) ==
  LET n == w.call[c].not
  IN IF n = None THEN w ELSE DropNot([w EXCEPT !.notifiers[n].open = FALSE], c)

-----------------------------------------------------------------------------
(* Streams, allocation and destruction of a call.                           *)

(* Fault: the timer for incoming calls goes on in an established call.      *)
call_stream_start_timed(w, c, active) == [w EXCEPT !.call[c].media = TRUE]

call_stream_start(w, c, active) ==
  [w EXCEPT !.call[c].media = TRUE, !.call[c].tmr_inv = @ /\ ~active]

call_stream_stop(w, c) ==
  [w EXCEPT !.call[c].media = FALSE, !.call[c].tmr_inv = FALSE]

(* Fault: the notifier is inherited without taking a reference.             *)
call_alloc_unref(w, c, n) ==
  [w EXCEPT !.calls = Append(@, c),
            !.call[c] = [NoCall EXCEPT !.life = "live", !.not = n,
                                       !.mnat = IF ua.mnat THEN "gather" ELSE "none"]]

(* n is the notifier of the call that is being transferred.                 *)
call_alloc(w, c, n) ==
  LET v == [w EXCEPT !.calls = Append(@, c),
                     !.call[c] = [NoCall EXCEPT !.life = "live", !.not = n,
                                    !.mnat = IF ua.mnat THEN "gather" ELSE "none"]]
  IN IF n = None THEN v ELSE [v EXCEPT !.notifiers[n].refs = @ + 1]

(* What is left of a call; the session hears that its user has gone.        *)
Freed(r) ==
  [r EXCEPT !.life = "freed", !.sess = IF @ = "idle" THEN @ ELSE "released",
            !.tmr_inv = FALSE, !.mnat = "none", !.media = FALSE, !.rtp = FALSE,
            !.not = None]

call_destructor(w, c) ==
  mem_deref_not([w EXCEPT !.calls = SelectSeq(@, LAMBDA d : d # c),
                          !.call[c] = Freed(@)], w.call[c].not)

-----------------------------------------------------------------------------
(* Events a call reports to its user agent (call_event_handler of ua.c).    *)

(* Fault: the call is not freed, as in ua_hangup.                           *)
Closed_kept(w, c) == [w EXCEPT !.call[c].closed = @ + 1]

Closed(w, c) == call_destructor([w EXCEPT !.call[c].closed = @ + 1], c)

(* No 2xx without a pending INVITE; ok says that it could be sent.          *)
Answered(w, c, ok) ==
  IF w.call[c].sess # "offered" THEN w
  ELSE [w EXCEPT !.call[c].sess = IF ok THEN "answered" ELSE "rejected"]

call_progress(w, c, ok) ==
  LET v == [w EXCEPT !.call[c].tmr_inv = FALSE]
  IN IF w.call[c].sess # "offered" THEN v
     ELSE IF ok THEN call_stream_start(v, c, FALSE)
     ELSE [v EXCEPT !.call[c].sess = "rejected"]

Incoming(w, c, blocked, ok) ==
  IF blocked THEN Closed(w, c)
  ELSE CASE ua.answermode = "early"  -> call_progress(w, c, ok)
         [] ua.answermode = "auto"   -> Answered(w, c, ok)
         [] ua.answermode = "manual" -> w

-----------------------------------------------------------------------------
(* Placing and receiving calls.  An attempt that fails at once leaves       *)
(* nothing behind and is not a step, nor is a call refused with 486.        *)

call_connect(w, c) ==
  [w EXCEPT !.call[c].state = "OUTGOING",
            !.call[c].sess = IF ua.mnat THEN "idle" ELSE "calling"]

ua_connect(c) ==
  /\ Unused(c)
  /\ Becomes(call_connect(call_alloc(W, c, None), c))

Full == MaxCalls > 0 /\ Len(calls) + 1 > MaxCalls

(* Fault: the timer is only started with the INCOMING event.                *)
Accepted_untimed(w, c) ==
  [w EXCEPT !.call[c].sess = "offered", !.call[c].state = "INCOMING"]

(* The call as call_accept leaves it.                                       *)
Accepted(w, c) ==
  [w EXCEPT !.call[c].sess = "offered", !.call[c].state = "INCOMING",
            !.call[c].tmr_inv = TRUE]

(* An offer without a common codec or address family is refused with 488    *)
(* and the call reported as closed.                                         *)
sipsess_conn_handler(c) ==
  /\ Unused(c) /\ ~Full
  /\ \E usable, blocked, ok \in BOOLEAN :
       LET w == call_alloc(W, c, None)
       IN Becomes(IF ~usable THEN Closed(w, c)
                  ELSE IF ua.mnat THEN Accepted(w, c)
                  ELSE Incoming(Accepted(w, c), c, blocked, ok))

(* Fault: what waited for the media NAT is not resumed for outgoing calls.  *)
mnat_handler_idle(c) ==
  /\ Live(c) /\ call[c].mnat = "gather"
  /\ \E blocked, ok \in BOOLEAN :
       LET w == [W EXCEPT !.call[c].mnat = "done"]
       IN Becomes(IF call[c].state = "INCOMING" THEN Incoming(w, c, blocked, ok) ELSE w)

(* Once established, the media NAT only asks for re-INVITEs, which are no   *)
(* steps here; it may fail at any time.                                     *)
mnat_handler(c) ==
  /\ Live(c) /\ call[c].mnat = "gather"
  /\ \E blocked, ok \in BOOLEAN :
       LET w == [W EXCEPT !.call[c].mnat = "done"]
       IN CASE call[c].state = "OUTGOING" ->
                 IF ok THEN Becomes([w EXCEPT !.call[c].sess = "calling"])
                 ELSE Becomes([w EXCEPT !.call[c].mnat = "lost"])
            [] call[c].state = "INCOMING" -> Becomes(Incoming(w, c, blocked, ok))
            [] OTHER -> Becomes(w)

mnat_failed(c) ==
  /\ Live(c) /\ call[c].mnat # "none"
  /\ Becomes(Closed(W, c))

-----------------------------------------------------------------------------
(* Callbacks of the session.                                                *)

sipsess_progr_handler(c) ==
  /\ Live(c) /\ call[c].sess = "calling"
  /\ \E state \in {"RINGING", "EARLY", call[c].state}, media \in BOOLEAN :
       LET w == call_stream_stop([W EXCEPT !.call[c].state = state], c)
       IN Becomes(IF media THEN call_stream_start(w, c, FALSE) ELSE w)

(* Fault: the state is left to the first RTP packet.                        *)
sipsess_estab_handler_stateless(c) ==
  /\ Live(c) /\ Moves_to(c, "up", "estab")
  /\ Becomes(call_notify_sipfrag(
               call_stream_start([W EXCEPT !.call[c].sess = "up",
                                           !.call[c].rtp = TRUE], c, TRUE), c))

sipsess_estab_handler(c) ==
  /\ Live(c) /\ Moves_to(c, "up", "estab")
  /\ LET w == [W EXCEPT !.call[c].sess = "up"]
     IN Becomes(IF call[c].state = "ESTABLISHED" THEN w
                ELSE call_notify_sipfrag(
                       call_stream_start([w EXCEPT !.call[c].state = "ESTABLISHED",
                                                   !.call[c].rtp = TRUE], c, TRUE), c))

(* The session's end; the call drops it from inside the callback.           *)
sipsess_close_handler(c) ==
  /\ Live(c) /\ Moves_to(c, "ended", "close")
  /\ Becomes(Closed(call_stream_stop(call_notify_sipfrag(
               [W EXCEPT !.call[c].sess = "ended"], c), c), c))

(* A peer may re-INVITE on a dialog it was refused; the session answers.    *)
sipsess_offer_handler(c) ==
  /\ Live(c) /\ call[c].sess = "rejected"
  /\ Becomes([W EXCEPT !.call[c].sess = "answered"])

HasDialog(c) == Live(c) /\ call[c].sess \in {"offered", "answered", "rejected", "up"}

(* The call to the transfer target, with the notifier of the transfer; if   *)
(* it cannot be made the transferor is told at once.                        *)
Transfer(w, c) ==
  \/ \E d \in Calls : /\ Unused(d)
                      /\ Becomes(call_connect(call_alloc(w, d, w.call[c].not), d))
  \/ Becomes(call_notify_sipfrag(w, c))

(* REFER: the notifier of an earlier one is dropped, whatever comes of the  *)
(* new one.                                                                 *)
sipsess_refer_handler(c) ==
  /\ HasDialog(c)
  /\ LET w == DropNot(W, c)
     IN \/ Becomes(w)
        \/ \E n \in Sipnots :
             /\ notifiers[n].arg = None
             /\ Transfer([w EXCEPT !.notifiers[n] = [refs |-> 1, arg |-> c, open |-> TRUE],
                                   !.call[c].not = n], c)

-----------------------------------------------------------------------------
(* The notifier expires, or a NOTIFY fails: sipnot_terminate calls the      *)
(* close handler of call.c with the call that received the REFER.           *)
sipnot_close_handler(n) ==
  /\ notifiers[n].open
  /\ LET w == [W EXCEPT !.notifiers[n].open = FALSE]
         c == notifiers[n].arg
     IN IF Live(c) THEN Becomes(DropNot(w, c))
        ELSE corrupt' = TRUE /\ UNCHANGED <<call, calls, notifiers, ua>>

-----------------------------------------------------------------------------
(* Timers and media.                                                        *)

invite_timeout(c) ==
  /\ Live(c) /\ call[c].tmr_inv
  /\ Becomes(Closed(W, c))

(* An audio device, video or media encryption fails.                        *)
audio_error_handler(c) ==
  /\ Live(c) /\ call[c].media
  /\ Becomes(Closed(call_stream_stop(W, c), c))

(* No RTP was received for rtp_timeout.                                     *)
stream_error_handler(c) ==
  /\ Live(c) /\ call[c].rtp
  /\ Becomes(Closed(call_stream_stop([W EXCEPT !.call[c].state = "TERMINATED"], c), c))

-----------------------------------------------------------------------------
(* The application.                                                         *)

ua_answer(c) ==
  /\ Live(c) /\ call[c].state = "INCOMING" /\ call[c].sess = "offered"
  /\ \E ok \in BOOLEAN : Becomes(Answered(W, c, ok))

(* An INVITE that waits for an answer is rejected, any other session        *)
(* released.  sipsess_reject does nothing once the INVITE is answered.      *)
call_hangup(w, c) ==
  LET sess == w.call[c].sess
      left == IF w.call[c].state = "INCOMING"
              THEN IF sess = "offered" THEN "rejected" ELSE sess
              ELSE IF sess = "idle" THEN "idle" ELSE "released"
  IN call_stream_stop([w EXCEPT !.call[c].sess = left,
                                !.call[c].state = "TERMINATED"], c)

(* The call stays in the list: ua_hangup does not dereference it.  The      *)
(* application hangs a call up once.                                        *)
ua_hangup(c) ==
  /\ Live(c) /\ ~call[c].hungup
  /\ Becomes([call_hangup(W, c) EXCEPT !.call[c].hungup = TRUE,
                                       !.call[c].closed = @ + 1])

Holders(n) == {c \in Calls : Live(c) /\ call[c].not = n}

(* The user agent goes, and all its calls with it (list_flush).             *)
ua_destructor ==
  /\ ua.alive
  /\ call' = [c \in Calls |-> IF Live(c) THEN Freed(call[c]) ELSE call[c]]
  /\ calls' = <<>>
  /\ notifiers' = [n \in Sipnots |->
       LET left == notifiers[n].refs - Cardinality(Holders(n))
       IN [notifiers[n] EXCEPT !.refs = left, !.open = @ /\ left > 0]]
  /\ ua' = [ua EXCEPT !.alive = FALSE] /\ UNCHANGED corrupt

-----------------------------------------------------------------------------
Application(c) == ua_connect(c) \/ ua_answer(c) \/ ua_hangup(c)

Session(c) ==
  \/ sipsess_conn_handler(c) \/ sipsess_progr_handler(c) \/ sipsess_estab_handler(c)
  \/ sipsess_close_handler(c) \/ sipsess_offer_handler(c) \/ sipsess_refer_handler(c)

Media(c) ==
  \/ mnat_handler(c) \/ mnat_failed(c) \/ invite_timeout(c)
  \/ audio_error_handler(c) \/ stream_error_handler(c)

(* What the program does after it has used freed memory is not modelled.    *)
Next ==
  /\ ~corrupt
  /\ \/ \E c \in Calls : Application(c) \/ Session(c) \/ Media(c)
     \/ \E n \in Sipnots : sipnot_close_handler(n)
     \/ ua_destructor

Spec == Init /\ [][Next]_vars

-----------------------------------------------------------------------------
(* What must hold.                                                          *)

TypeOK ==
  /\ call \in [Calls -> CallRecord]
  /\ notifiers \in [Sipnots -> Sipnot]
  /\ ua \in [answermode : {"manual", "early", "auto"}, mnat : BOOLEAN, alive : BOOLEAN]
  /\ corrupt \in BOOLEAN

(* A notifier is referenced by exactly the calls that point to it, through  *)
(* transfers that fail, second REFERs, expiry and the end of either call:   *)
(* none is freed under a call, and none is left that nobody will close.     *)
NotifierBalance ==
  \A n \in Sipnots :
    /\ notifiers[n].refs = Cardinality(Holders(n))
    /\ notifiers[n].open => notifiers[n].refs > 0

(* What the application is shown agrees with the session: a call is shown   *)
(* as established only while its session is, and a session that is up       *)
(* belongs to a call shown as established, or to none.                      *)
StateMatchesSession ==
  \A c \in Calls : Live(c) =>
    /\ call[c].state = "ESTABLISHED" <=> call[c].sess = "up"
    /\ call[c].state = "INCOMING" => call[c].sess \in {"offered", "answered", "rejected"}
    /\ call[c].sess = "calling" => call[c].state \in {"OUTGOING", "RINGING", "EARLY"}

(* The timer for incoming calls never fires in a call that is under way,    *)
(* and a call that rings has it, unless early media was started.            *)
TimerWhileRinging ==
  \A c \in Calls :
    /\ call[c].tmr_inv => Live(c) /\ call[c].state = "INCOMING"
    /\ Live(c) /\ call[c].state = "INCOMING" /\ ua.answermode # "early"
         => call[c].tmr_inv

(* A call the application has not hung up is freed when its end is          *)
(* reported, and its end is reported, once, when it is freed.               *)
EndReportedOnce ==
  ua.alive => \A c \in Calls : ~call[c].hungup =>
    call[c].closed = IF call[c].life = "freed" THEN 1 ELSE 0

(* A call the application has not hung up waits for something: an answer, a *)
(* request of the peer, the media NAT or a timer.  The exceptions are an    *)
(* INVITE that could not be sent once the media NAT was ready, and a 183    *)
(* that could not be sent.                                                  *)
AwaitsSomething ==
  \A c \in Calls : Live(c) /\ ~call[c].hungup =>
    \/ call[c].sess \in {"calling", "offered", "answered", "up"}
    \/ call[c].tmr_inv
    \/ call[c].mnat \in {"gather", "lost"}
    \/ call[c].sess = "rejected" /\ ua.answermode = "early"

(* No call is left with nothing to end it, nor ended by a timer that was to *)
(* go when it was answered.                                                 *)
NeverStuck == AwaitsSomething /\ TimerWhileRinging

-----------------------------------------------------------------------------
(* What the code is said to do and does not.                                *)

(* ua->calls is compared with max_calls, "Maximum number of calls": an      *)
(* incoming call is refused only while that many calls are in progress.     *)
RefusesOnlyWhenFull ==
  Full => Cardinality({c \in Calls : Live(c) /\ ~call[c].hungup}) >= MaxCalls

(* A call the user has hung up is over: it is never established afterwards. *)
HungUpStaysDown == \A c \in Calls : call[c].hungup => call[c].state # "ESTABLISHED"

(* The application is told of the end of a call once.                       *)
ClosedOnce == \A c \in Calls : call[c].closed <= 1

(* ua_hangup, "Hangup the current call": a call that was hung up is over.   *)
(* It leaves its place to another, is not established and not heard of.     *)
HungUpIsOver == RefusesOnlyWhenFull /\ HungUpStaysDown /\ ClosedOnce

(* Where a notifier can still call back, the call it calls back to exists.  *)
NotifierHasCall == \A n \in Sipnots : notifiers[n].open => Live(notifiers[n].arg)

-----------------------------------------------------------------------------
(* Fairness: the event loop runs an expired timer.                          *)
FairSpec == Spec /\ \A c \in Calls : WF_vars(~corrupt /\ invite_timeout(c))

(* An incoming call is settled, whether the user answers or not: it is      *)
(* answered and established, refused, or ended by the local timeout.        *)
IncomingIsSettled ==
  \A c \in Calls :
    (Live(c) /\ call[c].state = "INCOMING" /\ ua.answermode # "early")
      ~> (corrupt \/ ~Live(c) \/ call[c].state # "INCOMING")
=============================================================================
