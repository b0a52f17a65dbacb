---------------------------- MODULE SessionMoves ----------------------------
(***************************************************************************)
(* What a SIP session promises to the call that uses it, as a table of the  *)
(* moves a session makes in the eyes of its user.  SessionService turns the *)
(* table into a specification, which SipSession implements; Call takes its  *)
(* sessions' behaviour from the same table.                                 *)
(***************************************************************************)

(* idle      not allocated (the user's pointer is NULL)                     *)
(* calling   our INVITE is out                                              *)
(* offered   the peer's INVITE waits for our answer                         *)
(* answered  it was answered with a 2xx, and the ACK has not come           *)
(* rejected  it was refused, or the answer could not be sent                *)
(* up        the user was told that the session is established              *)
(* ended     the user was told of its end                                   *)
(* released  the user gave its reference up and hears no more               *)
Phases == {"idle", "calling", "offered", "answered", "rejected", "up",
           "ended", "released"}

InUse == Phases \ {"idle", "released"}
Open  == InUse \ {"ended"}

(* Phases from which each thing may happen.  A peer may still send a        *)
(* re-INVITE on the dialog of an INVITE it was refused.                     *)
Establishes == {"calling", "answered"}

Move(from, to, tells) == [from |-> from, to |-> to, tells |-> tells]

(* The user may release the session from inside the callback.               *)
Told(from, to, tells) == {Move(from, to, tells), Move(from, "released", tells)}

Moves ==
  {Move("idle", to, "nothing") : to \in {"calling", "offered", "answered", "rejected"}}
  \cup {Move("offered", to, "nothing") : to \in {"answered", "rejected"}}
  \cup {Move("rejected", "answered", "nothing")}
  \cup (UNION {Told(p, "up", "estab") : p \in Establishes})
  \cup (UNION {Told(p, "ended", "close") : p \in Open})
  \cup {Move(p, "released", "nothing") : p \in InUse}
=============================================================================
