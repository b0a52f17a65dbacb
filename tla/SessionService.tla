--------------------------- MODULE SessionService ---------------------------
(***************************************************************************)
(* The abstract specification of a SIP session (struct sipsess) as its user *)
(* sees it: the phase it is in and how often each callback was called.  A   *)
(* session is established at most once, its end is told at most once and    *)
(* last, and a session the user has released is silent.                     *)
(***************************************************************************)
EXTENDS Naturals, SessionMoves

VARIABLES
  phase,   \* one of Phases
  estabs,  \* calls of estabh
  closes   \* calls of closeh

Init == phase = "idle" /\ estabs = 0 /\ closes = 0

Step(m) ==
  /\ phase = m.from /\ phase' = m.to
  /\ estabs' = IF m.tells = "estab" THEN estabs + 1 ELSE estabs
  /\ closes' = IF m.tells = "close" THEN closes + 1 ELSE closes

Next == \E m \in Moves : Step(m)

Spec == Init /\ [][Next]_<<phase, estabs, closes>>
=============================================================================
