------------------------- MODULE TransactionService -------------------------
(***************************************************************************)
(* What a SIP transaction promises to its two users (RFC 3261 section 17 as *)
(* re/src/sip implements it): the client's user asks once and is given one  *)
(* outcome, the server's user is handed the request and answers it.         *)
(*                                                                          *)
(* The promises are that the request is handed up once, again only if the  *)
(* earlier answer was not kept by a server transaction; that an answer     *)
(* which was kept is the last one; and that the client's outcome is an      *)
(* answer the server gave, or an error, and never changes.                  *)
(***************************************************************************)

CONSTANTS Finals, Failure   \* the final answers; the outcome that is none of them

VARIABLES
  asked,    \* the request has been made
  outcome,  \* what the client's user was told: "none", a final answer or Failure
  serving,  \* the server's user has the request and has not answered it
  answers,  \* the answers the server's user has given
  kept      \* the last of them is kept: the request is not handed up again

svars == <<asked, outcome, serving, answers, kept>>

SInit ==
  /\ asked = FALSE /\ outcome = "none"
  /\ serving = FALSE /\ answers = {} /\ kept = FALSE

Ask == ~asked /\ asked' = TRUE /\ UNCHANGED <<outcome, serving, answers, kept>>

(* The request is handed to the server's user, who goes on to answer it.    *)
Serve ==
  /\ asked /\ ~serving /\ ~kept
  /\ serving' = TRUE
  /\ UNCHANGED <<asked, outcome, answers, kept>>

(* An answer, to a request handed up earlier or in this very step; keep is  *)
(* false for a stateless answer, which leaves nothing behind.               *)
Answer ==
  /\ asked /\ ~kept
  /\ \E a \in Finals, keep \in BOOLEAN :
       /\ keep \/ ~serving
       /\ answers' = answers \cup {a} /\ kept' = keep
  /\ serving' = FALSE
  /\ UNCHANGED <<asked, outcome>>

(* The answer could not be sent: the request is as good as never served.    *)
Forget == serving /\ serving' = FALSE /\ UNCHANGED <<asked, outcome, answers, kept>>

Learn ==
  /\ asked /\ outcome = "none"
  /\ outcome' \in answers \cup {Failure}
  /\ UNCHANGED <<asked, serving, answers, kept>>

SNext == Ask \/ Serve \/ Answer \/ Forget \/ Learn

Service == SInit /\ [][SNext]_svars
=============================================================================
