----------------------------- MODULE RequestReply -----------------------------
(* What a battle promises its server: a choice is made only when one is      *)
(* asked for, and then once.                                                 *)
EXTENDS Naturals

VARIABLES
    owed,       \* the server waits for a choice
    inFlight    \* choices sent and not yet taken by the server

rrvars == <<owed, inFlight>>

Init == owed = FALSE /\ inFlight = 0

(* The server asks. *)
Ask == ~owed /\ owed' = TRUE /\ UNCHANGED inFlight

(* The bot answers. *)
Answer == owed /\ inFlight = 0 /\ inFlight' = 1 /\ UNCHANGED owed

(* The server takes the answer, and may ask again at once. *)
Accept == owed /\ inFlight = 1 /\ inFlight' = 0 /\ owed' \in BOOLEAN

Next == Ask \/ Answer \/ Accept

Spec == Init /\ [][Next]_rrvars
=============================================================================
