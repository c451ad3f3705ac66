------------------------------- MODULE Access -------------------------------
(***************************************************************************)
(* What billing promises about access: a professional whose profile is     *)
(* down comes up only once MercadoPago has confirmed a payment or a        *)
(* recurring charge of theirs, and a confirmation is never forgotten.      *)
(* How the profile comes down is not promised here.                        *)
(***************************************************************************)
CONSTANT Users

VARIABLES
    open,           \* users whose profile is up
    confirmed       \* users MercadoPago has confirmed

Init == open \subseteq Users /\ confirmed = {}

Confirm(u) == confirmed' = confirmed \cup {u} /\ UNCHANGED open

Grant(u) == u \in confirmed /\ open' = open \cup {u} /\ UNCHANGED confirmed

(* Several profiles may come down in one statement.                        *)
Revoke(us) == open' = open \ us /\ UNCHANGED confirmed

Next ==
    \/ \E u \in Users : Confirm(u) \/ Grant(u)
    \/ \E us \in SUBSET Users : Revoke(us)

Spec == Init /\ [][Next]_<<open, confirmed>>
=============================================================================
