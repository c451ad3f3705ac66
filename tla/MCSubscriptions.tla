-------------------------- MODULE MCSubscriptions --------------------------
(* Constants of the instances TLC checks. *)
EXTENDS SubscriptionsInv, TLC

OneDay       == [plan \in Plans |-> 1]
NoTrial      == [plan \in Plans |-> 0]
OneDayTrial  == [plan \in Plans |-> 1]

Symmetry == Permutations(Users) \cup Permutations(Subs) \cup Permutations(Payments)
            \cup Permutations(Preapprovals) \cup Permutations(Workers)
=============================================================================
