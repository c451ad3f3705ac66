------------------------------ MODULE Service ------------------------------
(* How the handlers of the platform's services run.  A handler is one       *)
(* asynchronous function: its checks read the database, and between an      *)
(* await and the write that follows it other handlers run.  A handler that  *)
(* is split takes its request (Takes), may go on to later steps (GoesOn),   *)
(* and is done with its last write (Ends).                                  *)
(* A scenario is the set of operations that may be called in a behaviour:   *)
(* each behaviour follows one of them, which bounds the run.                *)
EXTENDS Naturals, FiniteSets

CONSTANTS
    Scenarios,      \* a set of sets of names of operations
    Handlers        \* requests served at a time

ASSUME ScenariosAssumption == Scenarios \subseteq SUBSET STRING
ASSUME HandlersAssumption == IsFiniteSet(Handlers) /\ Handlers # {}

VARIABLES
    scenario,
    call            \* what each handler is doing, or Idle

serviceVars == <<scenario, call>>

Idle == [op |-> "idle"]

ServiceInit == scenario \in Scenarios /\ call = [h \in Handlers |-> Idle]

Offered(op) == op \in scenario

(* Only a scenario with "parallel" serves several requests at a time. *)
Takes(h, r) ==
    /\ call[h] = Idle /\ Offered(r.op)
    /\ Offered("parallel") \/ \A k \in Handlers : call[k] = Idle
    /\ call' = [call EXCEPT ![h] = r]
    /\ UNCHANGED scenario

GoesOn(h, op, r) ==
    /\ call[h].op = op /\ call' = [call EXCEPT ![h] = r]
    /\ UNCHANGED scenario

Ends(h, ops) ==
    /\ call[h].op \in ops /\ call' = [call EXCEPT ![h] = Idle]
    /\ UNCHANGED scenario

(* The next of the ids that are not used: one is as good as another. *)
Fresh(ids, used) == {i \in ids \ used : \A j \in ids \ used : i <= j}

(* A row after an update of some of its fields *)
Patched(row, fields) == [x \in DOMAIN row |-> IF x \in DOMAIN fields THEN fields[x] ELSE row[x]]

(* How many handlers a scenario runs side by side *)
Side == IF Offered("parallel") THEN Cardinality(Handlers) ELSE 1
=============================================================================
