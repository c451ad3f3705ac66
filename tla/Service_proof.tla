--------------------------- MODULE Service_proof ---------------------------
(* Lemmas about the handlers of Service, for any handlers and scenarios:    *)
(* how many are busy at a time, and how a claim that a busy handler stakes  *)
(* turns into a row without their sum growing.                              *)
EXTENDS Service, Integers, FiniteSetTheorems, WellFoundedInduction, TLAPS

Busy == {h \in Handlers : call[h] # Idle}

(* No more handlers are busy than the scenario runs side by side.           *)
BusyOK == Cardinality(Busy) <= Side

(* The number of handlers of any kind is a number, at most that of the busy *)
(* ones.                                                                    *)
LEMMA FewHandlers ==
    ASSUME NEW S \in SUBSET Handlers
    PROVE  /\ IsFiniteSet(S) /\ Cardinality(S) \in Nat
           /\ \A T \in SUBSET S : IsFiniteSet(T) /\ Cardinality(T) \in Nat /\ Cardinality(T) <= Cardinality(S)
<1>1. IsFiniteSet(S)
  BY HandlersAssumption, FS_Subset
<1> QED BY <1>1, FS_Subset, FS_CardinalityType

LEMMA SideIsNat == Side \in Nat
  BY FewHandlers DEF Side

(* At the start nobody is busy.                                             *)
LEMMA NobodyBusy == ServiceInit => Busy = {} /\ BusyOK
  BY FS_EmptySet, SideIsNat DEF ServiceInit, Busy, BusyOK

(* A handler that takes a request is one more, and the scenario has room    *)
(* for it.                                                                  *)
LEMMA TakesBusy ==
    ASSUME NEW h \in Handlers, NEW r, r # Idle, Takes(h, r), BusyOK, DOMAIN call = Handlers
    PROVE  /\ h \notin Busy /\ Busy' = Busy \cup {h}
           /\ BusyOK' /\ Cardinality(Busy) + 1 <= Side /\ Side' = Side
<1>1. h \notin Busy /\ Busy' = Busy \cup {h}
  BY DEF Takes, Busy
<1>2. Side' = Side
  BY DEF Takes, Side, Offered
<1>3. Cardinality(Busy') = Cardinality(Busy) + 1
  BY <1>1, FewHandlers, FS_AddElement DEF Busy
<1>4. Cardinality(Busy') <= Side
  <2>1. CASE Offered("parallel")
    BY <1>1, <2>1, FewHandlers DEF Side, Busy
  <2>2. CASE ~Offered("parallel")
    <3>1. Busy = {}
      BY <2>2 DEF Takes, Busy
    <3> QED BY <2>2, <3>1, <1>3, FS_EmptySet DEF Side
  <2> QED BY <2>1, <2>2
<1> QED BY <1>1, <1>2, <1>3, <1>4 DEF BusyOK

(* A handler that goes on or is done makes nobody else busy.                *)
LEMMA FewerBusy ==
    ASSUME BusyOK, Busy' \subseteq Busy, UNCHANGED scenario
    PROVE  BusyOK' /\ Side' = Side
<1>1. Side' = Side
  BY DEF Side, Offered
<1>2. Cardinality(Busy') <= Cardinality(Busy)
  BY FewHandlers DEF Busy
<1>3. Cardinality(Busy) \in Nat /\ Cardinality(Busy') \in Nat
  BY FewHandlers DEF Busy
<1> QED BY <1>1, <1>2, <1>3, SideIsNat DEF BusyOK

LEMMA EndsBusy ==
    ASSUME NEW h \in Handlers, NEW ops, Ends(h, ops), BusyOK, DOMAIN call = Handlers
    PROVE  Busy' = Busy \ {h} /\ BusyOK' /\ Side' = Side
<1>1. Busy' = Busy \ {h}
  BY DEF Ends, Busy
<1> QED BY <1>1, FewerBusy DEF Ends

LEMMA GoesOnBusy ==
    ASSUME NEW h \in Handlers, NEW op, op # "idle", NEW r, r # Idle, GoesOn(h, op, r), BusyOK, DOMAIN call = Handlers
    PROVE  Busy' = Busy /\ BusyOK' /\ Side' = Side
<1>1. Busy' = Busy
  BY DEF GoesOn, Busy, Idle
<1> QED BY <1>1, FewerBusy DEF GoesOn

(* What one side gains and the other loses leaves their sum within a bound. *)
LEMMA HandsOver ==
    ASSUME NEW A, NEW B, IsFiniteSet(A), IsFiniteSet(B), NEW a, NEW b \in B,
           NEW n \in Nat, Cardinality(A) + Cardinality(B) <= n
    PROVE  Cardinality(A \cup {a}) + Cardinality(B \ {b}) <= n
<1>1. Cardinality(A) \in Nat /\ Cardinality(B) \in Nat
  BY FS_CardinalityType
<1>2. Cardinality(A \cup {a}) = Cardinality(A) \/ Cardinality(A \cup {a}) = Cardinality(A) + 1
  BY FS_AddElement
<1>3. Cardinality(B \ {b}) = Cardinality(B) - 1
  BY FS_RemoveElement
<1> QED BY <1>1, <1>2, <1>3

(* Handlers of two kinds are together at most those of both.                *)
LEMMA TwoKinds ==
    ASSUME NEW S \in SUBSET Handlers, NEW A \in SUBSET S, NEW B \in SUBSET S, A \cap B = {}
    PROVE  Cardinality(A) + Cardinality(B) <= Cardinality(S)
<1>1. /\ IsFiniteSet(A) /\ IsFiniteSet(B) /\ Cardinality(A) \in Nat /\ Cardinality(B) \in Nat
      /\ Cardinality(A \cup B) <= Cardinality(S) /\ A \cup B \in SUBSET S
  BY FewHandlers
<1>2. Cardinality(A \cup B) = Cardinality(A) + Cardinality(B) - Cardinality(A \cap B)
  BY <1>1, FS_Union
<1>3. Cardinality(A \cap B) = 0
  BY FS_EmptySet
<1> QED BY <1>1, <1>2, <1>3

-----------------------------------------------------------------------------
(* A set of numbers that is not empty has a least one, and a finite one has *)
(* a greatest.                                                              *)
LEMMA LeastNumber == ASSUME NEW T, T \subseteq Nat, T # {} PROVE \E x \in T : \A y \in T : x <= y
<1>1. PICK R : IsWellFoundedOn(R, Nat) /\ \A x, y \in Nat : x < y => <<x, y>> \in R
  BY NatLessThanWellFounded DEF OpToRel
<1>2. PICK x \in T : \A y \in T : ~ (<<y, x>> \in R)
  <2>1. IsWellFoundedOn(R, Nat)
    BY <1>1
  <2> QED BY <2>1, WFMin, Zenon
<1>3. \A y \in T : y \in Nat /\ x \in Nat /\ ~(y < x)
  BY <1>1, <1>2
<1>4. \A y \in T : x <= y
  BY <1>3
<1> QED BY <1>4

LEMMA GreatestBelow ==
    ASSUME NEW T, T \subseteq Nat, T # {}, NEW b \in Nat, \A x \in T : x <= b
    PROVE  \E x \in T : \A y \in T : y <= x
<1> DEFINE U == {n \in Nat : \A y \in T : y <= n}
<1>1. U \subseteq Nat /\ U # {}
  OBVIOUS
<1>2. PICK x \in U : \A y \in U : x <= y
  <2> HIDE DEF U
  <2> QED BY <1>1, LeastNumber
<1>3. ASSUME x \notin T PROVE FALSE
  <2>1. \A y \in T : y < x /\ y \in Nat
    BY <1>2, <1>3
  <2>2. PICK z : z \in T
    OBVIOUS
  <2>3. x - 1 \in Nat
    BY <1>2, <2>1, <2>2
  <2>4. x - 1 \in U
    BY <2>1, <2>3
  <2> QED BY <1>2, <2>3, <2>4
<1> QED BY <1>2, <1>3

LEMMA FiniteIsBounded ==
    ASSUME NEW S, S \subseteq Nat, IsFiniteSet(S)
    PROVE  \E b \in Nat : \A x \in S : x <= b
<1> DEFINE Unbounded(A) == A \subseteq Nat /\ IsFiniteSet(A) /\ ~ \E b \in Nat : \A x \in A : x <= b
           T == {n \in Nat : \E A : Unbounded(A) /\ Cardinality(A) = n}
<1>1. SUFFICES ASSUME Unbounded(S) PROVE FALSE
  OBVIOUS
<1>2. T \subseteq Nat /\ T # {}
  <2>1. Cardinality(S) \in T
    BY <1>1, FS_CardinalityType
  <2> QED BY <2>1
<1>3. PICK n \in T : \A m \in T : n <= m
  <2> HIDE DEF T
  <2> QED BY <1>2, LeastNumber
<1>4. PICK A : Unbounded(A) /\ Cardinality(A) = n
  BY <1>3
<1>5. PICK a : a \in A
  <2>1. A # {}
    BY <1>4
  <2> QED BY <2>1
<1>6. /\ IsFiniteSet(A \ {a}) /\ Cardinality(A \ {a}) = n - 1 /\ n - 1 \in Nat /\ A \ {a} \subseteq Nat /\ a \in Nat
  <2>1. IsFiniteSet(A) /\ A \subseteq Nat
    BY <1>4
  <2>2. Cardinality(A \ {a}) = Cardinality(A) - 1 /\ IsFiniteSet(A \ {a})
    BY <1>5, <2>1, FS_RemoveElement
  <2>3. Cardinality(A \ {a}) \in Nat
    BY <2>2, FS_CardinalityType
  <2> QED BY <1>4, <1>5, <2>1, <2>2, <2>3
<1>7. ~Unbounded(A \ {a})
  <2>1. SUFFICES ASSUME Unbounded(A \ {a}) PROVE FALSE
    OBVIOUS
  <2>2. n - 1 \in T
    BY <1>6, <2>1
  <2> QED BY <1>3, <1>6, <2>2
<1>8. PICK b \in Nat : \A x \in A \ {a} : x <= b
  BY <1>6, <1>7
<1>9. \A x \in A : x <= b + a /\ b + a \in Nat
  <2>1. \A x \in A \ {a} : x \in Nat /\ x <= b
    BY <1>6, <1>8
  <2> QED BY <1>6, <1>8, <2>1
<1> QED BY <1>4, <1>5, <1>9

LEMMA GreatestNumber ==
    ASSUME NEW S, S \subseteq Nat, IsFiniteSet(S), S # {}
    PROVE  \E x \in S : \A y \in S : y <= x
  BY FiniteIsBounded, GreatestBelow
=============================================================================
