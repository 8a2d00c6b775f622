-------------------------- MODULE ExactlyOnceProofs --------------------------
(* What the abstract specification ExactlyOnce guarantees. *)
EXTENDS ExactlyOnce, TLAPS

LEMMA InitOnce == Init => TypeOK /\ AtMostOnce
<1> SUFFICES ASSUME Init PROVE TypeOK /\ AtMostOnce
  OBVIOUS
<1>1. copies \in [Messages -> Nat] /\ \A m \in Messages : copies[m] = 0
  BY DEF Init
<1>2. excused \in BOOLEAN
  BY Zenon DEF Init
<1> QED BY <1>1, <1>2 DEF Init, TypeOK, AtMostOnce

LEMMA NextOnce == TypeOK /\ AtMostOnce /\ [Next]_vars => TypeOK' /\ AtMostOnce'
<1> SUFFICES ASSUME TypeOK, AtMostOnce, [Next]_vars PROVE TypeOK' /\ AtMostOnce'
  OBVIOUS
<1>1. CASE Accept
  BY <1>1 DEF Accept, TypeOK, AtMostOnce
<1>2. CASE Curate
  <2>1. PICK rows \in SUBSET accepted :
            /\ excused \/ \A m \in rows : copies[m] = 0
            /\ copies' = [m \in Messages |-> IF m \in rows THEN copies[m] + 1 ELSE copies[m]]
    BY <1>2 DEF Curate
  <2>2. UNCHANGED <<accepted, excused>>
    BY <1>2 DEF Curate
  <2>3. \A m \in Messages : copies[m] \in Nat
    BY DEF TypeOK
  <2>4. \A m \in Messages : copies'[m] = IF m \in rows THEN copies[m] + 1 ELSE copies[m]
    BY <2>1
  <2>5. TypeOK'
    BY <2>1, <2>2, <2>3 DEF TypeOK
  <2>6. ASSUME NEW m \in Messages
        PROVE  /\ copies'[m] > 0 => m \in accepted'
               /\ ~excused' => copies'[m] <= 1
    <3>1. CASE m \in rows
      BY <2>1, <2>2, <2>3, <2>4, <3>1
    <3>2. CASE m \notin rows
      BY <2>2, <2>4, <3>2 DEF AtMostOnce
    <3> QED BY <3>1, <3>2
  <2> QED BY <2>5, <2>6 DEF AtMostOnce
<1>3. CASE LoseKeys
  BY <1>3, Zenon DEF LoseKeys, TypeOK, AtMostOnce
<1>4. CASE Reopen
  <2>1. PICK m \in accepted : copies[m] > 0 /\ copies' = [copies EXCEPT ![m] = @ - 1]
    BY <1>4 DEF Reopen
  <2>2. UNCHANGED <<accepted, excused>> /\ excused
    BY <1>4 DEF Reopen
  <2>3. m \in Messages /\ copies[m] \in Nat /\ copies[m] - 1 \in Nat
    BY <2>1 DEF TypeOK
  <2>4. copies' \in [Messages -> Nat]
    BY <2>1, <2>3 DEF TypeOK
  <2>5. \A k \in Messages : copies'[k] > 0 => k \in accepted
    BY <2>1, <2>3 DEF TypeOK, AtMostOnce
  <2> QED BY <2>2, <2>4, <2>5 DEF TypeOK, AtMostOnce
<1>5. CASE UNCHANGED vars
  BY <1>5 DEF vars, TypeOK, AtMostOnce
<1> QED BY <1>1, <1>2, <1>3, <1>4, <1>5 DEF Next

\* Whatever implements ExactlyOnce, as the services do, puts no message into silver
\* twice while it knows the keys, for any messages and any number of passes
\* (ADR-004:30).
THEOREM NoDuplicates == Spec => []AtMostOnce
BY InitOnce, NextOnce, PTL DEF Spec

=============================================================================
