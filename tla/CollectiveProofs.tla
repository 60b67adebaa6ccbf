-------------------------- MODULE CollectiveProofs --------------------------
(***************************************************************************)
(* What the promise of a collective entails, for every group and every set *)
(* of operations: a system that implements Collective has these properties *)
(* too, under the refinement mapping.                                      *)
(***************************************************************************)
EXTENDS Collective, TLAPS

(* The types, what was delivered being part of what is due.                 *)
OnlyDue == \A o \in Op, h \in Member : delivered[o][h] \subseteq Due(o, h)

IInv ==
    /\ TypeOK
    /\ OnlyDue
    /\ NothingFromNowhere
    /\ CompleteMeansDelivered
    /\ TriggersRespected

LEMMA IInvInit == Init => IInv
  BY DEF Init, IInv, TypeOK, OnlyDue, NothingFromNowhere,
         CompleteMeansDelivered, TriggersRespected

(* A contribution only adds to contributed, of an operation whose triggers  *)
(* have all fired.                                                          *)
LEMMA ContributeStep ==
    ASSUME IInv, NEW o \in Op, NEW h \in Member, Contribute(o, h)
    PROVE  IInv'
  <1>1. /\ contributed' = [contributed EXCEPT ![o] = @ \cup {h}]
        /\ delivered' = delivered /\ complete' = complete
        /\ Needs[o] \subseteq complete
    BY DEF Contribute
  <1>2. TypeOK'
    BY <1>1 DEF IInv, TypeOK
  <1>3. \A q \in Op : contributed[q] \subseteq contributed'[q]
    BY <1>1 DEF IInv, TypeOK
  <1>4. OnlyDue'
    BY <1>1 DEF IInv, OnlyDue
  <1>5. NothingFromNowhere'
    <2> SUFFICES ASSUME NEW q \in Op, NEW m \in Member, NEW p \in delivered'[q][m]
                 PROVE  p[2] \subseteq contributed'[q]
      BY DEF NothingFromNowhere
    <2>1. p[2] \subseteq contributed[q]
      BY <1>1 DEF IInv, NothingFromNowhere
    <2> QED  BY <1>3, <2>1
  <1>6. CompleteMeansDelivered'
    BY <1>1 DEF IInv, CompleteMeansDelivered, HasAll
  <1>7. TriggersRespected'
    <2> SUFFICES ASSUME NEW q \in Op, contributed'[q] # {}
                 PROVE  Needs[q] \subseteq complete'
      BY DEF TriggersRespected
    <2>1. CASE q = o
      BY <1>1, <2>1
    <2>2. CASE q # o
      BY <1>1, <2>2 DEF IInv, TypeOK, TriggersRespected
    <2> QED  BY <2>1, <2>2
  <1> QED  BY <1>2, <1>4, <1>5, <1>6, <1>7 DEF IInv

(* A delivery adds one piece that is due and whose members contributed, and *)
(* completes the operation only when nothing is missing anywhere.           *)
LEMMA DeliverStep ==
    ASSUME IInv, NEW o \in Op, NEW h \in Member, Deliver(o, h)
    PROVE  IInv'
  <1>1. PICK p \in Due(o, h) \ delivered[o][h] :
          /\ p[2] \subseteq contributed[o]
          /\ delivered' = [delivered EXCEPT ![o][h] = @ \cup {p}]
          /\ complete' =
               IF \A m \in Member : HasAll(o, m, delivered'[o][m])
               THEN complete \cup {o} ELSE complete
          /\ contributed' = contributed
    BY DEF Deliver
  <1>2. p \in Pieces
    BY DEF Pieces
  <1>3. complete \subseteq complete' /\ complete' \subseteq complete \cup {o}
    BY <1>1
  <1>4. delivered' \in [Op -> [Member -> SUBSET Pieces]]
    BY <1>1, <1>2 DEF IInv, TypeOK
  <1>5. TypeOK'
    BY <1>1, <1>3, <1>4 DEF IInv, TypeOK
  <1>6. \A q \in Op, m \in Member :
          delivered'[q][m] =
            IF q = o /\ m = h THEN delivered[q][m] \cup {p}
            ELSE delivered[q][m]
    BY <1>1 DEF IInv, TypeOK
  <1>7. OnlyDue'
    <2> SUFFICES ASSUME NEW q \in Op, NEW m \in Member
                 PROVE  delivered'[q][m] \subseteq Due(q, m)
      BY DEF OnlyDue
    <2>1. delivered[q][m] \subseteq Due(q, m)
      BY DEF IInv, OnlyDue
    <2>2. CASE q = o /\ m = h
      BY <2>1, <2>2, <1>6
    <2>3. CASE ~(q = o /\ m = h)
      BY <2>1, <2>3, <1>6
    <2> QED  BY <2>2, <2>3
  <1>8. NothingFromNowhere'
    <2> SUFFICES ASSUME NEW q \in Op, NEW m \in Member, NEW r \in delivered'[q][m]
                 PROVE  r[2] \subseteq contributed'[q]
      BY DEF NothingFromNowhere
    <2>1. r \in delivered[q][m] \/ (q = o /\ r = p)
      BY <1>6
    <2> QED  BY <1>1, <2>1 DEF IInv, NothingFromNowhere
  <1>9. CompleteMeansDelivered'
    <2> SUFFICES ASSUME NEW q \in complete', NEW m \in Member
                 PROVE  HasAll(q, m, delivered'[q][m])
      BY DEF CompleteMeansDelivered
    <2>1. CASE q \in complete
      <3>1. q \in Op /\ Due(q, m) \subseteq delivered[q][m]
        BY <2>1 DEF IInv, TypeOK, CompleteMeansDelivered, HasAll
      <3>2. delivered[q][m] \subseteq delivered'[q][m]
        BY <1>6, <3>1
      <3> QED  BY <3>1, <3>2 DEF HasAll
    <2>2. CASE q \notin complete
      BY <1>1, <2>2
    <2> QED  BY <2>1, <2>2
  <1>10. TriggersRespected'
    BY <1>1, <1>3 DEF IInv, TriggersRespected
  <1> QED  BY <1>5, <1>7, <1>8, <1>9, <1>10 DEF IInv

LEMMA IInvStep == IInv /\ [Next]_vars => IInv'
  <1> SUFFICES ASSUME IInv, [Next]_vars PROVE IInv'
    OBVIOUS
  <1>1. CASE Next
    BY <1>1, ContributeStep, DeliverStep DEF Next
  <1>2. CASE UNCHANGED vars
    BY <1>2 DEF vars, IInv, TypeOK, Pieces, OnlyDue, NothingFromNowhere,
                CompleteMeansDelivered, TriggersRespected, HasAll
  <1> QED  BY <1>1, <1>2

(* Every piece a member holds comes from members that have contributed.     *)
THEOREM PiecesHaveSources == Spec => []NothingFromNowhere
  <1>1. IInv => NothingFromNowhere
    BY DEF IInv
  <1> QED  BY <1>1, IInvInit, IInvStep, PTL DEF Spec

(* When an operation completes, every member holds all it is due, and it    *)
(* stays so.                                                                *)
THEOREM CompletionIsTotal == Spec => []CompleteMeansDelivered
  <1>1. IInv => CompleteMeansDelivered
    BY DEF IInv
  <1> QED  BY <1>1, IInvInit, IInvStep, PTL DEF Spec

(* A chained operation never starts before those it waits for complete.     *)
THEOREM ChainsInOrder == Spec => []TriggersRespected
  <1>1. IInv => TriggersRespected
    BY DEF IInv
  <1> QED  BY <1>1, IInvInit, IInvStep, PTL DEF Spec
=============================================================================
