---- MODULE LifecycleProofs ----
(***************************************************************************)
(* The abstract lifecycle keeps its promises for any set of orders.        *)
(***************************************************************************)
EXTENDS Lifecycle, TLAPS

\* Every edge leads to a stage, and to one that Reaches allows.
LEMMA EdgeReaches ==
  ASSUME NEW s \in Stages, NEW t \in Stages, Edge(s, t)
  PROVE  Reaches(s, t)
BY DEF Edge, Reaches, Stages, IsActive, ExpiryExempt, NoOrder, Pending,
       AwaitingResolution, Redeeming, SettlementBridging, SettlementSwapping,
       Complete, Failed, Cancelled

\* Reaches is transitive: it describes any number of edges.
LEMMA ReachesTransitive ==
  ASSUME NEW r \in Stages, NEW s \in Stages, NEW t \in Stages,
         Reaches(r, s), Reaches(s, t)
  PROVE  Reaches(r, t)
BY DEF Reaches, Stages, NoOrder, AwaitingResolution, Complete, Failed, Cancelled

----
\* Both variables hold a stage for every order.
THEOREM TypeCorrect == Spec => []TypeOK
<1>1. Init => TypeOK
  BY DEF Init, TypeOK, Stages, NoOrder, Cancelled
<1>2. TypeOK /\ [Next]_vars => TypeOK'
  <2> SUFFICES ASSUME TypeOK, [Next]_vars PROVE TypeOK'
    OBVIOUS
  <2>1. CASE \E o \in Orders : Step(o)
    BY <2>1 DEF TypeOK, Step
  <2>2. CASE Persist
    BY <2>2 DEF TypeOK, Persist
  <2>3. CASE Rollback
    BY <2>3 DEF TypeOK, Rollback
  <2>4. CASE UNCHANGED vars
    BY <2>4 DEF TypeOK, vars
  <2> QED
    BY <2>1, <2>2, <2>3, <2>4 DEF Next
<1> QED
  BY <1>1, <1>2, PTL DEF Spec

\* An edge taken, or none, keeps every order within Reaches of where it was.
LEMMA StepReaches ==
  ASSUME TypeOK, NEW o \in Orders, Step(o)
  PROVE  \A p \in Orders : Reaches(live[p], live'[p])
<1> PICK t \in Stages : Edge(live[o], t) /\ live' = [live EXCEPT ![o] = t]
  BY DEF Step
<1>1. Reaches(live[o], t)
  BY EdgeReaches DEF TypeOK
<1> QED
  BY <1>1 DEF TypeOK, Reaches

\* What is saved is a past of what is live, for any number of orders.
THEOREM SavedIsPastAlways == Spec => []SavedIsPast
<1>1. Init => SavedIsPast
  BY DEF Init, SavedIsPast, Reaches
<1>2. TypeOK /\ TypeOK' /\ SavedIsPast /\ [Next]_vars => SavedIsPast'
  <2> SUFFICES ASSUME TypeOK, TypeOK', SavedIsPast, [Next]_vars,
                      NEW p \in Orders
               PROVE  Reaches(saved'[p], live'[p])
    BY DEF SavedIsPast
  <2>1. CASE \E o \in Orders : Step(o)
    <3>1. Reaches(live[p], live'[p])
      BY <2>1, StepReaches
    <3>2. Reaches(saved[p], live'[p])
      BY <3>1, ReachesTransitive DEF TypeOK, SavedIsPast
    <3>3. saved' = saved \/ saved' = live'
      BY <2>1 DEF Step
    <3> QED
      BY <3>2, <3>3 DEF Reaches
  <2>2. CASE Persist
    BY <2>2 DEF Persist, Reaches
  <2>3. CASE Rollback
    BY <2>3 DEF Rollback, Reaches
  <2>4. CASE UNCHANGED vars
    BY <2>4 DEF SavedIsPast, vars
  <2> QED
    BY <2>1, <2>2, <2>3, <2>4 DEF Next
<1> QED
  BY <1>1, <1>2, TypeCorrect, PTL DEF Spec

\* What is saved only moves forward, so that a saved final stage stays.
THEOREM SavedMovesForward == Spec => SavedForward
<1> DEFINE Forward == \A o \in Orders : Reaches(saved[o], saved'[o])
<1>1. TypeOK /\ TypeOK' /\ SavedIsPast /\ [Next]_vars => [Forward]_vars
  <2> SUFFICES ASSUME TypeOK, TypeOK', SavedIsPast, [Next]_vars,
                      NEW p \in Orders
               PROVE  Reaches(saved[p], saved'[p])
    OBVIOUS
  <2>1. CASE \E o \in Orders : Step(o)
    <3>1. Reaches(saved[p], live'[p])
      BY <2>1, StepReaches, ReachesTransitive DEF TypeOK, SavedIsPast
    <3>2. saved' = saved \/ saved' = live'
      BY <2>1 DEF Step
    <3> QED
      BY <3>1, <3>2 DEF Reaches
  <2>2. CASE Persist
    BY <2>2 DEF Persist, SavedIsPast
  <2>3. CASE Rollback
    BY <2>3 DEF Rollback, Reaches
  <2>4. CASE UNCHANGED vars
    BY <2>4 DEF Reaches, vars
  <2> QED
    BY <2>1, <2>2, <2>3, <2>4 DEF Next
<1> QED
  BY <1>1, TypeCorrect, SavedIsPastAlways, PTL DEF Spec, SavedForward

====
