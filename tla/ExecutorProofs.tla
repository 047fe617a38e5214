---- MODULE ExecutorProofs ----
(***************************************************************************)
(* What holds of the executor for every set of orders, every bound and     *)
(* every store.  The fourteen step actions are first given one common      *)
(* shape (StepShape), from which the invariants follow.  The second half   *)
(* adds the volume cap, the circuit breaker, what the snapshot keeps, and, *)
(* where writes succeed, what Failed and Cancelled tell.                   *)
(***************************************************************************)
EXTENDS Executor, TLAPS

\* Where an order stands; for a failed one, where it stood when it failed.
Position(st) == IF st.stage = Failed THEN st.failedAt ELSE st.stage

(***************************************************************************)
(* The call in flight: what phase says of cur, ret and the stored status.  *)
(***************************************************************************)
CallOK ==
  /\ phase # "idle" => up
  /\ mode # "none" => up
  /\ phase = "insert" => memory[cur].stage = NoOrder /\ ret = At(Pending)
  /\ phase \in {"step", "burn", "payout", "commit"} => IsActive(memory[cur].stage)
  /\ phase \in {"step", "burn", "payout"} => ret = At(NoOrder)
  /\ phase = "burn"   => memory[cur].stage = Redeeming
  /\ phase = "payout" => memory[cur].stage = SettlementSwapping
  /\ phase = "commit" =>
       \/ ret.stage = memory[cur].stage
       \/ L!Edge(memory[cur].stage, ret.stage)
  /\ phase = "commit" /\ ret.stage = Failed =>
       ret.failedAt = memory[cur].stage

----
\* The phase in which the second call of a step is made, and its stage.
SecondPhase(e) == IF e = "returnBurn" THEN "burn" ELSE "payout"
SecondStage(e) == IF e = "returnBurn" THEN Redeeming ELSE SettlementSwapping

(***************************************************************************)
(* Statuses and effects.                                                   *)
(***************************************************************************)
LEMMA StatusTypes ==
  /\ \A s \in Stages : At(s) \in StatusSet(Nat) /\ At(s).stage = s
  /\ \A n \in Nat : Bridged(n) \in StatusSet(Nat) /\ Bridged(n).stage = BridgeComplete
  /\ \A s \in Stages, why \in Reasons :
       /\ FailedIn(s, why) \in StatusSet(Nat)
       /\ FailedIn(s, why).stage = Failed
       /\ FailedIn(s, why).failedAt = s
BY DEF At, Bridged, FailedIn, StatusSet, Stages, Reasons, NoOrder, BridgeComplete,
       Failed, Cancelled

\* Every effect belongs to a stage in which an order is active.
LEMMA SentInActive == \A e \in Effects : SentIn(e) \in Pending .. SettlementSwapping
BY DEF Effects, SentIn, Pending, SolanaSwapComplete, BridgePending, BridgeComplete,
       PolymarketOrderPosted, AwaitingResolution, Redeeming, SettlementBridging,
       SettlementSwapping

\* Four stages only wait: no effect that an order needs belongs to them.
LEMMA WaitingStages ==
  \A e \in Needed : SentIn(e) \notin {SolanaSwapInProgress, BridgeRelaying,
                                      PolymarketOrderPosted, PolymarketFilled}
BY DEF Needed, Effects, SentIn, Pending, SolanaSwapInProgress, SolanaSwapComplete,
       BridgePending, BridgeRelaying, BridgeComplete, PolymarketOrderPosted,
       PolymarketFilled, AwaitingResolution, Redeeming, SettlementBridging,
       SettlementSwapping

\* A stage has one effect, or a first and a second one.
LEMMA OneEffect ==
  \A d, e \in Effects :
    SentIn(d) = SentIn(e) => \/ d = e
                             \/ d \in SecondCalls /\ e = FirstCall(d)
                             \/ e \in SecondCalls /\ d = FirstCall(e)
BY DEF Effects, SecondCalls, FirstCall, SentIn, Pending, SolanaSwapComplete,
       BridgePending, BridgeComplete, PolymarketOrderPosted, AwaitingResolution,
       Redeeming, SettlementBridging, SettlementSwapping

\* What a second call has to do with its first.
LEMMA CallPairs ==
  \A e \in SecondCalls :
    /\ e \in Needed /\ FirstCall(e) \in Needed /\ e \in Effects /\ FirstCall(e) \in Effects
    /\ SentIn(FirstCall(e)) = SentIn(e) /\ FirstCall(e) \notin SecondCalls
    /\ SentIn(e) = SecondStage(e) /\ SecondPhase(e) \in {"burn", "payout"}
    /\ \A d \in SecondCalls \ {e} : /\ SentIn(d) # SentIn(e)
                                    /\ SecondPhase(d) # SecondPhase(e)
                                    /\ FirstCall(d) # FirstCall(e)
BY DEF Needed, Effects, SecondCalls, FirstCall, SecondStage, SecondPhase, SentIn,
       Redeeming, SettlementSwapping

\* The edges of the abstract lifecycle, in the executor's own names.
LEMMA EdgeCases ==
  \A s, t : L!Edge(s, t) <=> \/ s \in NoOrder .. SettlementSwapping /\ t = s + 1
                             \/ IsActive(s) /\ t = Failed
                             \/ IsActive(s) /\ ~ExpiryExempt(s) /\ t = Cancelled
BY DEF L!Edge, L!IsActive, IsActive, L!ExpiryExempt, ExpiryExempt, L!NoOrder,
       NoOrder, L!Pending, Pending, L!AwaitingResolution, AwaitingResolution,
       L!Redeeming, Redeeming, L!SettlementBridging, SettlementBridging,
       L!SettlementSwapping, SettlementSwapping, L!Failed, Failed, L!Cancelled,
       Cancelled

----
(***************************************************************************)
(* The shape of a step: it waits, fails, moves on by one stage, or is half *)
(* way through one that makes two calls.  An effect it makes is one of its *)
(* stage.                                                                  *)
(***************************************************************************)
Makes(e) == /\ SentIn(e) = memory[cur].stage
            /\ IF phase = "step" THEN e \notin SecondCalls
                                 ELSE e \in SecondCalls /\ phase = SecondPhase(e)
            /\ Broadcast(e)

FirstCalls == {FirstCall(e) : e \in SecondCalls}

Waits == phase = "step" /\ Return(memory[cur]) /\ sent' = sent

Fails == /\ \E why \in Reasons : Return(FailedIn(memory[cur].stage, why))
         /\ sent' = sent \/ \E e \in Effects : Makes(e)

Moves == /\ phase' = "commit" /\ cur' = cur
         /\ ret' \in StatusSet(Nat) /\ ret'.stage = memory[cur].stage + 1
         /\ \/ \E e \in Needed \ FirstCalls : Makes(e)
            \/ /\ \A e \in Needed : SentIn(e) # memory[cur].stage
               /\ sent' = sent

Halves == /\ phase = "step"
          /\ \E e \in SecondCalls : /\ Goto(SecondPhase(e), cur, ret)
                                     /\ Makes(FirstCall(e))

StepShape == /\ up /\ phase \in {"step", "burn", "payout"} /\ cur \in Orders
             /\ IsActive(memory[cur].stage)
             /\ Waits \/ Fails \/ Moves \/ Halves
             /\ StepUnchanged /\ volume' \in Nat

\* Every step has that shape.
LEMMA StepHasShape ==
  ASSUME TypeOK, CallOK, Step
  PROVE  StepShape
<1> USE StatusTypes DEF Goto, Return, Fail, Stay, CallOut, Stepping, IsActive
<1> USE DEF Needed, FirstCalls, SecondCalls, FirstCall, SecondPhase
<1> DEFINE Outcome == Waits \/ Fails \/ Moves \/ Halves
<1>0. /\ cur \in Orders => memory[cur] \in StatusSet(Nat)
      /\ cur \in Orders => memory[cur].usdc \in Nat /\ memory[cur].stage \in Stages
      /\ "call" \in Reasons /\ "market" \in Reasons /\ "cap" \in Reasons
      /\ "lost" \in Reasons
  BY DEF TypeOK, StoreTypeOK, StatusSet, Reasons
<1>1. /\ up /\ phase \in {"step", "burn", "payout"} /\ cur \in Orders
      /\ IsActive(memory[cur].stage)
  BY DEF TypeOK, CallOK, Step, StepPending, StepSolanaSwapInProgress,
         StepSolanaSwapComplete, StepBridgePending, StepBridgeRelaying,
         StepBridgeComplete, StepPolyOrderPosted, StepPolymarketFilled,
         StepAwaitingResolution, StepRedeeming, ReturnBurn, StepSettlementBridging,
         StepSettlementSwapping, TransferSol
<1>2. CASE StepPending
  <2>1. Outcome
    BY <1>0, <1>1, <1>2 DEF StepPending, Fails, Moves, Makes, Effects, SentIn,
       Pending, SolanaSwapInProgress, Stages, NoOrder, Cancelled
  <2> QED
    BY <1>1, <1>2, <2>1 DEF StepShape, StepPending, TypeOK
<1>3. CASE StepSolanaSwapInProgress
  <2>1. Outcome
    BY <1>0, <1>1, <1>3, WaitingStages DEF StepSolanaSwapInProgress, Waits, Fails,
       Moves, SolanaSwapInProgress, SolanaSwapComplete, Stages, NoOrder, Cancelled
  <2> QED
    BY <1>1, <1>3, <2>1 DEF StepShape, StepSolanaSwapInProgress, TypeOK
<1>4. CASE StepSolanaSwapComplete
  <2>1. Outcome
    BY <1>0, <1>1, <1>4 DEF StepSolanaSwapComplete, Fails, Moves, Makes, Effects,
       SentIn, SolanaSwapComplete, BridgePending, Stages, NoOrder, Cancelled
  <2> QED
    BY <1>1, <1>4, <2>1 DEF StepShape, StepSolanaSwapComplete, TypeOK
<1>5. CASE StepBridgePending
  <2>1. Outcome
    BY <1>0, <1>1, <1>5 DEF StepBridgePending, Waits, Fails, Moves, Makes, Effects,
       SentIn, BridgePending, BridgeRelaying, Stages, NoOrder, Cancelled
  <2> QED
    BY <1>1, <1>5, <2>1 DEF StepShape, StepBridgePending, TypeOK
<1>6. CASE StepBridgeRelaying
  <2>1. Outcome
    BY <1>0, <1>1, <1>6, WaitingStages DEF StepBridgeRelaying, Waits, Fails,
       Moves, BridgeRelaying, BridgeComplete, Stages, NoOrder, Cancelled
  <2> QED
    BY <1>1, <1>6, <2>1 DEF StepShape, StepBridgeRelaying, TypeOK
<1>7. CASE StepBridgeComplete
  <2>1. Outcome
    BY <1>0, <1>1, <1>7 DEF StepBridgeComplete, Fails, Moves, Makes, Effects,
       SentIn, BridgeComplete, PolymarketOrderPosted, Stages, NoOrder, Cancelled
  <2>2. volume' \in Nat
    BY <1>0, <1>1, <1>7 DEF StepBridgeComplete, TypeOK
  <2> QED
    BY <1>1, <1>7, <2>1, <2>2 DEF StepShape, StepBridgeComplete
<1>8. CASE StepPolyOrderPosted
  <2>1. Outcome
    <3>1. phase = "step" /\ memory[cur].stage = PolymarketOrderPosted
      BY <1>8 DEF StepPolyOrderPosted
    <3>2. SentIn("cancel") = memory[cur].stage /\ "cancel" \in Effects
      BY <3>1 DEF SentIn, Effects
    <3>3. CASE Return(At(PolymarketFilled)) /\ UNCHANGED sent
      BY <1>0, <1>1, <3>1, <3>3, WaitingStages DEF Moves, PolymarketOrderPosted,
         PolymarketFilled, Stages, NoOrder, Cancelled
    <3>4. CASE Fail("call") /\ (UNCHANGED sent \/ Broadcast("cancel"))
      BY <1>0, <3>1, <3>2, <3>4 DEF Fails, Makes
    <3> QED
      BY <1>8, <3>3, <3>4 DEF StepPolyOrderPosted
  <2> QED
    BY <1>1, <1>8, <2>1 DEF StepShape, StepPolyOrderPosted, TypeOK
<1>9. CASE StepPolymarketFilled
  <2>1. Outcome
    BY <1>0, <1>1, <1>9, WaitingStages DEF StepPolymarketFilled, Moves,
       PolymarketFilled, AwaitingResolution, Stages, NoOrder, Cancelled
  <2> QED
    BY <1>1, <1>9, <2>1 DEF StepShape, StepPolymarketFilled, TypeOK
<1>10. CASE StepAwaitingResolution
  <2>1. Outcome
    BY <1>0, <1>1, <1>10 DEF StepAwaitingResolution, Waits, Fails, Moves, Makes,
       Effects, SentIn, AwaitingResolution, Redeeming, Stages, NoOrder, Cancelled
  <2> QED
    BY <1>1, <1>10, <2>1 DEF StepShape, StepAwaitingResolution, TypeOK
<1>11. CASE StepRedeeming
  <2>1. Outcome
    BY <1>0, <1>1, <1>11 DEF StepRedeeming, Waits, Fails, Halves, Makes, Effects,
       SentIn, Redeeming, Stages, NoOrder, Cancelled
  <2> QED
    BY <1>1, <1>11, <2>1 DEF StepShape, StepRedeeming, TypeOK
<1>12. CASE StepSettlementBridging
  <2>1. Outcome
    BY <1>0, <1>1, <1>12 DEF StepSettlementBridging, Waits, Fails, Moves, Makes,
       Effects, SentIn, SettlementBridging, SettlementSwapping, Stages, NoOrder,
       Cancelled
  <2> QED
    BY <1>1, <1>12, <2>1 DEF StepShape, StepSettlementBridging, TypeOK
<1>13. CASE StepSettlementSwapping
  <2>1. Outcome
    BY <1>0, <1>1, <1>13 DEF StepSettlementSwapping, Fails, Halves, Makes, Effects,
       SentIn, SettlementSwapping, Stages, NoOrder, Cancelled
  <2> QED
    BY <1>1, <1>13, <2>1 DEF StepShape, StepSettlementSwapping, TypeOK
<1>14. CASE TransferSol
  <2>1. Outcome
    BY <1>0, <1>1, <1>14 DEF TransferSol, CallOK, Fails, Moves, Makes, Effects,
       SentIn, SettlementSwapping, Complete, Stages, NoOrder, Cancelled
  <2> QED
    BY <1>1, <1>14, <2>1 DEF StepShape, TransferSol, TypeOK
<1>15. CASE ReturnBurn
  <2>1. Outcome
    BY <1>0, <1>1, <1>15 DEF ReturnBurn, CallOK, Fails, Moves, Makes, Effects,
       SentIn, Redeeming, SettlementBridging, Stages, NoOrder, Cancelled
  <2> QED
    BY <1>1, <1>15, <2>1 DEF StepShape, ReturnBurn, TypeOK
<1> QED
  BY <1>2, <1>3, <1>4, <1>5, <1>6, <1>7, <1>8, <1>9, <1>10, <1>11, <1>12, <1>13,
     <1>14, <1>15 DEF Step

----
(***************************************************************************)
(* Type correctness, together with CallOK.                                 *)
(***************************************************************************)
\* What the store does to its variables, whoever calls it.
LEMMA FlushTypes ==
  ASSUME StoreTypeOK, memory' \in [Orders -> StatusSet(Nat)],
         FlushOk \/ FlushFails
  PROVE  disk' \in [Orders -> StatusSet(Nat)] /\ torn' \in BOOLEAN
BY StoreAssumption DEF StoreTypeOK, FlushOk, FlushFails

\* The variables of the model have their types, and the call in flight agrees
\* with the stored status of its order.
THEOREM TypeCorrect == Spec => [](TypeOK /\ CallOK)
<1> USE StatusTypes, StoreAssumption, ExecutorAssumption
<1>1. Init => TypeOK /\ CallOK
  <2> SUFFICES ASSUME Init PROVE TypeOK /\ CallOK
    OBVIOUS
  <2>1. At(NoOrder) \in StatusSet(Nat)
    BY DEF Stages, NoOrder, Cancelled
  <2>2. StoreTypeOK
    BY <2>1 DEF Init, StoreInit, Empty, StoreTypeOK
  <2>3. sent \in [Orders -> [Effects -> Nat]]
    BY DEF Init
  <2>4. TypeOK
    BY <2>1, <2>2, <2>3 DEF Init, NoCall, TypeOK, Modes, Phases
  <2>5. CallOK
    BY DEF Init, NoCall, CallOK
  <2> QED
    BY <2>4, <2>5
<1>2. TypeOK /\ CallOK /\ [Next]_vars => TypeOK' /\ CallOK'
  <2> SUFFICES ASSUME TypeOK, CallOK, [Next]_vars
               PROVE  TypeOK' /\ CallOK'
    OBVIOUS
  <2>1. CASE \E o \in Orders : Submit(o)
    <3> PICK o \in Orders : Submit(o)
      BY <2>1
    <3>1. TypeOK'
      BY DEF Submit, Goto, TypeOK, StoreTypeOK, storeVars, envVars, Phases,
             Stages, NoOrder, Pending, Cancelled
    <3>2. CallOK'
      BY DEF Submit, Goto, CallOK, storeVars
    <3> QED
      BY <3>1, <3>2
  <2>2. CASE \E o \in Orders : Advance(o)
    <3> PICK o \in Orders : Advance(o)
      BY <2>2
    <3>1. TypeOK'
      BY DEF Advance, Called, Goto, TypeOK, StoreTypeOK, storeVars, callVars,
             envVars, Phases, Stages, NoOrder, Cancelled
    <3>2. ASSUME Stops(o), Goto("commit", o, At(Cancelled))
          PROVE  CallOK'
      <4>1. /\ phase' = "commit" /\ cur' = o /\ ret' = At(Cancelled)
            /\ ret'.stage = Cancelled /\ Cancelled # Failed
            /\ memory' = memory /\ up' = up /\ up /\ mode' = mode
            /\ IsActive(memory[o].stage)
        BY <3>2 DEF Advance, Goto, storeVars, Stages, NoOrder, Cancelled, Failed
      <4>2. L!Edge(memory[o].stage, Cancelled)
        BY <3>2, <4>1, EdgeCases DEF Stops
      <4> QED
        BY <4>1, <4>2 DEF CallOK
    <3>3. ASSUME Goto("step", o, At(NoOrder))
          PROVE  CallOK'
      BY <3>3 DEF Advance, Goto, CallOK, storeVars
    <3>4. ASSUME UNCHANGED callVars
          PROVE  CallOK'
      BY <3>4 DEF Advance, callVars, CallOK, storeVars
    <3> QED
      BY <3>1, <3>2, <3>3, <3>4 DEF Advance
  <2>3. CASE \E o \in Orders : DeadlinePasses(o)
    BY <2>3 DEF DeadlinePasses, storeVars, callVars, TypeOK, StoreTypeOK, CallOK
  <2>4. CASE Insert
    <3>1. cur \in Orders /\ memory' = [memory EXCEPT ![cur] = ret]
      BY <2>4 DEF Insert, Put, TypeOK
    <3>2. StoreTypeOK'
      BY <2>4, <3>1, FlushTypes DEF Insert, Put, TypeOK, StoreTypeOK
    <3>3. TypeOK'
      BY <2>4, <3>1, <3>2 DEF Insert, EndCall, TypeOK, envVars, Phases, Stages,
             NoOrder, Cancelled
    <3> QED
      BY <2>4, <3>3 DEF Insert, Put, EndCall, CallOK
  <2>5. CASE StartOnce
    BY <2>5 DEF StartOnce, storeVars, callVars, PendingIds, Modes, TypeOK,
           StoreTypeOK, CallOK
  <2>6. CASE StartLoop
    BY <2>6 DEF StartLoop, storeVars, callVars, envVars, PendingIds, Modes, TypeOK,
           StoreTypeOK, CallOK
  <2>7. CASE EndPass
    BY <2>7 DEF EndPass, storeVars, callVars, envVars, PendingIds, Modes, TypeOK,
           StoreTypeOK, CallOK
  <2>8. CASE Step
    <3>1. StepShape
      BY <2>8, StepHasShape
    <3>2. /\ ret' \in StatusSet(Nat) /\ phase' \in {"commit", "burn", "payout"}
          /\ cur' = cur
      BY <3>1 DEF StepShape, Waits, Fails, Moves, Halves, Return, Goto, TypeOK,
             StoreTypeOK, StatusSet, SecondPhase
    <3>3. sent' \in [Orders -> [Effects -> Nat]]
      <4>1. sent' = sent \/ \E e \in Effects : Broadcast(e)
        BY <3>1, CallPairs DEF StepShape, Waits, Fails, Moves, Halves, Makes, Needed
      <4>2. ASSUME NEW e \in Effects, Broadcast(e)
            PROVE  sent' \in [Orders -> [Effects -> Nat]]
        BY <3>1, <4>2 DEF StepShape, Broadcast, TypeOK
      <4> QED
        BY <4>1, <4>2 DEF TypeOK
    <3>4. TypeOK'
      BY <3>1, <3>2, <3>3 DEF StepShape, StepUnchanged, storeVars, envVars, TypeOK,
             StoreTypeOK, Phases
    <3>5. CallOK'
      <4>1. /\ memory' = memory /\ up' = up /\ mode' = mode /\ cur' = cur /\ up
            /\ IsActive(memory[cur].stage) /\ memory[cur].stage \in Stages
        BY <3>1, <3>2 DEF StepShape, StepUnchanged, storeVars, TypeOK, StoreTypeOK,
           StatusSet
      <4>2. CASE Waits
        BY <4>1, <4>2 DEF Waits, Return, Goto, CallOK, IsActive, Pending,
           SettlementSwapping, Failed
      <4>3. CASE Fails
        <5>1. /\ phase' = "commit" /\ ret'.stage = Failed
              /\ ret'.failedAt = memory[cur].stage
          BY <4>1, <4>3 DEF Fails, Return, Goto
        <5> QED
          BY <4>1, <5>1, EdgeCases DEF CallOK
      <4>4. CASE Moves
        <5>1. /\ phase' = "commit" /\ ret'.stage = memory[cur].stage + 1
              /\ ret'.stage # Failed
              /\ memory[cur].stage \in NoOrder .. SettlementSwapping
          BY <4>1, <4>4 DEF Moves, IsActive, Pending, SettlementSwapping, Failed,
             NoOrder
        <5> QED
          BY <4>1, <5>1, EdgeCases DEF CallOK
      <4>5. CASE Halves
        <5> PICK e \in SecondCalls : Goto(SecondPhase(e), cur, ret) /\ Makes(FirstCall(e))
          BY <4>5 DEF Halves
        <5>1. memory[cur].stage = SecondStage(e)
          BY CallPairs DEF Makes
        <5>2. phase = "step"
          BY <4>5 DEF Halves
        <5> QED
          BY <4>1, <5>1, <5>2 DEF SecondPhase, SecondStage, Goto, CallOK
      <4> QED
        BY <3>1, <4>2, <4>3, <4>4, <4>5 DEF StepShape
    <3> QED
      BY <3>4, <3>5
  <2>9. CASE Finish
    <3>1. cur \in Orders /\ memory' = [memory EXCEPT ![cur] = ret]
      BY <2>9 DEF Finish, Put, TypeOK
    <3>2. StoreTypeOK'
      BY <2>9, <3>1, FlushTypes DEF Finish, Put, TypeOK, StoreTypeOK
    <3>3. failures' \in Nat
      BY <2>9 DEF Finish, TypeOK
    <3>4. TypeOK'
      BY <2>9, <3>1, <3>2, <3>3 DEF Finish, EndCall, TypeOK, envVars, Phases,
             Stages, NoOrder, Cancelled
    <3> QED
      BY <2>9, <3>4 DEF Finish, Put, EndCall, CallOK
  <2>10. CASE Crash
    <3>1. At(NoOrder) \in StatusSet(Nat)
      BY DEF Stages, NoOrder, Cancelled
    <3>2. StoreTypeOK'
      BY <2>10, <3>1 DEF Crash, StoreCrash, Empty, TypeOK, StoreTypeOK
    <3>3. /\ failures' = 0 /\ volume' = 0 /\ windowOver' = FALSE /\ mode' = "none"
          /\ todo' = {} /\ phase' = "idle" /\ cur' = NoId /\ ret' = At(NoOrder)
          /\ crashes' = crashes + 1 /\ UNCHANGED <<sent, acked, expired>>
      BY <2>10 DEF Crash, EndCall
    <3>5. failures' \in Nat /\ volume' \in Nat /\ crashes' \in Nat
      BY <3>3 DEF TypeOK
    <3>6. windowOver' \in BOOLEAN /\ (phase' = "idle" <=> cur' = NoId)
      BY <3>3
    <3>7. TypeOK'
      BY <3>1, <3>2, <3>3, <3>5, <3>6 DEF TypeOK, Modes, Phases
    <3>4. CallOK'
      BY <2>10 DEF Crash, EndCall, CallOK
    <3> QED
      BY <3>4, <3>7
  <2>11. CASE Restart
    BY <2>11 DEF Restart, WithPersistence, callVars, envVars, TypeOK, StoreTypeOK,
           CallOK
  <2>12. CASE WindowElapses
    BY <2>12 DEF WindowElapses, storeVars, callVars, TypeOK, StoreTypeOK, CallOK
  <2>13. CASE UNCHANGED vars
    BY <2>13 DEF vars, TypeOK, StoreTypeOK, CallOK
  <2> QED
    BY <2>1, <2>2, <2>3, <2>4, <2>5, <2>6, <2>7, <2>8, <2>9, <2>10, <2>11, <2>12,
       <2>13 DEF Next
<1> QED
  BY <1>1, <1>2, PTL DEF Spec

----
(***************************************************************************)
(* No effect is repeated more often than the process was lost.  What the   *)
(* process in flight may still send, it has not sent yet since it started: *)
(* SentOnce makes EffectBound inductive.                                   *)
(***************************************************************************)
Current(o) == IF phase = "commit" /\ cur = o THEN ret ELSE memory[o]

\* The step in flight has made the first of its two calls.
HalfDone(o, e) ==
  cur = o /\ \E s \in SecondCalls : phase = SecondPhase(s) /\ e = FirstCall(s)

MaySend(o, e) == ~up \/ /\ Current(o).stage <= SettlementSwapping
                        /\ Current(o).stage <= SentIn(e)
                        /\ ~HalfDone(o, e)

SentOnce == \A o \in Orders, e \in Effects :
              MaySend(o, e) => sent[o][e] <= crashes

LEMMA OnlyStepsAreHalfDone ==
  /\ phase \notin {"burn", "payout"} => \A o, e : ~HalfDone(o, e)
  /\ phase' \notin {"burn", "payout"} => \A o, e : ~HalfDone(o, e)'
BY CallPairs DEF HalfDone

\* A step sends only what it still may send, and may not send it again.
LEMMA StepSendsOnce ==
  ASSUME TypeOK, CallOK, EffectBound, SentOnce, StepShape
  PROVE  EffectBound' /\ SentOnce'
<1> SUFFICES ASSUME NEW o \in Orders, NEW e \in Effects
             PROVE  /\ sent'[o][e] <= 1 + crashes'
                    /\ MaySend(o, e)' => sent'[o][e] <= crashes'
  BY DEF EffectBound, SentOnce
<1>1. /\ memory' = memory /\ up' = up /\ up /\ crashes' = crashes /\ cur' = cur
      /\ memory[cur].stage \in Pending .. SettlementSwapping
      /\ \A p \in Orders : memory[p].stage \in Nat
      /\ phase \in {"step", "burn", "payout"}
      /\ crashes \in Nat /\ cur \in Orders /\ sent[o][e] \in Nat
  <2>1. /\ memory' = memory /\ up' = up /\ up /\ crashes' = crashes
        /\ memory[cur].stage \in Pending .. SettlementSwapping
        /\ phase \in {"step", "burn", "payout"} /\ cur \in Orders
    BY DEF StepShape, StepUnchanged, storeVars, envVars, IsActive
  <2>2. cur' = cur
    <3>1. Waits \/ Fails \/ Moves \/ Halves
      BY DEF StepShape
    <3> QED
      BY <3>1 DEF Waits, Fails, Moves, Halves, Return, Goto
  <2>3. \A p \in Orders : memory[p].stage \in Nat
    <3>1. \A p \in Orders : memory[p] \in StatusSet(Nat)
      BY DEF TypeOK, StoreTypeOK
    <3>2. \A st \in StatusSet(Nat) : st.stage \in 0 .. 15
      BY DEF StatusSet, Stages, NoOrder, Cancelled
    <3> QED
      BY <3>1, <3>2
  <2>4. crashes \in Nat /\ sent[o][e] \in Nat
    BY DEF TypeOK
  <2> QED
    BY <2>1, <2>2, <2>3, <2>4
<1>2. sent[o][e] <= 1 + crashes /\ (MaySend(o, e) => sent[o][e] <= crashes)
  BY DEF EffectBound, SentOnce
<1>3. SentIn(e) \in Pending .. SettlementSwapping
  BY SentInActive
<1>4. ASSUME NEW d \in Effects, Makes(d), o = cur, e = d
      PROVE  sent'[o][e] <= 1 + crashes /\ MaySend(o, e)
  <2>1. ~HalfDone(o, e)
    <3>1. \A s \in SecondCalls : e = FirstCall(s) => phase = "step"
      BY <1>1, <1>4, CallPairs DEF Makes
    <3> QED
      BY <3>1, CallPairs DEF HalfDone
  <2>3. Current(o).stage = memory[cur].stage
    BY <1>1, <1>4 DEF Current
  <2>4. Current(o).stage <= SettlementSwapping /\ Current(o).stage <= SentIn(e)
    BY <1>1, <1>4, <2>3 DEF Makes, Pending, SettlementSwapping
  <2>5. MaySend(o, e)
    BY <2>1, <2>4 DEF MaySend
  <2>2. sent'[o][e] = sent[o][e] + 1
    BY <1>1, <1>4 DEF Makes, Broadcast, TypeOK
  <2> QED
    BY <1>1, <1>2, <2>2, <2>5
<1>5. ASSUME NEW d \in Effects, Makes(d), o # cur \/ e # d
      PROVE  sent'[o][e] = sent[o][e]
  BY <1>1, <1>5 DEF Makes, Broadcast, TypeOK
<1>6. ASSUME sent' = sent \/ \E d \in Effects : Makes(d)
      PROVE  sent'[o][e] <= 1 + crashes
  BY <1>2, <1>4, <1>5, <1>6
<1>7. ASSUME o # cur
      PROVE  MaySend(o, e)' = MaySend(o, e)
  BY <1>1, <1>7 DEF MaySend, Current, HalfDone
<1>8. CASE Waits
  <2>1. MaySend(o, e)' => MaySend(o, e)
    <3>1. phase = "step" /\ phase' = "commit" /\ ret' = memory[cur]
      BY <1>8 DEF Waits, Return, Goto
    <3>2. Current(o)' = Current(o)
      BY <1>1, <3>1 DEF Current
    <3> QED
      BY <1>1, <3>1, <3>2, OnlyStepsAreHalfDone DEF MaySend
  <2> QED
    BY <1>1, <1>2, <1>8, <2>1 DEF Waits
<1>9. CASE Fails
  <2>1. sent' = sent \/ \E d \in Effects : Makes(d)
    BY <1>9 DEF Fails
  <2>2. o = cur => ~MaySend(o, e)'
    BY <1>1, <1>9 DEF Fails, Return, Goto, FailedIn, MaySend, Current, Failed,
       SettlementSwapping
  <2>3. o # cur => sent'[o][e] = sent[o][e]
    BY <1>5, <2>1
  <2> QED
    BY <1>1, <1>2, <1>6, <1>7, <2>1, <2>2, <2>3
<1>10. CASE Moves
  <2>1. sent' = sent \/ \E d \in Effects : Makes(d)
    BY <1>10 DEF Moves, Needed
  <2>2. ASSUME o = cur, MaySend(o, e)'
        PROVE  MaySend(o, e) /\ SentIn(e) # memory[cur].stage
    <3>1. /\ memory[cur].stage + 1 <= SettlementSwapping
          /\ memory[cur].stage + 1 <= SentIn(e)
      BY <1>1, <1>10, <2>2 DEF Moves, MaySend, Current
    <3>2. SentIn(e) # memory[cur].stage
      BY <1>1, <1>3, <3>1 DEF Pending, SettlementSwapping
    <3>3. \A s \in SecondCalls : phase = SecondPhase(s) => memory[cur].stage = SentIn(s)
      BY CallPairs DEF CallOK, SecondPhase, SecondStage, SecondCalls
    <3>4. ~HalfDone(o, e)
      BY <3>2, <3>3, CallPairs DEF HalfDone
    <3>5. Current(o).stage = memory[cur].stage
      BY <1>1, <2>2 DEF Current
    <3>6. Current(o).stage <= SettlementSwapping /\ Current(o).stage <= SentIn(e)
      BY <1>1, <1>3, <3>1, <3>5 DEF Pending, SettlementSwapping
    <3> QED
      BY <3>2, <3>4, <3>6 DEF MaySend
  <2>3. MaySend(o, e)' => MaySend(o, e) /\ sent'[o][e] = sent[o][e]
    BY <1>5, <1>7, <2>1, <2>2 DEF Makes
  <2> QED
    BY <1>1, <1>2, <1>6, <2>1, <2>3
<1>11. CASE Halves
  <2> PICK s \in SecondCalls : Goto(SecondPhase(s), cur, ret) /\ Makes(FirstCall(s))
    BY <1>11 DEF Halves
  <2>1. FirstCall(s) \in Effects /\ phase = "step" /\ phase' = SecondPhase(s)
    BY <1>11, CallPairs DEF Halves, Goto
  <2>2. o = cur => Current(o)' = Current(o)
    BY <1>1, <2>1, CallPairs DEF Current
  <2>3. MaySend(o, e)' => o # cur \/ e # FirstCall(s)
    BY <1>1, <2>1 DEF MaySend, HalfDone
  <2>4. MaySend(o, e)' => MaySend(o, e)
    BY <1>1, <1>7, <2>1, <2>2, OnlyStepsAreHalfDone DEF MaySend
  <2> QED
    BY <1>1, <1>2, <1>5, <1>6, <2>1, <2>3, <2>4
<1> QED
  BY <1>8, <1>9, <1>10, <1>11 DEF StepShape

\* What the process in flight may still send it has not sent since it started.
LEMMA AlwaysSentOnce == Spec => [](EffectBound /\ SentOnce)
<1> DEFINE Inv == EffectBound /\ SentOnce
<1>1. Init => Inv
  BY DEF Init, EffectBound, SentOnce
<1>2. TypeOK /\ CallOK /\ Inv /\ [Next]_vars => Inv'
  <2> SUFFICES ASSUME TypeOK, CallOK, Inv, [Next]_vars
               PROVE  Inv'
    OBVIOUS
  <2>1. CASE Step
    BY <2>1, StepHasShape, StepSendsOnce
  <2>2. ASSUME UNCHANGED <<sent, crashes>>,
               \A o \in Orders, e \in Effects : MaySend(o, e)' => MaySend(o, e)
        PROVE  Inv'
    BY <2>2 DEF EffectBound, SentOnce
  <2>3. CASE Crash
    <3>1. sent' = sent /\ crashes' = 1 + crashes
      BY <2>3 DEF Crash, TypeOK
    <3>2. \A o \in Orders, e \in Effects : sent'[o][e] <= crashes'
      BY <3>1 DEF EffectBound
    <3>3. \A o \in Orders, e \in Effects : sent'[o][e] <= 1 + crashes'
      BY <3>1, <3>2 DEF TypeOK
    <3> QED
      BY <3>2, <3>3 DEF EffectBound, SentOnce
  <2>4. CASE Restart
    <3>1. ~up /\ UNCHANGED <<sent, crashes>>
      BY <2>4 DEF Restart, WithPersistence, envVars
    <3> QED
      BY <2>2, <3>1 DEF MaySend
  <2>5. CASE \E o \in Orders : Submit(o)
    <3> PICK o \in Orders : Submit(o)
      BY <2>5
    <3>1. \A p \in Orders, e \in Effects : MaySend(p, e)' => MaySend(p, e)
      BY OnlyStepsAreHalfDone DEF Submit, Goto, MaySend, Current, storeVars
    <3> QED
      BY <2>2, <3>1 DEF Submit, envVars
  <2>6. CASE \E o \in Orders : Advance(o)
    <3> PICK o \in Orders : Advance(o)
      BY <2>6
    <3>1. memory' = memory /\ up' = up /\ up /\ phase = "idle"
      BY DEF Advance, storeVars
    <3>2. CASE UNCHANGED callVars
      BY <2>2, <3>1, <3>2, OnlyStepsAreHalfDone DEF Advance, envVars, callVars, MaySend, Current
    <3>3. CASE Goto("step", o, At(NoOrder))
      BY <2>2, <3>1, <3>3, OnlyStepsAreHalfDone DEF Advance, envVars, Goto, MaySend, Current
    <3>4. CASE Goto("commit", o, At(Cancelled))
      <4>1. Current(o)'.stage = Cancelled
        BY <3>4 DEF Goto, Current, At
      <4>2. \A e \in Effects : ~MaySend(o, e)'
        BY <3>1, <4>1 DEF MaySend, Cancelled, SettlementSwapping
      <4>3. \A p \in Orders : p # o => Current(p)' = Current(p)
        BY <3>1, <3>4 DEF Goto, Current
      <4>4. \A p \in Orders, e \in Effects :
              p # o => (MaySend(p, e)' => MaySend(p, e))
        BY <3>1, <3>4, <4>3, OnlyStepsAreHalfDone DEF Goto, MaySend
      <4> QED
        BY <2>2, <4>2, <4>4 DEF Advance, envVars
    <3> QED
      BY <3>2, <3>3, <3>4 DEF Advance
  <2>7. CASE Insert
    <3>1. /\ up /\ up' = up /\ cur \in Orders /\ phase = "insert" /\ phase' = "idle"
          /\ memory' = [memory EXCEPT ![cur] = ret]
          /\ memory[cur].stage = NoOrder /\ UNCHANGED <<sent, crashes>>
      BY <2>7 DEF Insert, Put, EndCall, CallOK, TypeOK, envVars
    <3>2. \A p \in Orders : p # cur => Current(p)' = Current(p)
      BY <3>1 DEF Current, TypeOK, StoreTypeOK
    <3>3. \A e \in Effects : MaySend(cur, e)
      BY <3>1, SentInActive, OnlyStepsAreHalfDone DEF MaySend, Current, NoOrder, Pending,
         SettlementSwapping
    <3>4. \A p \in Orders, e \in Effects : MaySend(p, e)' => MaySend(p, e)
      BY <3>1, <3>2, <3>3, OnlyStepsAreHalfDone DEF MaySend
    <3> QED
      BY <2>2, <3>1, <3>4
  <2>8. CASE Finish
    <3>1. /\ up' = up /\ cur \in Orders /\ phase = "commit" /\ phase' = "idle"
          /\ memory' = [memory EXCEPT ![cur] = ret]
          /\ UNCHANGED <<sent, crashes>>
      BY <2>8 DEF Finish, Put, EndCall, TypeOK, envVars
    <3>2. \A p \in Orders : Current(p)' = Current(p)
      BY <3>1 DEF Current, TypeOK, StoreTypeOK
    <3> QED
      BY <2>2, <3>1, <3>2, OnlyStepsAreHalfDone DEF MaySend
  <2>9. ASSUME UNCHANGED <<memory, up, callVars, sent, crashes>>
        PROVE  Inv'
    BY <2>2, <2>9 DEF callVars, MaySend, Current, HalfDone
  <2>10. CASE \/ \E o \in Orders : DeadlinePasses(o)
              \/ StartOnce \/ StartLoop \/ EndPass \/ WindowElapses
              \/ UNCHANGED vars
    BY <2>9, <2>10 DEF DeadlinePasses, StartOnce, StartLoop, EndPass,
       WindowElapses, vars, storeVars, callVars, envVars
  <2> QED
    BY <2>1, <2>3, <2>4, <2>5, <2>6, <2>7, <2>8, <2>10 DEF Next
<1> QED
  BY <1>1, <1>2, TypeCorrect, PTL DEF Spec

\* No effect is sent more often than once, and once more for every crash.
THEOREM EffectsAreBounded == Spec => []EffectBound
BY AlwaysSentOnce, PTL

\* What the README says of restarts holds of everything else: until a process
\* is lost nothing is sent twice, be it resubmitted, polled, failed, or stored
\* in a file that could not be written.
THEOREM OnceUntilLost == Spec => [](crashes = 0 => EffectOnce)
<1>1. TypeOK /\ EffectBound => (crashes = 0 => EffectOnce)
  BY DEF EffectBound, EffectOnce, TypeOK
<1> QED
  BY <1>1, TypeCorrect, EffectsAreBounded, PTL

----
(***************************************************************************)
(* The effects of an order in sequence.  A status is backed when every     *)
(* effect an earlier stage needs was sent; the statuses in memory, on disk    *)
(* and about to be stored always are.                                      *)
(***************************************************************************)
Backed(o, st) == st.stage # Cancelled =>
                   \A e \in Needed : SentIn(e) < Position(st) => sent[o][e] > 0

AllBacked ==
  /\ \A o \in Orders : Backed(o, memory[o]) /\ Backed(o, disk[o])
  /\ phase = "commit" => Backed(cur, ret)
  /\ \A e \in SecondCalls : phase = SecondPhase(e) => sent[cur][FirstCall(e)] > 0

\* An effect that was sent stays sent.
LEMMA SentGrows ==
  ASSUME TypeOK, CallOK, [Next]_vars
  PROVE  \A o \in Orders, e \in Effects : sent[o][e] > 0 => sent'[o][e] > 0
<1>1. CASE Step
  <2>1. StepShape
    BY <1>1, StepHasShape
  <2>2. sent' = sent \/ \E d \in Effects : Broadcast(d)
    BY <2>1, CallPairs DEF StepShape, Waits, Fails, Moves, Halves, Makes, Needed
  <2>3. ASSUME NEW d \in Effects, Broadcast(d)
        PROVE  \A o \in Orders, e \in Effects : sent[o][e] > 0 => sent'[o][e] > 0
    BY <2>1, <2>3 DEF StepShape, Broadcast, TypeOK
  <2> QED
    BY <2>2, <2>3
<1>2. CASE ~Step
  <2>1. sent' = sent
    BY <1>2 DEF Next, vars, Submit, Advance, DeadlinePasses, Insert, StartOnce,
       StartLoop, EndPass, Finish, Crash, Restart, WindowElapses
  <2> QED
    BY <2>1
<1> QED
  BY <1>1, <1>2

\* Hence a backed status stays backed.
LEMMA BackedStays ==
  ASSUME TypeOK, CallOK, [Next]_vars, NEW o \in Orders, NEW st, Backed(o, st)
  PROVE  Backed(o, st)'
BY SentGrows DEF Backed, Needed

\* What a step is about to store is backed, and what it sends comes in order.
LEMMA StepKeepsOrder ==
  ASSUME TypeOK, CallOK, AllBacked, EffectsInOrder, [Next]_vars, StepShape
  PROVE  AllBacked' /\ EffectsInOrder'
<1>1. /\ memory' = memory /\ disk' = disk /\ cur \in Orders
      /\ memory[cur].stage \in Pending .. SettlementSwapping
      /\ memory[cur].stage \notin {Failed, Cancelled}
      /\ phase \in {"step", "burn", "payout"}
  BY DEF StepShape, StepUnchanged, storeVars, IsActive, Pending, SettlementSwapping,
     Failed, Cancelled
<1>2. cur' = cur
  <2>1. Waits \/ Fails \/ Moves \/ Halves
    BY DEF StepShape
  <2> QED
    BY <2>1 DEF Waits, Fails, Moves, Halves, Return, Goto
<1>3. \A o \in Orders : (Backed(o, memory[o]) /\ Backed(o, disk[o]))'
  BY <1>1, BackedStays DEF AllBacked, Backed
<1>4. \A e \in Needed : SentIn(e) < memory[cur].stage =>
        sent[cur][e] > 0 /\ sent'[cur][e] > 0
  BY <1>1, SentGrows DEF AllBacked, Backed, Position, Needed
<1>5. ASSUME NEW d \in Effects, Makes(d)
      PROVE  /\ sent'[cur][d] > 0
             /\ \A o \in Orders, e \in Effects :
                  (o # cur \/ e # d) => sent'[o][e] = sent[o][e]
  BY <1>1, <1>5 DEF Makes, Broadcast, TypeOK
<1>6. EffectsInOrder'
  <2>1. CASE sent' = sent
    BY <2>1 DEF EffectsInOrder
  <2>2. ASSUME NEW d \in Effects, Makes(d)
        PROVE  EffectsInOrder'
    <3> SUFFICES ASSUME NEW o \in Orders, NEW a \in Effects, NEW b \in Effects,
                        Precedes(a, b), sent'[o][b] > 0
                 PROVE  sent'[o][a] > 0
      BY DEF EffectsInOrder
    <3>1. CASE o # cur \/ b # d
      <4>1. sent[o][a] > 0
        BY <1>5, <2>2, <3>1 DEF EffectsInOrder
      <4> QED
        BY <4>1, SentGrows
    <3>2. CASE o = cur /\ b = d
      <4>1. CASE SentIn(a) < SentIn(b)
        BY <1>4, <2>2, <3>2, <4>1 DEF Makes, Precedes
      <4>2. CASE b \in SecondCalls /\ a = FirstCall(b)
        <5>1. sent[cur][FirstCall(b)] > 0
          BY <2>2, <3>2, <4>2 DEF Makes, AllBacked
        <5> QED
          BY <1>1, <3>2, <4>2, <5>1, SentGrows
      <4> QED
        BY <4>1, <4>2 DEF Precedes
    <3> QED
      BY <3>1, <3>2
  <2>3. sent' = sent \/ \E d \in Effects : Makes(d)
    BY CallPairs DEF StepShape, Waits, Fails, Moves, Halves, Needed
  <2> QED
    BY <2>1, <2>2, <2>3
<1>7. phase' = "commit" => Backed(cur, ret)'
  <2>1. CASE Waits
    BY <1>1, <1>2, <1>4, <2>1 DEF Waits, Return, Goto, Backed, Position
  <2>2. CASE Fails
    <3>1. ret'.stage = Failed /\ ret'.failedAt = memory[cur].stage
      BY <2>2 DEF Fails, Return, Goto, FailedIn
    <3> QED
      BY <1>1, <1>2, <1>4, <3>1 DEF Backed, Position
  <2>3. CASE Moves
    <3>1. /\ ret'.stage = memory[cur].stage + 1
          /\ ret'.stage # Failed
      BY <1>1, <2>3 DEF Moves, Pending, SettlementSwapping, Failed
    <3>2. ASSUME NEW e \in Needed, SentIn(e) <= memory[cur].stage
          PROVE  sent'[cur][e] > 0
      <4>1. CASE SentIn(e) < memory[cur].stage
        BY <1>4, <4>1
      <4>2. CASE SentIn(e) = memory[cur].stage
        <5> PICK d \in Needed \ FirstCalls : Makes(d)
          BY <2>3, <4>2 DEF Moves
        <5>1. d \in Effects /\ e \in Effects
          BY DEF Needed
        <5>2. CASE e = d
          BY <1>5, <5>1, <5>2
        <5>3. CASE e # d
          <6>1. SentIn(d) = SentIn(e)
            BY <4>2 DEF Makes
          <6>2. d \in SecondCalls /\ e = FirstCall(d)
            BY <5>1, <5>3, <6>1, OneEffect DEF FirstCalls
          <6>3. sent[cur][FirstCall(d)] > 0
            BY <6>2 DEF Makes, AllBacked
          <6> QED
            BY <1>1, <5>1, <6>2, <6>3, SentGrows
        <5> QED
          BY <5>2, <5>3
      <4> QED
        BY <1>1, <3>2, <4>1, <4>2, SentInActive DEF Pending, SettlementSwapping, Needed
    <3>3. \A e \in Needed : SentIn(e) < ret'.stage => sent'[cur][e] > 0
      BY <1>1, <3>1, <3>2, SentInActive DEF Pending, SettlementSwapping, Needed
    <3> QED
      BY <1>2, <3>1, <3>3 DEF Backed, Position
  <2>4. CASE Halves
    BY <2>4, CallPairs DEF Halves, Goto
  <2> QED
    BY <2>1, <2>2, <2>3, <2>4 DEF StepShape
<1>8. ASSUME NEW e \in SecondCalls, phase' = SecondPhase(e)
      PROVE  sent'[cur][FirstCall(e)] > 0
  <2>1. Halves
    BY <1>8, CallPairs DEF StepShape, Waits, Fails, Moves, Return, Goto
  <2> PICK s \in SecondCalls : Goto(SecondPhase(s), cur, ret) /\ Makes(FirstCall(s))
    BY <2>1 DEF Halves
  <2>2. s = e
    BY <1>8, CallPairs DEF Goto
  <2> QED
    BY <1>5, <2>2, CallPairs
<1> QED
  BY <1>2, <1>3, <1>6, <1>7, <1>8 DEF AllBacked, Backed

\* Every status that is stored or about to be is backed.
LEMMA AlwaysBacked == Spec => [](AllBacked /\ EffectsInOrder)
<1> DEFINE Inv == AllBacked /\ EffectsInOrder
<1>1. Init => Inv
  <2> SUFFICES ASSUME Init PROVE Inv
    OBVIOUS
  <2>1. /\ \A o \in Orders : memory[o] = At(NoOrder) /\ disk[o] = At(NoOrder)
        /\ \A o \in Orders, e \in Effects : sent[o][e] = 0
        /\ phase = "idle"
    BY DEF Init, StoreInit, Empty, NoCall
  <2>2. \A o \in Orders : Backed(o, At(NoOrder))
    BY SentInActive DEF Backed, Position, At, NoOrder, Failed, Pending,
       SettlementSwapping, Needed
  <2> QED
    BY <2>1, <2>2, CallPairs DEF AllBacked, EffectsInOrder
<1>2. TypeOK /\ CallOK /\ Inv /\ [Next]_vars => Inv'
  <2> SUFFICES ASSUME TypeOK, CallOK, Inv, [Next]_vars
               PROVE  Inv'
    OBVIOUS
  <2>1. CASE Step
    BY <2>1, StepHasShape, StepKeepsOrder
  <2> DEFINE Stored == \A o \in Orders : Backed(o, memory'[o]) /\ Backed(o, disk'[o])
  <2>2. ASSUME sent' = sent
        PROVE  /\ EffectsInOrder'
               /\ \A o, st : Backed(o, st) => Backed(o, st)'
    BY <2>2 DEF EffectsInOrder, Backed
  <2>3. ASSUME sent' = sent, phase' \notin {"burn", "payout"}, Stored,
               phase' = "commit" => Backed(cur', ret')
        PROVE  Inv'
    BY <2>2, <2>3, CallPairs DEF AllBacked, Backed
  <2>4. \A o \in Orders : Backed(o, At(NoOrder)) /\ Backed(o, At(Pending))
    BY SentInActive DEF Backed, Position, At, NoOrder, Failed, Pending,
       SettlementSwapping, Needed
  <2>5. CASE \E o \in Orders : Submit(o)
    BY <2>3, <2>5, CallPairs DEF Submit, Goto, storeVars, AllBacked
  <2>6. CASE \E o \in Orders : Advance(o)
    <3> PICK o \in Orders : Advance(o)
      BY <2>6
    <3>1. /\ memory' = memory /\ disk' = disk /\ sent' = sent /\ phase = "idle"
      BY DEF Advance, storeVars
    <3>2. CASE UNCHANGED callVars
      BY <2>3, <3>1, <3>2 DEF callVars, AllBacked
    <3>3. CASE Goto("step", o, At(NoOrder))
      BY <2>3, <3>1, <3>3 DEF Goto, AllBacked
    <3>4. CASE Goto("commit", o, At(Cancelled))
      <4>1. Backed(o, At(Cancelled))
        BY DEF Backed, At
      <4> QED
        BY <2>3, <3>1, <3>4, <4>1 DEF Goto, AllBacked
    <3> QED
      BY <3>2, <3>3, <3>4 DEF Advance
  <2>7. ASSUME Put(cur, ret), FlushOk \/ FlushFails, cur \in Orders, Backed(cur, ret)
        PROVE  Stored
    <3>1. \A o \in Orders : Backed(o, memory'[o])
      BY <2>7 DEF Put, AllBacked, TypeOK, StoreTypeOK
    <3>2. disk' = disk \/ disk' = memory'
      BY <2>7 DEF FlushOk, FlushFails
    <3> QED
      BY <3>1, <3>2 DEF AllBacked
  <2>8. CASE Insert
    BY <2>3, <2>4, <2>7, <2>8 DEF Insert, EndCall, CallOK, TypeOK
  <2>9. CASE Finish
    BY <2>3, <2>7, <2>9 DEF Finish, EndCall, AllBacked, TypeOK
  <2>10. CASE Crash
    BY <2>3, <2>4, <2>10 DEF Crash, StoreCrash, Empty, EndCall, AllBacked
  <2>11. CASE Restart
    <3>1. memory' = disk /\ disk' = disk /\ sent' = sent /\ phase = "idle"
          /\ phase' = "idle"
      BY <2>11 DEF Restart, WithPersistence, callVars, CallOK
    <3> QED
      BY <2>3, <3>1 DEF AllBacked
  <2>12. ASSUME UNCHANGED <<memory, disk, callVars, sent>>
         PROVE  Inv'
    BY <2>12 DEF callVars, AllBacked, EffectsInOrder, Backed
  <2>13. CASE \/ \E o \in Orders : DeadlinePasses(o)
              \/ StartOnce \/ StartLoop \/ EndPass \/ WindowElapses
              \/ UNCHANGED vars
    BY <2>12, <2>13 DEF DeadlinePasses, StartOnce, StartLoop, EndPass,
       WindowElapses, vars, storeVars, callVars
  <2> QED
    BY <2>1, <2>5, <2>6, <2>8, <2>9, <2>10, <2>11, <2>13 DEF Next
<1> QED
  BY <1>1, <1>2, TypeCorrect, PTL DEF Spec

\* The effects of an order are sent in the documented sequence, across any
\* number of crashes, restarts and failed writes.
THEOREM EffectsComeInOrder == Spec => []EffectsInOrder
BY AlwaysBacked, PTL

----
(***************************************************************************)
(* The executor implements the abstract lifecycle.                         *)
(***************************************************************************)
LiveBar  == [o \in Orders |-> IF up THEN memory[o].stage ELSE disk[o].stage]
SavedBar == [o \in Orders |-> disk[o].stage]

\* Storing the status of one order is an edge, a flush of what was there
\* before, or nothing the abstract specification sees.
LEMMA PutRefines ==
  ASSUME TypeOK, up, cur \in Orders, Put(cur, ret), FlushOk \/ FlushFails,
         ret \in StatusSet(Nat),
         \/ ret.stage = memory[cur].stage
         \/ L!Edge(memory[cur].stage, ret.stage)
  PROVE  [L!Next]_(L!vars)
<1>1. /\ LiveBar = [o \in Orders |-> memory[o].stage]
      /\ LiveBar' = [o \in Orders |-> memory'[o].stage]
      /\ memory' = [memory EXCEPT ![cur] = ret]
  BY DEF LiveBar, Put
<1>2. SavedBar' = SavedBar \/ SavedBar' = LiveBar'
  BY <1>1 DEF FlushOk, FlushFails, SavedBar
<1>3. LiveBar' = [LiveBar EXCEPT ![cur] = ret.stage]
  BY <1>1 DEF TypeOK, StoreTypeOK
<1>4. CASE ret.stage = memory[cur].stage
  <2>1. LiveBar' = LiveBar
    BY <1>1, <1>3, <1>4
  <2> QED
    BY <1>2, <2>1 DEF L!Next, L!Persist, L!vars, LiveBar, SavedBar
<1>5. CASE L!Edge(memory[cur].stage, ret.stage)
  <2>1. ret.stage \in L!Stages
    BY DEF StatusSet, Stages, L!Stages, NoOrder, L!NoOrder, Cancelled, L!Cancelled
  <2>2. L!Edge(LiveBar[cur], ret.stage)
    BY <1>1, <1>5
  <2>3. /\ \E t \in L!Stages : /\ L!Edge(LiveBar[cur], t)
                               /\ LiveBar' = [LiveBar EXCEPT ![cur] = t]
        /\ SavedBar' \in {SavedBar, LiveBar'}
    BY <1>2, <1>3, <2>1, <2>2
  <2>4. \E o \in Orders : L!Step(o)
    BY <2>3 DEF L!Step, LiveBar, SavedBar
  <2> QED
    BY <2>4 DEF L!Next
<1> QED
  BY <1>4, <1>5

\* Every behaviour of the executor is one of the abstract lifecycle.
THEOREM RefinesLifecycle == Spec => LifecycleSpec
<1>1. Init => L!Init
  BY DEF Init, StoreInit, Empty, At, L!Init, NoOrder, L!NoOrder
<1>2. TypeOK /\ CallOK /\ [Next]_vars => [L!Next]_(L!vars)
  <2> SUFFICES ASSUME TypeOK, CallOK, [Next]_vars
               PROVE  [L!Next]_(L!vars)
    OBVIOUS
  <2>1. ASSUME UNCHANGED <<memory, disk, up>>
        PROVE  [L!Next]_(L!vars)
    BY <2>1 DEF L!vars
  <2>2. CASE Step
    BY <2>1, <2>2, StepHasShape DEF StepShape, StepUnchanged, storeVars
  <2>3. CASE Insert
    <3>1. L!Edge(memory[cur].stage, ret.stage)
      BY <2>3, EdgeCases DEF Insert, CallOK, At, NoOrder, Pending,
         SettlementSwapping
    <3> QED
      BY <2>3, <3>1, PutRefines DEF Insert, CallOK, TypeOK
  <2>4. CASE Finish
    BY <2>4, PutRefines DEF Finish, CallOK, TypeOK
  <2>5. CASE Crash
    <3>1. L!Rollback
      <4>1. ~up' /\ disk' = disk
        BY <2>5 DEF Crash, StoreCrash
      <4>2. /\ LiveBar' = [o \in Orders |-> disk'[o].stage]
            /\ SavedBar' = SavedBar
        BY <4>1 DEF LiveBar, SavedBar
      <4> QED
        BY <4>1, <4>2 DEF L!Rollback, LiveBar, SavedBar
    <3> QED
      BY <3>1 DEF L!Next
  <2>6. CASE Restart
    BY <2>6 DEF Restart, WithPersistence, L!vars
  <2>7. CASE \/ \E o \in Orders : Submit(o) \/ Advance(o) \/ DeadlinePasses(o)
             \/ StartOnce \/ StartLoop \/ EndPass \/ WindowElapses
             \/ UNCHANGED vars
    BY <2>1, <2>7 DEF Submit, Advance, DeadlinePasses, StartOnce, StartLoop, EndPass,
       WindowElapses, vars, storeVars
  <2> QED
    BY <2>2, <2>3, <2>4, <2>5, <2>6, <2>7 DEF Next
<1> QED
  BY <1>1, <1>2, TypeCorrect, PTL DEF Spec, LifecycleSpec, L!Spec

----
(***************************************************************************)
(* The volume cap.                                                         *)
(***************************************************************************)
\* What the router has counted since its window was last started anew.
VolumeWithinCap == Cap > 0 => volume <= Cap

\* Only the step that posts adds to the volume, and it looks at the cap first.
LEMMA StepWithinCap ==
  ASSUME TypeOK, CallOK, VolumeWithinCap, Step
  PROVE  VolumeWithinCap'
<1>1. CASE StepBridgeComplete
  <2>1. volume' # volume => ~OverCap /\ volume' = volume + memory[cur].usdc
    BY <1>1 DEF StepBridgeComplete
  <2>2. volume + memory[cur].usdc \in Nat /\ volume \in Nat
    BY <1>1, StepHasShape DEF StepShape, TypeOK, StoreTypeOK, StatusSet
  <2> QED
    BY <2>1, <2>2, ExecutorAssumption DEF OverCap, VolumeWithinCap
<1>2. CASE ~StepBridgeComplete
  <2>1. volume' = volume
    BY <1>2 DEF Step, StepPending, StepSolanaSwapInProgress, StepSolanaSwapComplete,
       StepBridgePending, StepBridgeRelaying, StepPolyOrderPosted,
       StepPolymarketFilled, StepAwaitingResolution, StepRedeeming, ReturnBurn,
       StepSettlementBridging, StepSettlementSwapping, TransferSol
  <2> QED
    BY <2>1 DEF VolumeWithinCap
<1> QED
  BY <1>1, <1>2

\* The counter of the router never passes the cap.
LEMMA VolumeStaysWithinCap == Spec => []VolumeWithinCap
<1>1. Init => VolumeWithinCap
  BY ExecutorAssumption DEF Init, VolumeWithinCap
<1>2. TypeOK /\ CallOK /\ VolumeWithinCap /\ [Next]_vars => VolumeWithinCap'
  <2> SUFFICES ASSUME TypeOK, CallOK, VolumeWithinCap, [Next]_vars
               PROVE  VolumeWithinCap'
    OBVIOUS
  <2>1. CASE Step
    BY <2>1, StepWithinCap
  <2>2. CASE ~Step
    <3>1. volume' = volume \/ volume' = 0
      BY <2>2 DEF Next, vars, Submit, Advance, DeadlinePasses, Insert, StartOnce,
         StartLoop, EndPass, Finish, Crash, Restart, WindowElapses
    <3> QED
      BY <3>1, ExecutorAssumption DEF VolumeWithinCap
  <2> QED
    BY <2>1, <2>2
<1> QED
  BY <1>1, <1>2, TypeCorrect, PTL DEF Spec

----
(***************************************************************************)
(* The circuit breaker.  It opens only when a call has ended, and no call  *)
(* gets past it to a step, so while it is open none is under way.          *)
(***************************************************************************)
Halted == BreakerOpen => up /\ phase \in {"idle", "insert"}

\* A step neither opens nor closes the breaker.
LEMMA StepKeepsBreaker ==
  ASSUME TypeOK, CallOK, Halted, Step
  PROVE  Halted' /\ ~BreakerOpen
<1>1. StepShape
  BY StepHasShape
<1>2. ~BreakerOpen
  BY <1>1 DEF StepShape, Halted
<1>3. failures' = failures
  BY <1>1 DEF StepShape, StepUnchanged
<1> QED
  BY <1>2, <1>3 DEF Halted, BreakerOpen

\* Halted is kept by every step.
LEMMA HaltedKept ==
  ASSUME TypeOK, CallOK, Halted, [Next]_vars
  PROVE  Halted'
<1>1. CASE Step
  BY <1>1, StepKeepsBreaker
<1>2. CASE Insert \/ Finish
  BY <1>2 DEF Insert, Finish, Put, EndCall, CallOK, Halted
<1>3. CASE Crash
  <2>1. failures' = 0
    BY <1>3 DEF Crash
  <2> QED
    BY <2>1, ExecutorAssumption DEF Halted, BreakerOpen
<1>4. CASE \E o \in Orders : Submit(o)
  BY <1>4 DEF Submit, Goto, storeVars, Halted, BreakerOpen
<1>5. CASE \E o \in Orders : Advance(o)
  BY <1>5 DEF Advance, Goto, callVars, storeVars, Halted, BreakerOpen
<1>6. CASE Restart
  <2>1. ~up /\ failures' = failures
    BY <1>6 DEF Restart, WithPersistence
  <2> QED
    BY <2>1 DEF Halted, BreakerOpen
<1>7. CASE \/ \E o \in Orders : DeadlinePasses(o)
           \/ StartOnce \/ StartLoop \/ EndPass \/ WindowElapses \/ UNCHANGED vars
  <2>1. UNCHANGED <<failures, up, phase>>
    BY <1>7 DEF DeadlinePasses, StartOnce, StartLoop, EndPass, WindowElapses, vars,
       storeVars, callVars
  <2> QED
    BY <2>1 DEF Halted, BreakerOpen
<1> QED
  BY <1>1, <1>2, <1>3, <1>4, <1>5, <1>6, <1>7 DEF Next

\* An open breaker lets no effect out and no known order change its status.
THEOREM BreakerAlwaysHalts == Spec => BreakerHalts
<1> DEFINE A == BreakerOpen /\ up' =>
                  /\ sent' = sent
                  /\ \A o \in Orders : memory[o].stage # NoOrder => memory'[o] = memory[o]
<1>1. Init => Halted
  BY DEF Init, StoreInit, NoCall, Halted
<1>2. TypeOK /\ CallOK /\ Halted /\ [Next]_vars => A
  <2> SUFFICES ASSUME TypeOK, CallOK, Halted, [Next]_vars, BreakerOpen, up'
               PROVE  /\ sent' = sent
                      /\ \A o \in Orders : memory[o].stage # NoOrder =>
                                             memory'[o] = memory[o]
    OBVIOUS
  <2>1. ~Step /\ ~Finish /\ ~Crash /\ ~Restart
    BY StepKeepsBreaker DEF Finish, Crash, StoreCrash, Restart, WithPersistence, Halted
  <2>2. CASE Insert
    <3>1. /\ memory' = [memory EXCEPT ![cur] = ret]
          /\ memory[cur].stage = NoOrder /\ sent' = sent
      BY <2>2 DEF Insert, Put, CallOK
    <3> QED
      BY <3>1 DEF TypeOK, StoreTypeOK
  <2>3. CASE ~Insert
    BY <2>1, <2>3 DEF Next, vars, Submit, Advance, DeadlinePasses, StartOnce,
       StartLoop, EndPass, WindowElapses, storeVars
  <2> QED
    BY <2>2, <2>3
<1>3. TypeOK /\ CallOK /\ Halted /\ [Next]_vars => Halted'
  BY HaltedKept
<1> QED
  BY <1>1, <1>2, <1>3, TypeCorrect, PTL DEF Spec, BreakerHalts

\* An open breaker keeps run_loop running, and itself open: no call is past the
\* breaker's check to count a success, and the orders that keep the loop going
\* keep their status.
THEOREM BreakerAlwaysTraps == Spec => BreakerTraps
<1> DEFINE A == Trapped /\ up' => Trapped'
<1>1. Init => Halted
  BY DEF Init, StoreInit, NoCall, Halted
<1>2. TypeOK /\ CallOK /\ Halted /\ [Next]_vars => A
  <2> SUFFICES ASSUME TypeOK, CallOK, Halted, [Next]_vars, Trapped, up'
               PROVE  Trapped'
    OBVIOUS
  <2>1. BreakerOpen /\ mode = "loop" /\ PendingIds # {} /\ up
    BY DEF Trapped, CallOK
  <2>2. ~Step /\ ~Finish /\ ~Crash /\ ~Restart
    BY <2>1, StepKeepsBreaker DEF Finish, Crash, StoreCrash, Restart, WithPersistence, Halted
  <2>3. failures' = failures
    BY <2>2 DEF Next, vars, Submit, Insert, Advance, DeadlinePasses, StartOnce, StartLoop,
       EndPass, WindowElapses
  <2>4. mode' = "loop"
    BY <2>1, <2>2 DEF Next, vars, Submit, Insert, Advance, DeadlinePasses, StartOnce,
       StartLoop, EndPass, WindowElapses
  <2>5. \A o \in PendingIds : memory'[o] = memory[o]
    <3>1. CASE Insert
      <4>1. memory' = [memory EXCEPT ![cur] = ret] /\ memory[cur].stage = NoOrder
        BY <3>1 DEF Insert, Put, CallOK
      <4>2. cur \notin PendingIds
        BY <4>1 DEF PendingIds, IsActive, Pending, SettlementSwapping, NoOrder
      <4> QED
        BY <4>1, <4>2 DEF PendingIds, TypeOK, StoreTypeOK
    <3>2. CASE ~Insert
      BY <2>2, <3>2 DEF Next, vars, Submit, Advance, DeadlinePasses, StartOnce, StartLoop,
         EndPass, WindowElapses, storeVars
    <3> QED
      BY <3>1, <3>2
  <2>6. PendingIds' # {}
    BY <2>1, <2>5 DEF PendingIds
  <2> QED
    BY <2>1, <2>3, <2>4, <2>6 DEF Trapped, BreakerOpen
<1>3. TypeOK /\ CallOK /\ Halted /\ [Next]_vars => Halted'
  BY HaltedKept
<1> QED
  BY <1>1, <1>2, <1>3, TypeCorrect, PTL DEF Spec, BreakerTraps

----
(***************************************************************************)
(* An order whose position was bought.                                     *)
(***************************************************************************)
\* FilledWaits for the orders whose deadline has not passed.
FilledKeeps ==
  [][\A o \in Orders \ expired : memory[o].stage = PolymarketFilled /\ up' =>
       memory'[o].stage \in {PolymarketFilled, AwaitingResolution}]_vars

\* A call that takes an order off PolymarketFilled leads it on, or cancels it;
\* and where no process runs there is no map.
FilledGoesOn ==
  /\ phase = "commit" /\ memory[cur].stage = PolymarketFilled =>
       ret.stage = AwaitingResolution \/ cur \in expired
  /\ ~up => memory = Empty

\* The deadline is the one thing that takes a filled order anywhere but to the
\* wait for its market: no call of that stage can fail it, and no restart puts
\* a running process's order back.
THEOREM FilledKeepsUntilDeadline == Spec => FilledKeeps
<1> DEFINE A == \A o \in Orders \ expired : memory[o].stage = PolymarketFilled /\ up' =>
                  memory'[o].stage \in {PolymarketFilled, AwaitingResolution}
<1>1. Init => FilledGoesOn
  BY DEF Init, StoreInit, NoCall, FilledGoesOn
<1>2. TypeOK /\ CallOK /\ FilledGoesOn /\ [Next]_vars => A
  <2> SUFFICES ASSUME TypeOK, CallOK, FilledGoesOn, [Next]_vars,
                      NEW o \in Orders \ expired, memory[o].stage = PolymarketFilled, up'
               PROVE  memory'[o].stage \in {PolymarketFilled, AwaitingResolution}
    OBVIOUS
  <2>1. CASE Insert \/ Finish
    <3>1. memory' = [memory EXCEPT ![cur] = ret] /\ cur \in Orders
      BY <2>1 DEF Insert, Finish, Put, TypeOK
    <3>2. CASE o = cur
      <4>1. memory'[o].stage = ret.stage
        BY <3>1, <3>2 DEF TypeOK, StoreTypeOK
      <4>2. Finish
        BY <2>1, <3>2 DEF Insert, CallOK, PolymarketFilled, NoOrder
      <4> QED
        BY <3>2, <4>1, <4>2 DEF Finish, FilledGoesOn
    <3>3. CASE o # cur
      BY <3>1, <3>3 DEF TypeOK, StoreTypeOK
    <3> QED
      BY <3>2, <3>3
  <2>2. CASE Step
    <3>1. memory' = memory
      BY <2>2, StepHasShape DEF StepShape, StepUnchanged, storeVars
    <3> QED
      BY <3>1
  <2>3. CASE Crash \/ Restart
    <3>1. ~up /\ Restart
      BY <2>3 DEF Crash, StoreCrash, Restart, WithPersistence
    <3>2. memory[o].stage = NoOrder
      BY <3>1 DEF FilledGoesOn, Empty, At
    <3> QED
      BY <3>2 DEF PolymarketFilled, NoOrder
  <2>4. CASE ~Insert /\ ~Finish /\ ~Step /\ ~Crash /\ ~Restart
    BY <2>4 DEF Next, vars, Submit, Advance, DeadlinePasses, StartOnce, StartLoop, EndPass,
       WindowElapses, storeVars
  <2> QED
    BY <2>1, <2>2, <2>3, <2>4
<1>3. TypeOK /\ CallOK /\ FilledGoesOn /\ [Next]_vars => FilledGoesOn'
  <2> SUFFICES ASSUME TypeOK, CallOK, FilledGoesOn, [Next]_vars
               PROVE  FilledGoesOn'
    OBVIOUS
  <2>1. CASE Step
    <3>1. StepShape
      BY <2>1, StepHasShape
    <3>2. memory' = memory /\ cur' = cur /\ up /\ up' = up
      BY <3>1 DEF StepShape, StepUnchanged, storeVars, Waits, Fails, Moves, Halves, Return, Goto
    <3>3. CASE memory[cur].stage = PolymarketFilled
      <4>1. StepPolymarketFilled
        BY <2>1, <3>3 DEF Step, CallOK, TransferSol, StepPending, StepSolanaSwapInProgress,
           StepSolanaSwapComplete, StepBridgePending, StepBridgeRelaying, StepBridgeComplete,
           StepPolyOrderPosted, StepAwaitingResolution, StepRedeeming, ReturnBurn,
           StepSettlementBridging, StepSettlementSwapping, Stepping, Pending,
           SolanaSwapInProgress, SolanaSwapComplete, BridgePending, BridgeRelaying,
           BridgeComplete, PolymarketOrderPosted, PolymarketFilled, AwaitingResolution,
           Redeeming, SettlementBridging, SettlementSwapping
      <4> QED
        BY <3>2, <4>1 DEF StepPolymarketFilled, Return, Goto, At, FilledGoesOn
    <3>4. CASE memory[cur].stage # PolymarketFilled
      BY <3>2, <3>4 DEF FilledGoesOn
    <3> QED
      BY <3>3, <3>4
  <2>2. CASE \E o \in Orders : Advance(o)
    BY <2>2 DEF Advance, Stops, Goto, callVars, storeVars, envVars, FilledGoesOn
  <2>3. CASE Insert \/ Finish \/ Crash \/ \E o \in Orders : Submit(o)
    BY <2>3 DEF Insert, Finish, Crash, StoreCrash, Put, EndCall, Submit, Goto, CallOK,
       storeVars, FilledGoesOn
  <2>4. CASE Restart
    BY <2>4 DEF Restart, WithPersistence, callVars, CallOK, FilledGoesOn
  <2>5. CASE \/ \E o \in Orders : DeadlinePasses(o)
             \/ StartOnce \/ StartLoop \/ EndPass \/ WindowElapses \/ UNCHANGED vars
    <3>1. UNCHANGED <<memory, up, callVars>> /\ expired \subseteq expired'
      BY <2>5 DEF DeadlinePasses, StartOnce, StartLoop, EndPass, WindowElapses, vars,
         storeVars, callVars, envVars
    <3> QED
      BY <3>1 DEF callVars, FilledGoesOn
  <2> QED
    BY <2>1, <2>2, <2>3, <2>4, <2>5 DEF Next
<1> QED
  BY <1>1, <1>2, <1>3, TypeCorrect, PTL DEF Spec, FilledKeeps

----
(***************************************************************************)
(* The snapshot.  Whatever the store does, the new contents of the file    *)
(* are the old ones or the map.                                            *)
(***************************************************************************)
\* Nothing but a commit or an insert changes the file, and nothing else
\* changes the map of a process that goes on running.
LEMMA FileIsWritten ==
  ASSUME TypeOK, CallOK, [Next]_vars
  PROVE  \/ /\ Insert \/ Finish
            /\ cur \in Orders /\ up /\ up'
            /\ memory' = [memory EXCEPT ![cur] = ret]
            /\ disk' = disk \/ disk' = memory'
         \/ /\ disk' = disk /\ acked' = acked
            /\ ~up' \/ memory' = disk \/ (up /\ memory' = memory)
<1>1. CASE Insert \/ Finish
  BY <1>1 DEF Insert, Finish, Put, FlushOk, FlushFails, TypeOK, CallOK
<1>2. CASE Step
  BY <1>2, StepHasShape DEF StepShape, StepUnchanged, storeVars
<1>3. CASE Crash \/ Restart
  BY <1>3 DEF Crash, StoreCrash, Restart, WithPersistence
<1>4. CASE \/ \E o \in Orders : Submit(o) \/ Advance(o) \/ DeadlinePasses(o)
           \/ StartOnce \/ StartLoop \/ EndPass \/ WindowElapses \/ UNCHANGED vars
  <2>1. UNCHANGED <<memory, disk, up, acked>>
    BY <1>4 DEF Submit, Advance, DeadlinePasses, StartOnce, StartLoop, EndPass,
       WindowElapses, vars, storeVars
  <2> QED
    BY <2>1
<1> QED
  BY <1>1, <1>2, <1>3, <1>4 DEF Next

\* A status about to be stored is that of an order the store then has.
LEMMA StoredHasStage ==
  ASSUME CallOK, Insert \/ Finish
  PROVE  ret.stage # NoOrder
<1>1. CASE Insert
  BY <1>1 DEF Insert, CallOK, At, Pending, NoOrder
<1>2. CASE Finish
  BY <1>2, EdgeCases DEF Finish, CallOK, IsActive, Pending, NoOrder, Failed, Cancelled,
     SettlementSwapping
<1> QED
  BY <1>1, <1>2

\* The map of a running process has every order the file has, and the file
\* every order that was acknowledged.
Kept ==
  /\ up => \A o \in Orders : disk[o].stage # NoOrder => memory[o].stage # NoOrder
  /\ Persistent => \A o \in acked \cap Orders : disk[o].stage # NoOrder

\* An order whose submission was acknowledged is found again after a restart.
THEOREM AckedAlwaysSurvive == Spec => []AckedSurvive
<1>1. Init => Kept
  BY DEF Init, StoreInit, Kept
<1>2. TypeOK /\ CallOK /\ Kept /\ [Next]_vars => Kept'
  <2> SUFFICES ASSUME TypeOK, CallOK, Kept, [Next]_vars
               PROVE  Kept'
    OBVIOUS
  <2>1. CASE /\ Insert \/ Finish
             /\ cur \in Orders /\ up /\ up'
             /\ memory' = [memory EXCEPT ![cur] = ret]
             /\ disk' = disk \/ disk' = memory'
    <3>1. \A o \in Orders : memory'[o] = IF o = cur THEN ret ELSE memory[o]
      BY <2>1 DEF TypeOK, StoreTypeOK
    <3>2. \A o \in Orders : /\ disk[o].stage # NoOrder => memory'[o].stage # NoOrder
                            /\ disk[o].stage # NoOrder => disk'[o].stage # NoOrder
      BY <2>1, <3>1, StoredHasStage DEF Kept
    <3>3. \/ acked' = acked
          \/ acked' = acked \cup {cur} /\ (Persistent => disk' = memory')
      BY <2>1 DEF Insert, Finish, FlushOk
    <3>4. Persistent => \A o \in acked' \cap Orders : disk'[o].stage # NoOrder
      BY <3>1, <3>2, <3>3, <2>1, StoredHasStage DEF Kept
    <3> QED
      BY <2>1, <3>2, <3>4 DEF Kept
  <2>2. CASE /\ disk' = disk /\ acked' = acked
             /\ ~up' \/ memory' = disk \/ (up /\ memory' = memory)
    BY <2>2 DEF Kept
  <2> QED
    BY <2>1, <2>2, FileIsWritten
<1>3. TypeOK /\ Kept => AckedSurvive
  BY DEF TypeOK, Kept, AckedSurvive
<1> QED
  BY <1>1, <1>2, <1>3, TypeCorrect, PTL DEF Spec

\* A final status on disk is the one the running process has, too, so that no
\* later write can change it and no call can be under way for its order.
FinalKept ==
  up => \A o \in Orders : IsTerminal(disk[o].stage) => memory[o] = disk[o]

\* Only an order that is active sends, or has another status stored.
LEMMA FinalIsLeftAlone ==
  ASSUME TypeOK, CallOK, FinalKept, [Next]_vars,
         NEW o \in Orders, IsTerminal(disk[o].stage)
  PROVE  /\ disk'[o] = disk[o] /\ sent'[o] = sent[o]
         /\ up' => memory'[o] = disk[o]
<1>1. CASE Step
  <2>1. StepShape
    BY <1>1, StepHasShape
  <2>2. o # cur
    BY <2>1 DEF StepShape, FinalKept, IsTerminal, IsActive, Pending, SettlementSwapping,
       Complete, Failed, Cancelled
  <2>3. sent'[o] = sent[o]
    BY <2>1, <2>2 DEF StepShape, Waits, Fails, Moves, Halves, Makes, Broadcast, TypeOK
  <2> QED
    BY <2>1, <2>3 DEF StepShape, StepUnchanged, storeVars, FinalKept
<1>2. CASE Insert \/ Finish
  <2>1. /\ cur \in Orders /\ up /\ sent' = sent
        /\ memory' = [memory EXCEPT ![cur] = ret]
        /\ disk' = disk \/ disk' = memory'
    BY <1>2 DEF Insert, Finish, Put, FlushOk, FlushFails, TypeOK, CallOK
  <2>2. memory[cur].stage = NoOrder \/ IsActive(memory[cur].stage)
    BY <1>2 DEF Insert, Finish, CallOK
  <2>3. o # cur
    BY <2>1, <2>2 DEF FinalKept, IsTerminal, IsActive, Pending, SettlementSwapping,
       Complete, Failed, Cancelled, NoOrder
  <2> QED
    BY <2>1, <2>3 DEF FinalKept, TypeOK, StoreTypeOK
<1>3. CASE ~Step /\ ~Insert /\ ~Finish
  <2>1. sent' = sent
    BY <1>3 DEF Next, vars, Submit, Advance, DeadlinePasses, StartOnce, StartLoop,
       EndPass, Crash, Restart, WindowElapses
  <2> QED
    BY <1>3, <2>1, FileIsWritten DEF FinalKept
<1> QED
  BY <1>1, <1>2, <1>3

\* FinalKept is kept: what newly becomes final on disk was written from memory.
LEMMA FinalKeptStays ==
  ASSUME TypeOK, CallOK, FinalKept, [Next]_vars
  PROVE  FinalKept'
<1> SUFFICES ASSUME up', NEW o \in Orders, IsTerminal(disk'[o].stage)
             PROVE  memory'[o] = disk'[o]
  BY DEF FinalKept
<1>1. CASE IsTerminal(disk[o].stage)
  BY <1>1, FinalIsLeftAlone
<1>2. CASE ~IsTerminal(disk[o].stage)
  BY <1>2, FileIsWritten
<1> QED
  BY <1>1, <1>2

\* A final status on disk is final for good.
THEOREM FinalStaysFinal == Spec => FinalIsFinal
<1> DEFINE A == \A o \in Orders : IsTerminal(disk[o].stage) =>
                  disk'[o] = disk[o] /\ sent'[o] = sent[o]
<1>1. Init => FinalKept
  BY DEF Init, StoreInit, FinalKept
<1>2. TypeOK /\ CallOK /\ FinalKept /\ [Next]_vars => FinalKept'
  BY FinalKeptStays
<1>3. TypeOK /\ CallOK /\ FinalKept /\ [Next]_vars => A
  BY FinalIsLeftAlone
<1> QED
  BY <1>1, <1>2, <1>3, TypeCorrect, PTL DEF Spec, FinalIsFinal

----
(***************************************************************************)
(* What was sent, seen from a status.  Where writes succeed the file is    *)
(* the map, and no order has sent an effect of a stage after the one its   *)
(* status has reached; Cancelled stands for the last stage it can replace. *)
(***************************************************************************)
Reached(st) == CASE st.stage = Failed    -> st.failedAt
                 [] st.stage = Cancelled -> PolymarketFilled
                 [] OTHER                -> st.stage

NotAhead(o, st) == \A e \in Effects : SentIn(e) > Reached(st) => sent[o][e] = 0

NoneAhead ==
  /\ memory = IF up THEN disk ELSE Empty
  /\ \A o \in Orders : NotAhead(o, disk[o])
  /\ phase = "commit" => NotAhead(cur, ret)

\* Stages as numbers.
LEMMA StageNumbers ==
  ASSUME TypeOK, NEW o \in Orders
  PROVE  /\ memory[o].stage \in 0 .. 15 /\ memory[o].failedAt \in 0 .. 15
         /\ disk[o].stage \in 0 .. 15 /\ disk[o].failedAt \in 0 .. 15
BY DEF TypeOK, StoreTypeOK, StatusSet, Stages, NoOrder, Cancelled

\* A step sends what belongs to the stage its order is in, and stores that
\* stage, a failure in it, or the next one.
LEMMA StepNotAhead ==
  ASSUME TypeOK, CallOK, NoneAhead, StepShape
  PROVE  NoneAhead'
<1>1. /\ memory' = memory /\ disk' = disk /\ up' = up /\ memory = disk
      /\ cur \in Orders /\ cur' = cur
      /\ memory[cur].stage \in 1 .. 12
  <2>1. Waits \/ Fails \/ Moves \/ Halves
    BY DEF StepShape
  <2>2. cur' = cur
    BY <2>1 DEF Waits, Fails, Moves, Halves, Return, Goto
  <2> QED
    BY <2>2 DEF StepShape, StepUnchanged, storeVars, NoneAhead, IsActive, Pending,
       SettlementSwapping
<1>2. Reached(memory[cur]) = memory[cur].stage
  BY <1>1 DEF Reached, Failed, Cancelled
<1>3. \A o \in Orders, e \in Effects :
        sent'[o][e] # sent[o][e] => o = cur /\ SentIn(e) = memory[cur].stage
  <2>1. sent' = sent \/ \E d \in Effects : Makes(d)
    BY CallPairs DEF StepShape, Waits, Fails, Moves, Halves, Needed
  <2> QED
    BY <2>1 DEF Makes, Broadcast, TypeOK
<1>4. \A e \in Effects : SentIn(e) > memory[cur].stage => sent'[cur][e] = 0
  <2>1. \A e \in Effects : SentIn(e) \in 1 .. 12
    BY SentInActive DEF Pending, SettlementSwapping
  <2> QED
    BY <1>1, <1>2, <1>3, <2>1 DEF NoneAhead, NotAhead
<1>5. \A o \in Orders : NotAhead(o, disk[o])'
  BY <1>1, <1>2, <1>3, <1>4 DEF NoneAhead, NotAhead, Reached
<1>6. phase' = "commit" => Reached(ret)' \in {memory[cur].stage, memory[cur].stage + 1}
  <2>1. CASE Waits
    BY <1>2, <2>1 DEF Waits, Return, Goto, Reached
  <2>2. CASE Fails
    <3>1. ret'.stage = Failed /\ ret'.failedAt = memory[cur].stage
      BY <2>2 DEF Fails, Return, Goto, FailedIn
    <3> QED
      BY <3>1 DEF Reached, Failed, Cancelled
  <2>3. CASE Moves
    BY <1>1, <2>3 DEF Moves, Reached, Failed, Cancelled
  <2>4. CASE Halves
    BY <2>4, CallPairs DEF Halves, Goto
  <2> QED
    BY <2>1, <2>2, <2>3, <2>4 DEF StepShape
<1>7. phase' = "commit" => NotAhead(cur, ret)'
  <2>1. \A e \in Effects : SentIn(e) \in 1 .. 12
    BY SentInActive DEF Pending, SettlementSwapping
  <2> QED
    BY <1>1, <1>4, <1>6, <2>1 DEF NotAhead
<1> QED
  BY <1>1, <1>5, <1>7 DEF NoneAhead

\* Writing what is about to be stored to the map and to the file.
LEMMA PutNotAhead ==
  ASSUME TypeOK, NoneAhead, Persistent, ~IoErrors, up, cur \in Orders, sent' = sent,
         Put(cur, ret), FlushOk \/ FlushFails, NotAhead(cur, ret), phase' = "idle"
  PROVE  NoneAhead'
<1>1. disk' = memory' /\ memory' = [memory EXCEPT ![cur] = ret] /\ up'
  BY DEF Put, FlushOk, FlushFails
<1>2. \A o \in Orders : disk'[o] = IF o = cur THEN ret ELSE disk[o]
  BY <1>1 DEF NoneAhead, TypeOK, StoreTypeOK
<1>3. \A o \in Orders : NotAhead(o, disk[o])'
  BY <1>2 DEF NoneAhead, NotAhead, Reached
<1> QED
  BY <1>1, <1>3 DEF NoneAhead

\* NoneAhead holds wherever a file is kept whose writes succeed.
LEMMA NeverAhead ==
  ASSUME Persistent, ~IoErrors
  PROVE  Spec => []NoneAhead
<1>1. Init => NoneAhead
  <2> SUFFICES ASSUME Init PROVE NoneAhead
    OBVIOUS
  <2>1. \A o \in Orders, e \in Effects : sent[o][e] = 0
    BY DEF Init
  <2>2. memory = disk /\ up /\ phase = "idle"
    BY DEF Init, StoreInit, NoCall
  <2>3. memory = IF up THEN disk ELSE Empty
    BY <2>2
  <2>4. \A o \in Orders : NotAhead(o, disk[o])
    BY <2>1 DEF NotAhead
  <2> QED
    BY <2>2, <2>3, <2>4 DEF NoneAhead
<1>2. TypeOK /\ CallOK /\ NoneAhead /\ [Next]_vars => NoneAhead'
  <2> SUFFICES ASSUME TypeOK, CallOK, NoneAhead, [Next]_vars
               PROVE  NoneAhead'
    OBVIOUS
  <2>1. CASE Step
    BY <2>1, StepHasShape, StepNotAhead
  <2>2. CASE Insert
    <3>1. cur \in Orders /\ disk[cur].stage = NoOrder /\ ret = At(Pending) /\ up
      BY <2>2 DEF Insert, CallOK, NoneAhead, TypeOK
    <3>2. Reached(disk[cur]) = 0
      BY <3>1 DEF Reached, NoOrder, Failed, Cancelled
    <3>3. \A e \in Effects : SentIn(e) > 0
      BY SentInActive DEF Pending, SettlementSwapping
    <3>4. NotAhead(cur, ret)
      BY <3>1, <3>2, <3>3 DEF NoneAhead, NotAhead
    <3> QED
      BY <2>2, <3>1, <3>4, PutNotAhead DEF Insert, EndCall
  <2>3. CASE Finish
    <3>1. cur \in Orders /\ up /\ NotAhead(cur, ret)
      BY <2>3 DEF Finish, CallOK, NoneAhead, TypeOK
    <3> QED
      BY <2>3, <3>1, PutNotAhead DEF Finish, EndCall
  <2>4. CASE \E o \in Orders : Advance(o)
    <3> PICK o \in Orders : Advance(o)
      BY <2>4
    <3>1. UNCHANGED <<memory, disk, up, sent>> /\ up /\ phase = "idle"
      BY DEF Advance, storeVars
    <3>2. CASE ~Stops(o) \/ UNCHANGED callVars
      <4>1. phase' # "commit"
        BY <3>1, <3>2 DEF Advance, Goto, callVars
      <4> QED
        BY <3>1, <4>1 DEF NoneAhead, NotAhead
    <3>3. CASE Stops(o) /\ Goto("commit", o, At(Cancelled))
      <4>1. memory[o].stage \in 0 .. 8 /\ Reached(memory[o]) = memory[o].stage
        BY <3>3, StageNumbers DEF Advance, Stops, ExpiryExempt, IsActive, Reached,
           Pending, AwaitingResolution, Redeeming, SettlementBridging,
           SettlementSwapping, Failed, Cancelled
      <4>2. Reached(At(Cancelled)) = 8
        BY DEF Reached, At, Failed, Cancelled, PolymarketFilled
      <4>3. \A e \in Effects : SentIn(e) \in 1 .. 12
        BY SentInActive DEF Pending, SettlementSwapping
      <4>4. NotAhead(o, At(Cancelled))
        BY <3>1, <4>1, <4>2, <4>3 DEF NoneAhead, NotAhead
      <4> QED
        BY <3>1, <3>3, <4>4 DEF Goto, NoneAhead, NotAhead
    <3> QED
      BY <3>2, <3>3 DEF Advance
  <2>5. CASE Crash
    BY <2>5 DEF Crash, StoreCrash, EndCall, NoneAhead, NotAhead
  <2>6. CASE Restart
    BY <2>6 DEF Restart, WithPersistence, callVars, CallOK, NoneAhead, NotAhead
  <2>7. CASE \E o \in Orders : Submit(o)
    BY <2>7 DEF Submit, Goto, storeVars, NoneAhead, NotAhead
  <2>8. CASE \/ \E o \in Orders : DeadlinePasses(o)
             \/ StartOnce \/ StartLoop \/ EndPass \/ WindowElapses \/ UNCHANGED vars
    <3>1. UNCHANGED <<memory, disk, up, callVars, sent>>
      BY <2>8 DEF DeadlinePasses, StartOnce, StartLoop, EndPass, WindowElapses, vars,
         storeVars, callVars
    <3> QED
      BY <3>1 DEF callVars, NoneAhead, NotAhead
  <2> QED
    BY <2>1, <2>2, <2>3, <2>4, <2>5, <2>6, <2>7, <2>8 DEF Next
<1> QED
  BY <1>1, <1>2, TypeCorrect, PTL DEF Spec

\* The deadline never cancels an order whose position was redeemed, as long as
\* the file keeps up with the map.
THEOREM CancelAlwaysSpares ==
  ASSUME Persistent, ~IoErrors
  PROVE  Spec => []CancelSparesRedeemed
<1>1. TypeOK /\ NoneAhead => CancelSparesRedeemed
  <2> SUFFICES ASSUME TypeOK, NoneAhead, NEW o \in Orders,
                      Cancelled \in {memory[o].stage, disk[o].stage}
               PROVE  sent[o]["redeem"] = 0
    BY DEF CancelSparesRedeemed
  <2>1. disk[o].stage = Cancelled
    BY DEF NoneAhead, Empty, At, NoOrder, Cancelled
  <2>2. Reached(disk[o]) = PolymarketFilled
    BY <2>1 DEF Reached, Failed, Cancelled
  <2> QED
    BY <2>2 DEF NoneAhead, NotAhead, Effects, SentIn, PolymarketFilled,
       AwaitingResolution
<1> QED
  BY <1>1, TypeCorrect, NeverAhead, PTL

\* Without a file nothing is ever on disk.
LEMMA NoFile ==
  ASSUME ~Persistent
  PROVE  Spec => [](disk = Empty)
<1>1. Init => disk = Empty
  BY DEF Init, StoreInit
<1>2. TypeOK /\ CallOK /\ disk = Empty /\ [Next]_vars => (disk = Empty)'
  <2> SUFFICES ASSUME TypeOK, CallOK, [Next]_vars
               PROVE  disk' = disk
    BY DEF Empty
  <2>1. CASE Insert \/ Finish
    BY <2>1 DEF Insert, Finish, FlushOk, FlushFails
  <2>2. CASE ~Insert /\ ~Finish
    BY <2>2, FileIsWritten
  <2> QED
    BY <2>1, <2>2
<1> QED
  BY <1>1, <1>2, TypeCorrect, PTL DEF Spec

\* What Backed and NotAhead say of a failed status together.
LEMMA BetweenIsExact ==
  ASSUME AllBacked, NoneAhead
  PROVE  FailureStageExact
BY DEF AllBacked, Backed, Position, NoneAhead, NotAhead, Reached, FailureStageExact,
   Failed, Cancelled

\* The stage a Failed order names is where its money stopped, as long as
\* writes of the snapshot succeed.
THEOREM FailureStageIsExact ==
  ASSUME ~IoErrors
  PROVE  Spec => []FailureStageExact
<1>1. CASE Persistent
  <2>1. AllBacked /\ NoneAhead => FailureStageExact
    BY BetweenIsExact
  <2> QED
    BY <1>1, <2>1, AlwaysBacked, NeverAhead, PTL
<1>2. CASE ~Persistent
  <2>1. disk = Empty => FailureStageExact
    BY DEF Empty, At, FailureStageExact, NoOrder, Failed
  <2> QED
    BY <1>2, <2>1, NoFile, PTL
<1> QED
  BY <1>1, <1>2

====
