---- MODULE CustodyProofs ----
(***************************************************************************)
(* Custody implements Executor: whatever the chains, the exchange and the  *)
(* market do, the router takes only steps Executor describes.  So what is  *)
(* proved of Executor holds of the composed system as well.  Then the      *)
(* money of any number of orders: types, and what the executor's wallet    *)
(* gives up of its own.                                                    *)
(***************************************************************************)
EXTENDS Custody, ExecutorProofs, SequenceTheorems, FiniteSetTheorems, TLAPS

\* The router's own part of every step of the composed system is a step of
\* Executor, or none: no balance, fill or resolution makes it do anything else.
LEMMA StepIsExecutors == [CustodyNext]_<<vars, money>> => [Next]_vars
<1> SUFFICES ASSUME [CustodyNext]_<<vars, money>> PROVE [Next]_vars
  OBVIOUS
<1>1. CASE CustodyInsert
  BY <1>1 DEF CustodyInsert, Next
<1>2. CASE Idle
  <2>1. CASE \E o \in Orders : Submit(o) \/ Advance(o) \/ DeadlinePasses(o)
    BY <2>1 DEF Next
  <2>2. CASE Finish
    BY <2>2 DEF Next
  <2> QED
    BY <1>2, <2>1, <2>2 DEF Idle
<1>3. CASE CustodyStep
  <2>1. CASE SendBurn
    BY <2>1 DEF SendBurn
  <2>2. CASE SwapDeposit \/ SeeSwap \/ BurnOnSolana \/ RelayToPolygon \/ SeeMint
             \/ PostOrder \/ AwaitFill \/ HoldPosition \/ RedeemPosition
    <3>1. Step
      BY <2>2 DEF SwapDeposit, SeeSwap, BurnOnSolana, RelayToPolygon, SeeMint,
                  PostOrder, AwaitFill, HoldPosition, RedeemPosition, Step
    <3> QED
      BY <3>1 DEF Next
  <2>3. CASE ApproveBalance \/ BurnFails \/ AwaitBurn \/ RelayToSolana \/ SwapBack \/ PayUser
    <3>1. Step
      BY <2>3 DEF ApproveBalance, BurnFails, AwaitBurn, RelayToSolana, SwapBack, PayUser, Step
    <3> QED
      BY <3>1 DEF Next
  <2> QED
    BY <1>3, <2>1, <2>2, <2>3 DEF CustodyStep
<1>4. CASE Mine \/ (\E o \in Orders : Fill(o)) \/ Resolve
  BY <1>4 DEF Mine, Fill, Resolve
<1>5. CASE UNCHANGED <<vars, money>>
  BY <1>5
<1> QED
  BY <1>1, <1>2, <1>3, <1>4, <1>5 DEF CustodyNext

\* Custody refines Executor with the identity on its variables.
THEOREM ImplementsExecutor == CustodySpec => Spec
<1>1. CustodyInit => Init
  BY DEF CustodyInit
<1> QED
  BY <1>1, StepIsExecutors, PTL DEF CustodySpec, Spec

----
Tx == [kind : Kinds, order : Orders, size : Nat]

\* The types of everything that is not Executor's.
MoneyTypes ==
  /\ usdc \in Nat /\ usdce \in Nat /\ sol \in Nat /\ shares \in Nat
  /\ allowance \in Nat /\ want \in Nat /\ quote \in Nat
  /\ outbound \in [Orders -> Nat] /\ inbound \in [Orders -> Nat]
  /\ amount \in [Orders -> Nat] /\ brought \in [Orders -> Nat] /\ paid \in [Orders -> Nat]
  /\ pending \in Seq(Tx)
  /\ book \in [Orders -> [state : {"none", "live", "filled", "cancelled"},
                         size : Nat, filled : Nat]]
  /\ market \in {"open", "won", "lost"} /\ burning \in BOOLEAN
  /\ minted \subseteq Orders /\ cashed \subseteq Orders /\ alone \in Orders \cup {NoId}

\* What step_redeeming and step_settlement_swapping hold between two calls.
Between ==
  /\ burning => phase = "burn"
  /\ want > 0 <=> phase = "burn"
  /\ quote > 0 => phase = "payout"

\* CustodyTypeOK in its three parts.
LEMMA CustodyTypeOKParts == CustodyTypeOK <=> TypeOK /\ MoneyTypes /\ Between
BY DEF CustodyTypeOK, MoneyTypes, Between, Tx

\* So has an order of the exchange that is cancelled.
LEMMA CancelTypes ==
  ASSUME NEW o \in Orders,
         NEW b \in [Orders -> [state : {"none", "live", "filled", "cancelled"},
                                size : Nat, filled : Nat]]
  PROVE  [b EXCEPT ![o].state = "cancelled"]
           \in [Orders -> [state : {"none", "live", "filled", "cancelled"},
                           size : Nat, filled : Nat]]
<1> DEFINE Entry == [state : {"none", "live", "filled", "cancelled"}, size : Nat, filled : Nat]
           e == [b[o] EXCEPT !.state = "cancelled"]
<1>1. b[o] \in Entry
  OBVIOUS
<1>2. e \in Entry
  BY <1>1
<1>3. [b EXCEPT ![o].state = "cancelled"] = [b EXCEPT ![o] = e]
  OBVIOUS
<1> HIDE DEF e, Entry
<1>4. b \in [Orders -> Entry]
  BY DEF Entry
<1>5. [b EXCEPT ![o] = e] \in [Orders -> Entry]
  BY <1>2, <1>4
<1> QED
  BY <1>3, <1>5 DEF Entry

\* A transaction that is sent has the type of a pending one.
LEMMA SendTypes ==
  ASSUME MoneyTypes, cur \in Orders, NEW k \in Kinds, NEW n \in Nat, Send(k, n)
  PROVE  pending' \in Seq(Tx) /\ pending' = Append(pending, [kind |-> k, order |-> cur, size |-> n])
BY AppendProperties DEF Send, MoneyTypes, Tx

\* The head of pending is a transaction, and the rest are.
LEMMA HeadTypes ==
  ASSUME MoneyTypes, pending # <<>>
  PROVE  /\ Head(pending) \in Tx /\ Tail(pending) \in Seq(Tx)
         /\ Head(pending).kind \in Kinds /\ Head(pending).order \in Orders
         /\ Head(pending).size \in Nat
<1>1. pending \in Seq(Tx)
  BY DEF MoneyTypes
<1>2. Head(pending) \in Tx /\ Tail(pending) \in Seq(Tx)
  BY <1>1, HeadTailProperties
<1> QED
  BY <1>2 DEF Tx

\* A step of the router that is a step of Executor: the call stays with its
\* order, and the stored status is as it was.
LEMMA StepFrame ==
  ASSUME TypeOK, CallOK, Step
  PROVE  /\ cur \in Orders /\ cur' = cur /\ memory' = memory /\ up' = up /\ up
         /\ memory[cur] \in StatusSet(Nat) /\ memory[cur].usdc \in Nat
         /\ memory[cur].stage \in 1 .. 12
         /\ phase \in {"step", "burn", "payout"} /\ phase' \in {"burn", "payout", "commit"}
         /\ phase' = "burn" => phase = "step" /\ memory[cur].stage = Redeeming
         /\ phase = "burn" => memory[cur].stage = Redeeming
         /\ sent \in [Orders -> [Effects -> Nat]]
<1>1. StepShape
  BY StepHasShape
<1>2. Waits \/ Fails \/ Moves \/ Halves
  BY <1>1 DEF StepShape
<1>3. cur' = cur /\ phase' \in {"burn", "payout", "commit"}
  BY <1>2, CallPairs DEF Waits, Fails, Moves, Halves, Return, Goto
<1>4. phase' = "burn" => phase = "step" /\ memory[cur].stage = Redeeming
  <2> SUFFICES ASSUME phase' = "burn" PROVE phase = "step" /\ memory[cur].stage = Redeeming
    OBVIOUS
  <2>1. Halves
    BY <1>2 DEF Waits, Fails, Moves, Return, Goto
  <2> PICK e \in SecondCalls : Goto(SecondPhase(e), cur, ret) /\ Makes(FirstCall(e))
    BY <2>1 DEF Halves
  <2>2. SecondPhase(e) = "burn" /\ phase = "step"
    BY <2>1 DEF Goto, Halves
  <2>3. SecondStage(e) = Redeeming
    BY <2>2 DEF SecondPhase, SecondStage
  <2> QED
    BY <2>2, <2>3, CallPairs DEF Makes
<1>5. phase = "burn" => memory[cur].stage = Redeeming
  BY DEF CallOK
<1> QED
  BY <1>1, <1>3, <1>4, <1>5 DEF StepShape, StepUnchanged, storeVars, TypeOK, StoreTypeOK, StatusSet,
     IsActive, Pending, SettlementSwapping

\* The actions of Custody that are a step of Executor.
RouterStepOfCustody ==
  \/ SwapDeposit \/ SeeSwap \/ BurnOnSolana \/ RelayToPolygon \/ SeeMint \/ PostOrder
  \/ AwaitFill \/ HoldPosition \/ RedeemPosition \/ ApproveBalance \/ BurnFails \/ AwaitBurn
  \/ RelayToSolana \/ SwapBack \/ PayUser

\* Each of them is one whatever the money does.
LEMMA CustodyStepIsStep == RouterStepOfCustody => Step
BY DEF RouterStepOfCustody, SwapDeposit, SeeSwap, BurnOnSolana, RelayToPolygon, SeeMint,
   PostOrder, AwaitFill, HoldPosition, RedeemPosition, ApproveBalance, BurnFails, AwaitBurn,
   RelayToSolana, SwapBack, PayUser, Step

----
(***************************************************************************)
(* Types.                                                                  *)
(***************************************************************************)
\* The stages, and the facts on them the proofs below need, as numbers.
LEMMA StagesDiffer ==
  /\ Pending = 1 /\ SolanaSwapInProgress = 2 /\ SolanaSwapComplete = 3
  /\ BridgePending = 4 /\ BridgeRelaying = 5 /\ BridgeComplete = 6
  /\ PolymarketOrderPosted = 7 /\ PolymarketFilled = 8 /\ AwaitingResolution = 9
  /\ Redeeming = 10 /\ SettlementBridging = 11 /\ SettlementSwapping = 12
  /\ Complete = 13 /\ Failed = 14 /\ Cancelled = 15 /\ NoOrder = 0
BY DEF Pending, SolanaSwapInProgress, SolanaSwapComplete, BridgePending, BridgeRelaying,
   BridgeComplete, PolymarketOrderPosted, PolymarketFilled, AwaitingResolution, Redeeming,
   SettlementBridging, SettlementSwapping, Complete, Failed, Cancelled, NoOrder

\* A step of the router on the money of its order keeps the types.
LEMMA StepKeepsMoney ==
  ASSUME TypeOK, CallOK, MoneyTypes, Between, RouterStepOfCustody
  PROVE  MoneyTypes' /\ Between'
<1> USE StagesDiffer
<1>0. Step
  BY CustodyStepIsStep
<1>1. /\ cur \in Orders /\ cur' = cur /\ memory' = memory
      /\ memory[cur].usdc \in Nat /\ memory[cur].stage \in 1 .. 12
      /\ phase \in {"step", "burn", "payout"} /\ phase' \in {"burn", "payout", "commit"}
      /\ phase' = "burn" => phase = "step" /\ memory[cur].stage = 10
  BY <1>0, StepFrame
<1>2. /\ outbound[cur] \in Nat /\ inbound[cur] \in Nat /\ amount[cur] \in Nat
      /\ paid[cur] \in Nat
  BY <1>1 DEF MoneyTypes
<1>3. (want = 0 /\ burning = FALSE) \/ phase = "burn"
  BY DEF Between, MoneyTypes
<1>4. quote = 0 \/ phase = "payout"
  BY DEF Between, MoneyTypes
<1>5. {"mint", "redeem", "approve", "burn"} \subseteq Kinds
  BY DEF Kinds
<1>6. CASE SwapDeposit
  <2>0. usdc' \in Nat /\ brought' \in [Orders -> Nat]
    <3>1. CASE \E n \in Swaps : usdc' = usdc + n /\ brought' = [brought EXCEPT ![cur] = n]
      <4> PICK n \in Swaps : usdc' = usdc + n /\ brought' = [brought EXCEPT ![cur] = n]
        BY <3>1
      <4>1. n \in Nat /\ usdc \in Nat /\ brought \in [Orders -> Nat]
        BY CustodyAssumption DEF MoneyTypes
      <4>2. usdc' \in Nat
        BY <4>1
      <4>3. brought' \in [Orders -> Nat]
        BY <4>1
      <4> QED
        BY <4>2, <4>3
    <3>2. CASE UNCHANGED <<usdc, brought>>
      BY <3>2 DEF MoneyTypes
    <3> QED
      BY <1>6, <3>1, <3>2 DEF SwapDeposit
  <2>1. MoneyTypes'
    BY <1>6, <2>0 DEF SwapDeposit, MoneyTypes, local
  <2> QED
    BY <1>6, <1>1, <1>3, <1>4, <2>1 DEF SwapDeposit, StepPending, Stepping, local, Between
<1>7. CASE SeeSwap
  <2>1. MoneyTypes'
    BY <1>7, <1>1, CustodyAssumption DEF SeeSwap, MoneyTypes, chain, history
  <2> QED
    BY <1>7, <1>1, <1>3, <1>4, <2>1 DEF SeeSwap, StepSolanaSwapInProgress, Stepping, Between
<1>8. CASE BurnOnSolana
  <2>0. usdc' \in Nat /\ outbound' \in [Orders -> Nat]
    <3>1. usdc \in Nat /\ outbound \in [Orders -> Nat] /\ amount[cur] \in Nat
      BY <1>2 DEF MoneyTypes
    <3>2. usdc' \in Nat
      BY <1>8, <3>1 DEF BurnOnSolana
    <3>3. outbound' = outbound \/ outbound' = [outbound EXCEPT ![cur] = amount[cur]]
      BY <1>8 DEF BurnOnSolana
    <3>4. outbound' \in [Orders -> Nat]
      BY <3>1, <3>3
    <3> QED
      BY <3>2, <3>4
  <2>1. MoneyTypes'
    BY <1>8, <2>0 DEF BurnOnSolana, MoneyTypes, local, history
  <2> QED
    BY <1>8, <1>1, <1>3, <1>4, <2>1 DEF BurnOnSolana, StepSolanaSwapComplete, Stepping, local,
       Between
<1>9. CASE RelayToPolygon
  <2>1. pending' \in Seq(Tx)
    BY <1>9, <1>1, <1>2, <1>5, SendTypes DEF RelayToPolygon, MoneyTypes
  <2>2. MoneyTypes'
    BY <1>9, <2>1 DEF RelayToPolygon, MoneyTypes, local, history
  <2> QED
    BY <1>9, <1>1, <1>3, <1>4, <2>2 DEF RelayToPolygon, StepBridgePending, Stepping, local,
       Between
<1>10. CASE SeeMint \/ HoldPosition
  <2>1. MoneyTypes'
    BY <1>10 DEF SeeMint, HoldPosition, MoneyTypes, money, chain, local, history
  <2> QED
    BY <1>10, <1>1, <1>3, <1>4, <2>1 DEF SeeMint, HoldPosition, StepBridgeRelaying,
       StepPolymarketFilled, Stepping, money, local, Between
<1>11. CASE PostOrder
  <2>1. book' \in [Orders -> [state : {"none", "live", "filled", "cancelled"},
                            size : Nat, filled : Nat]]
    <3>1. [state |-> "live", size |-> memory[cur].usdc, filled |-> 0]
            \in [state : {"none", "live", "filled", "cancelled"}, size : Nat, filled : Nat]
      BY <1>1
    <3> QED
      BY <1>11, <1>1, <3>1 DEF PostOrder, MoneyTypes
  <2>2. MoneyTypes'
    BY <1>11, <2>1 DEF PostOrder, MoneyTypes, local, history
  <2> QED
    BY <1>11, <1>1, <1>3, <1>4, <2>2 DEF PostOrder, StepBridgeComplete, Stepping, local, Between
<1>12. CASE AwaitFill
  <2>1. book' \in [Orders -> [state : {"none", "live", "filled", "cancelled"},
                            size : Nat, filled : Nat]]
    <3>1. book' = book \/ book' = [book EXCEPT ![cur].state = "cancelled"]
      BY <1>12 DEF AwaitFill
    <3>2. cur \in Orders /\ book \in [Orders -> [state : {"none", "live", "filled", "cancelled"},
                                               size : Nat, filled : Nat]]
      BY <1>1 DEF MoneyTypes
    <3>3. CASE book' = book
      BY <3>2, <3>3
    <3>4. CASE book' = [book EXCEPT ![cur].state = "cancelled"]
      <4> DEFINE new == [book EXCEPT ![cur].state = "cancelled"]
      <4>1. new \in [Orders -> [state : {"none", "live", "filled", "cancelled"},
                               size : Nat, filled : Nat]]
        BY ONLY <3>2, CancelTypes
      <4>2. book' = new
        BY <3>4
      <4> HIDE DEF new
      <4> QED
        BY ONLY <4>1, <4>2
    <3> QED
      BY <3>1, <3>3, <3>4
  <2>2. MoneyTypes'
    BY <1>12, <2>1 DEF AwaitFill, MoneyTypes, local, history
  <2> QED
    BY <1>12, <1>1, <1>3, <1>4, <2>2 DEF AwaitFill, StepPolyOrderPosted, Stepping, local, Between
<1>13. CASE RedeemPosition
  <2>1. pending' \in Seq(Tx)
    BY <1>13, <1>1, <1>5, SendTypes DEF RedeemPosition, MoneyTypes
  <2>2. MoneyTypes'
    BY <1>13, <2>1 DEF RedeemPosition, MoneyTypes, local, history
  <2> QED
    BY <1>13, <1>1, <1>3, <1>4, <2>2 DEF RedeemPosition, StepAwaitingResolution, Stepping, local,
       Between
<1>14. CASE ApproveBalance
  <2>1. pending' \in Seq(Tx)
    BY <1>14, <1>1, <1>5, SendTypes DEF ApproveBalance, MoneyTypes
  <2>2. MoneyTypes'
    BY <1>14, <2>1 DEF ApproveBalance, MoneyTypes, history
  <2>3. phase = "step" /\ burning' = FALSE /\ quote' = 0
    BY <1>3, <1>4, <1>14, <2>2 DEF ApproveBalance, StepRedeeming, Stepping, MoneyTypes
  <2>4. phase' = "burn" => usdce > 0
    <3>1. phase' = "burn" => Broadcast("approve")
      BY <1>14 DEF ApproveBalance, StepRedeeming, CallOut, Stay, Fail, Return, Goto
    <3>2. Broadcast("approve") => Made("approve")
      BY <1>1 DEF Broadcast, Made, TypeOK, Effects
    <3> QED
      BY <1>14, <3>1, <3>2 DEF ApproveBalance
  <2>5. want' > 0 <=> phase' = "burn"
    BY <1>14, <2>4 DEF ApproveBalance
  <2> QED
    BY <2>2, <2>3, <2>5 DEF Between
<1>15. CASE BurnFails
  <2>1. pending' \in Seq(Tx)
    BY <1>15, <1>1, <1>5, SendTypes DEF BurnFails, MoneyTypes
  <2>2. MoneyTypes'
    BY <1>15, <2>1 DEF BurnFails, MoneyTypes, history
  <2>3. want' = 0 /\ burning' = FALSE /\ quote' = quote /\ phase = "burn"
    BY <1>15, <2>2 DEF BurnFails, ReturnBurn, MoneyTypes
  <2> QED
    BY <1>1, <1>4, <2>2, <2>3 DEF Between
<1>16. CASE AwaitBurn
  <2>1. MoneyTypes'
    BY <1>16 DEF AwaitBurn, MoneyTypes, chain, history
  <2>2. want' = 0 /\ burning' = FALSE /\ quote' = quote /\ phase = "burn"
    BY <1>16 DEF AwaitBurn, ReturnBurn
  <2> QED
    BY <1>1, <1>4, <2>1, <2>2 DEF Between
<1>17. CASE RelayToSolana
  <2>0. usdc' \in Nat /\ inbound' \in [Orders -> Nat]
    <3>1. usdc \in Nat /\ inbound \in [Orders -> Nat] /\ inbound[cur] \in Nat
      BY <1>2 DEF MoneyTypes
    <3>2. usdc' \in Nat
      BY <1>17, <3>1 DEF RelayToSolana
    <3>3. inbound' = inbound \/ inbound' = [inbound EXCEPT ![cur] = 0]
      BY <1>17 DEF RelayToSolana
    <3>4. inbound' \in [Orders -> Nat]
      BY <3>1, <3>3
    <3> QED
      BY <3>2, <3>4
  <2>1. MoneyTypes'
    BY <1>17, <2>0 DEF RelayToSolana, MoneyTypes, local, history
  <2> QED
    BY <1>17, <1>1, <1>3, <1>4, <2>1 DEF RelayToSolana, StepSettlementBridging, Stepping, local,
       Between
<1>18. CASE SwapBack
  <2>1. quote' > 0 => phase' = "payout"
    BY <1>18 DEF SwapBack, StepSettlementSwapping, CallOut, Fail, Return, Goto, Chose, FailedIn
  <2>2. MoneyTypes'
    <3>1. usdc \in Nat /\ sol \in Nat
      BY DEF MoneyTypes
    <3>2. usdc' \in Nat /\ quote' \in Nat
      BY <1>18, <3>1 DEF SwapBack
    <3>3. \/ sol' = sol
          \/ \E less \in 0 .. Slippage : less <= usdc /\ sol' = sol + usdc - less
      BY <1>18 DEF SwapBack
    <3>4. sol' \in Nat
      BY <3>1, <3>3, CustodyAssumption
    <3> QED
      BY <1>18, <3>2, <3>4 DEF SwapBack, MoneyTypes, history
  <2>3. want' = 0 /\ burning' = FALSE /\ phase' # "burn"
    BY <1>1, <1>18, <1>3 DEF SwapBack, StepSettlementSwapping, Stepping
  <2> QED
    BY <2>1, <2>2, <2>3 DEF Between
<1>19. CASE PayUser
  <2>0. sol' \in Nat /\ paid' \in [Orders -> Nat]
    <3>0. sol \in Nat /\ quote \in Nat /\ paid \in [Orders -> Nat]
      BY DEF MoneyTypes
    <3>1. sol \in Nat /\ quote \in Nat /\ paid \in [Orders -> Nat] /\ paid[cur] + quote \in Nat
      BY <1>2, <3>0
    <3>2. sol' \in Nat
      BY <1>19, <3>1 DEF PayUser
    <3>3. paid' = paid \/ paid' = [paid EXCEPT ![cur] = paid[cur] + quote]
      BY <1>19 DEF PayUser
    <3>4. paid' \in [Orders -> Nat]
      BY <3>1, <3>3
    <3> QED
      BY <3>2, <3>4
  <2>1. MoneyTypes'
    BY <1>19, <2>0 DEF PayUser, MoneyTypes
  <2>2. want' = 0 /\ burning' = FALSE /\ quote' = 0 /\ phase' # "burn"
    BY <1>1, <1>19, <1>3 DEF PayUser, TransferSol
  <2> QED
    BY <2>1, <2>2 DEF Between
<1> QED
  BY <1>6, <1>7, <1>8, <1>9, <1>10, <1>11, <1>12, <1>13, <1>14, <1>15, <1>16, <1>17,
     <1>18, <1>19 DEF RouterStepOfCustody

\* So does everything else that happens.
LEMMA OthersKeepMoney ==
  ASSUME TypeOK, CallOK, MoneyTypes, Between, [CustodyNext]_<<vars, money>>,
         ~RouterStepOfCustody
  PROVE  MoneyTypes' /\ Between'
<1> USE DEF chain, local, history, money
<1>1. CASE CustodyInsert
  <2>1. MoneyTypes'
    BY <1>1 DEF CustodyInsert, MoneyTypes, TypeOK
  <2> QED
    BY <1>1, <2>1 DEF CustodyInsert, Insert, EndCall, MoneyTypes, Between, Stepping
<1>2. CASE Idle
  <2>1. MoneyTypes'
    BY <1>2 DEF Idle, MoneyTypes
  <2>2. CASE phase' = phase
    BY <1>2, <2>1, <2>2 DEF Idle, Between
  <2>3. CASE {phase, phase'} \cap {"burn", "payout"} = {}
    BY <1>2, <2>1, <2>3 DEF Idle, Between, MoneyTypes
  <2>4. phase' = phase \/ {phase, phase'} \cap {"burn", "payout"} = {}
    BY <1>2 DEF Idle, Submit, Advance, DeadlinePasses, Finish, Goto, EndCall, callVars
  <2> QED
    BY <2>2, <2>3, <2>4
<1>3. CASE SendBurn
  <2>1. cur \in Orders /\ vars' = vars /\ phase = "burn" /\ "burn" \in Kinds
    BY <1>3, ExecutorAssumption DEF SendBurn, TypeOK, Kinds
  <2>2. pending' \in Seq(Tx)
    BY <1>3, <2>1, SendTypes DEF SendBurn, MoneyTypes
  <2>3. MoneyTypes'
    BY <1>3, <2>2 DEF SendBurn, MoneyTypes
  <2>4. want' = want /\ quote' = quote /\ phase' = phase
    BY <1>3 DEF SendBurn, vars
  <2> QED
    BY <2>1, <2>3, <2>4 DEF Between
<1>4. CASE Mine
  <2>1. /\ pending' \in Seq(Tx) /\ Head(pending).kind \in Kinds
        /\ Head(pending).order \in Orders /\ Head(pending).size \in Nat
    BY <1>4, HeadTypes DEF Mine
  <2>2. \/ MineMint(Head(pending).order, Head(pending).size)
        \/ MineRedeem(Head(pending).order)
        \/ MineApprove(Head(pending).size)
        \/ MineBurn(Head(pending).order, Head(pending).size)
    BY <1>4, <2>1 DEF Mine, Kinds
  <2>3. /\ usdce' \in Nat /\ shares' \in Nat /\ allowance' \in Nat
        /\ outbound' \in [Orders -> Nat] /\ inbound' \in [Orders -> Nat]
        /\ minted' \subseteq Orders /\ cashed' \subseteq Orders
    <3>1. outbound[Head(pending).order] \in Nat /\ inbound[Head(pending).order] \in Nat
      BY <2>1 DEF MoneyTypes
    <3>2. CASE MineMint(Head(pending).order, Head(pending).size)
      <4>1. usdce \in Nat /\ outbound \in [Orders -> Nat]
        BY DEF MoneyTypes
      <4>2. usdce' \in Nat
        BY <2>1, <3>2, <4>1 DEF MineMint
      <4>3. outbound' \in [Orders -> Nat]
        BY <3>2, <4>1 DEF MineMint
      <4> QED
        BY <2>1, <3>2, <4>2, <4>3 DEF MineMint, MoneyTypes
    <3>3. CASE MineRedeem(Head(pending).order)
      <4>1. /\ usdce \in Nat /\ shares \in Nat /\ allowance \in Nat
            /\ outbound \in [Orders -> Nat] /\ inbound \in [Orders -> Nat]
            /\ minted \subseteq Orders /\ cashed \subseteq Orders
        BY DEF MoneyTypes
      <4> QED
        BY <2>1, <3>3, <4>1 DEF MineRedeem
    <3>4. CASE MineApprove(Head(pending).size)
      BY <2>1, <3>4 DEF MineApprove, MoneyTypes
    <3>5. CASE MineBurn(Head(pending).order, Head(pending).size)
      <4> DEFINE o == Head(pending).order
                 n == Head(pending).size
      <4>1. /\ usdce \in Nat /\ allowance \in Nat /\ n \in Nat
            /\ inbound \in [Orders -> Nat] /\ inbound[o] \in Nat
        BY <2>1, <3>1 DEF MoneyTypes
      <4>2. usdce' \in Nat /\ allowance' \in Nat
        BY <3>5, <4>1 DEF MineBurn
      <4>3. inbound' = inbound \/ inbound' = [inbound EXCEPT ![o] = inbound[o] + n]
        BY <3>5 DEF MineBurn
      <4>4. inbound[o] + n \in Nat
        BY <4>1
      <4>5. inbound' \in [Orders -> Nat]
        BY <4>1, <4>3, <4>4
      <4> QED
        BY <3>5, <4>2, <4>5 DEF MineBurn, MoneyTypes
    <3> QED
      BY <2>2, <3>2, <3>3, <3>4, <3>5
  <2>4. MoneyTypes'
    BY <1>4, <2>1, <2>3 DEF Mine, MoneyTypes, vars
  <2> QED
    BY <1>4, <2>4 DEF Mine, vars, Stepping, Between
<1>5. CASE \E o \in Orders : Fill(o)
  <2> PICK o \in Orders : Fill(o)
    BY <1>5
  <2>0. book[o] \in [state : {"none", "live", "filled", "cancelled"}, size : Nat, filled : Nat]
    BY DEF MoneyTypes
  <2>1. PICK n \in 1 .. book[o].size :
          /\ n <= usdce
          /\ usdce' = usdce - n /\ shares' = shares + n
          /\ book' = [book EXCEPT ![o].state = "filled", ![o].filled = n]
    BY DEF Fill
  <2>2. book' \in [Orders -> [state : {"none", "live", "filled", "cancelled"},
                            size : Nat, filled : Nat]]
    <3>1. n \in Nat
      BY <2>0
    <3>2. [[book[o] EXCEPT !.state = "filled"] EXCEPT !.filled = n]
            \in [state : {"none", "live", "filled", "cancelled"}, size : Nat, filled : Nat]
      BY <2>0, <3>1
    <3>3. book' = [book EXCEPT ![o] = [[book[o] EXCEPT !.state = "filled"] EXCEPT !.filled = n]]
      BY <2>1 DEF MoneyTypes
    <3> QED
      BY <3>2, <3>3 DEF MoneyTypes
  <2>a. usdce' \in Nat /\ shares' \in Nat
    <3>1. n \in Nat /\ usdce \in Nat /\ shares \in Nat
      BY <2>0 DEF MoneyTypes
    <3> QED
      BY <2>1, <3>1
  <2>3. MoneyTypes'
    BY <2>a, <2>2 DEF Fill, MoneyTypes
  <2> QED
    BY <2>3 DEF Fill, vars, Stepping, Between
<1>6. CASE Resolve
  BY <1>6 DEF Resolve, MoneyTypes, vars, Stepping, Between
<1>7. CASE UNCHANGED <<vars, money>>
  BY <1>7 DEF MoneyTypes, vars, Stepping, Between
<1> QED
  BY <1>1, <1>2, <1>3, <1>4, <1>5, <1>6, <1>7 DEF CustodyNext, CustodyStep, RouterStepOfCustody

\* Every balance, transaction and entry of the book has its type, whichever
\* orders share the wallets: nothing is taken from a wallet that does not hold
\* it, the burn's balance is kept only while its step runs, and the quote only
\* until the payout.
THEOREM CustodyTypeCorrect == CustodySpec => []CustodyTypeOK
<1>1. CustodyInit => MoneyTypes /\ Between
  <2> SUFFICES ASSUME CustodyInit PROVE MoneyTypes /\ Between
    OBVIOUS
  <2>1. pending \in Seq(Tx) /\ sol \in Nat
    BY CustodyAssumption, EmptySeq DEF CustodyInit
  <2>2. Nothing \in [Orders -> Nat]
    BY DEF Nothing
  <2>3. book \in [Orders -> [state : {"none", "live", "filled", "cancelled"},
                           size : Nat, filled : Nat]]
    BY DEF CustodyInit, NotOnBook
  <2>4. MoneyTypes
    BY <2>1, <2>2, <2>3 DEF CustodyInit, MoneyTypes
  <2> QED
    BY <2>4 DEF CustodyInit, Init, NoCall, Between
<1>2. TypeOK /\ CallOK /\ MoneyTypes /\ Between /\ [CustodyNext]_<<vars, money>>
        => MoneyTypes' /\ Between'
  BY StepKeepsMoney, OthersKeepMoney
<1>3. TypeOK /\ MoneyTypes /\ Between => CustodyTypeOK
  BY CustodyTypeOKParts
<1> QED
  BY <1>1, <1>2, <1>3, ImplementsExecutor, TypeCorrect, PTL DEF CustodySpec

----
(***************************************************************************)
(* What the executor's own SOL pays for.  Custody has no crash, so no swap *)
(* is made twice: each brings at most Slippage more into the quote than    *)
(* into the wallet, and adds one order to Swapped.                         *)
(***************************************************************************)
Swapped == {o \in Orders : sent[o]["settleSwap"] > 0}

\* Only the step of the effect's stage makes it, and of one order.
LEMMA OnlyOwnEffect ==
  ASSUME TypeOK, CallOK, Step, NEW o \in Orders, NEW e \in Effects, sent'[o][e] # sent[o][e]
  PROVE  /\ o = cur /\ SentIn(e) = memory[cur].stage
         /\ IF phase = "step" THEN e \notin SecondCalls
                              ELSE e \in SecondCalls /\ phase = SecondPhase(e)
<1>1. StepShape
  BY StepHasShape
<1>2. sent' = sent \/ \E d \in Effects : Makes(d)
  BY <1>1, CallPairs DEF StepShape, Waits, Fails, Moves, Halves, Needed
<1> QED
  BY <1>2 DEF Makes, Broadcast, TypeOK

\* Slippage for one order more.
LEMMA OneMore == \A a, n \in Nat : a * (n + 1) = a * n + a /\ a * n \in Nat
OBVIOUS

Covered == IsFiniteSet(Swapped) /\ PaysWithinSlippage /\ crashes = 0

\* The swap of a settlement is new, and its quote is what the wallet got for
\* it and at most Slippage more.
LEMMA SwapIsCovered ==
  ASSUME TypeOK, CallOK, EffectBound', MoneyTypes, Between, Covered, crashes' = 0, SwapBack
  PROVE  Covered'
<1>1. /\ cur \in Orders /\ quote = 0 /\ "settleSwap" \in Effects
      /\ sent \in [Orders -> [Effects -> Nat]]
  <2>1. Step
    BY DEF SwapBack, Step
  <2> QED
    <3>1. phase = "step"
      BY DEF SwapBack, StepSettlementSwapping, Stepping
    <3>2. quote = 0
      BY <3>1 DEF Between, MoneyTypes
    <3>3. sent \in [Orders -> [Effects -> Nat]]
      BY DEF TypeOK
    <3>4. cur \in Orders
      BY <2>1, StepFrame
    <3> QED
      BY <3>2, <3>3, <3>4 DEF Effects
<1> DEFINE c == Cardinality(Swapped)
<1>2. c \in Nat /\ Slippage \in Nat /\ Slippage * c \in Nat
      /\ Slippage * (c + 1) = Slippage * c + Slippage
  BY CustodyAssumption, FS_CardinalityType, OneMore DEF Covered
<1>3. Float \in Nat /\ sol \in Nat /\ usdc \in Nat /\ Float <= sol + Slippage * c
  BY <1>1, <1>2, CustodyAssumption DEF Covered, PaysWithinSlippage, MoneyTypes, Swapped
<1>4. \/ sent' = sent /\ quote' = 0 /\ sol' = sol
      \/ /\ sent' = [sent EXCEPT ![cur]["settleSwap"] = @ + 1]
         /\ quote' \in {0, usdc} /\ usdc > 0
         /\ \E less \in 0 .. Slippage : less <= usdc /\ sol' = sol + usdc - less
  <2>1. CASE sent' = sent
    <3>1. ~Made("settleSwap")
      BY <1>1, <2>1 DEF Made
    <3>2. Chose(Failed)
      BY <1>1, <2>1 DEF SwapBack, StepSettlementSwapping, CallOut, Fail, Return, Goto, Chose,
         FailedIn, Broadcast
    <3> QED
      BY <2>1, <3>1, <3>2 DEF SwapBack
  <2>2. CASE Broadcast("settleSwap")
    <3>1. Made("settleSwap")
      BY <1>1, <2>2 DEF Made, Broadcast
    <3> QED
      BY <2>2, <3>1 DEF SwapBack, Broadcast
  <2> QED
    BY <2>1, <2>2 DEF SwapBack, StepSettlementSwapping, CallOut
<1>5. CASE sent' = sent /\ quote' = 0 /\ sol' = sol
  BY <1>1, <1>5 DEF Covered, PaysWithinSlippage, Swapped
<1>6. CASE /\ sent' = [sent EXCEPT ![cur]["settleSwap"] = @ + 1]
           /\ quote' \in {0, usdc} /\ usdc > 0
           /\ \E less \in 0 .. Slippage : less <= usdc /\ sol' = sol + usdc - less
  <2>1. sent'[cur]["settleSwap"] = sent[cur]["settleSwap"] + 1
    BY <1>1, <1>6
  <2>2. sent'[cur]["settleSwap"] <= 1
    BY <1>1 DEF EffectBound
  <2>3. cur \notin Swapped /\ Swapped' = Swapped \cup {cur}
    BY <1>1, <1>6, <2>1, <2>2 DEF Swapped
  <2>4. IsFiniteSet(Swapped') /\ Cardinality(Swapped') = c + 1
    BY <2>3, FS_AddElement DEF Covered
  <2>5. PICK less \in 0 .. Slippage : less <= usdc /\ sol' = sol + usdc - less
    BY <1>6
  <2>6. sol' + Slippage * (c + 1) >= Float + quote'
    BY <1>2, <1>3, <1>6, <2>5
  <2> QED
    BY <2>4, <2>6 DEF Covered, PaysWithinSlippage, Swapped
<1> QED
  BY <1>4, <1>5, <1>6

\* No other step makes a settlement swap or takes more SOL than was quoted.
LEMMA OthersAreCovered ==
  ASSUME TypeOK, CallOK, MoneyTypes, Between, Covered, crashes' = crashes,
         [CustodyNext]_<<vars, money>>, ~SwapBack
  PROVE  Covered'
<1> USE DEF chain, local, history, money
<1>1. \/ sol' = sol /\ quote' \in {0, quote}
      \/ quote <= sol /\ sol' = sol - quote /\ quote' = 0
  <2>1. CASE PayUser
    BY <2>1 DEF PayUser
  <2>2. CASE ~PayUser
    <3>1. sol' = sol /\ quote' = quote
      BY <2>2 DEF CustodyNext, CustodyInsert, Idle, CustodyStep, Mine, Fill, Resolve,
         SwapDeposit, SeeSwap, BurnOnSolana, RelayToPolygon, SeeMint, PostOrder, AwaitFill,
         HoldPosition, RedeemPosition, ApproveBalance, SendBurn, BurnFails,
         AwaitBurn, RelayToSolana
    <3> QED
      BY <3>1
  <2> QED
    BY <2>1, <2>2
<1>2. Swapped' = Swapped
  <2>1. CASE sent' = sent
    BY <2>1 DEF Swapped
  <2>2. CASE RouterStepOfCustody
    <3>1. Step
      BY <2>2, CustodyStepIsStep
    <3>2. memory[cur].stage = SettlementSwapping => phase = "payout"
      BY <2>2, <3>1, StepFrame, StagesDiffer DEF RouterStepOfCustody, SwapDeposit, SeeSwap, BurnOnSolana,
         RelayToPolygon, SeeMint, PostOrder, AwaitFill, HoldPosition, RedeemPosition,
         ApproveBalance, BurnFails, AwaitBurn, RelayToSolana, PayUser, StepPending,
         StepSolanaSwapInProgress, StepSolanaSwapComplete, StepBridgePending,
         StepBridgeRelaying, StepBridgeComplete, StepPolyOrderPosted, StepPolymarketFilled,
         StepAwaitingResolution, StepRedeeming, ReturnBurn, StepSettlementBridging,
         TransferSol, Stepping
    <3>3. /\ SentIn("settleSwap") = SettlementSwapping /\ "settleSwap" \in Effects
          /\ "settleSwap" \notin SecondCalls
      BY DEF SentIn, Effects, SecondCalls
    <3>4. \A o \in Orders : sent'[o]["settleSwap"] = sent[o]["settleSwap"]
      BY <3>1, <3>2, <3>3, OnlyOwnEffect
    <3> QED
      BY <3>4 DEF Swapped
  <2>3. CASE ~RouterStepOfCustody
    <3>1. sent' = sent
      BY <2>3 DEF CustodyNext, CustodyStep, RouterStepOfCustody, CustodyInsert, Insert, Idle,
         Submit, Advance, DeadlinePasses, Finish, Mine, Fill, Resolve, SendBurn, vars
    <3> QED
      BY <3>1 DEF Swapped
  <2> QED
    BY <2>2, <2>3
<1>3. Slippage * Cardinality(Swapped) \in Nat
  BY CustodyAssumption, FS_CardinalityType, OneMore DEF Covered
<1>4. sol + Slippage * Cardinality(Swapped) >= Float + quote
  BY DEF Covered, PaysWithinSlippage, Swapped
<1>5. sol' + Slippage * Cardinality(Swapped) >= Float + quote'
  <2> DEFINE p == Slippage * Cardinality(Swapped)
  <2>1. /\ p \in Nat /\ sol + p >= Float + quote
        /\ sol \in Nat /\ quote \in Nat /\ Float \in Nat
    BY <1>3, <1>4, CustodyAssumption DEF MoneyTypes
  <2> HIDE DEF p
  <2>2. sol' + p >= Float + quote'
    BY <1>1, <2>1
  <2> QED
    BY <2>2 DEF p
<1> QED
  BY <1>2, <1>5 DEF Covered, PaysWithinSlippage, Swapped

\* The composed system loses no process.
LEMMA NoCrashHere ==
  ASSUME TypeOK, CallOK, [CustodyNext]_<<vars, money>>
  PROVE  crashes' = crashes
<1>1. CASE RouterStepOfCustody
  <2>1. StepShape
    BY <1>1, CustodyStepIsStep, StepHasShape
  <2> QED
    BY <2>1 DEF StepShape, StepUnchanged, envVars
<1>2. CASE CustodyInsert \/ Idle
  BY <1>2 DEF CustodyInsert, Insert, Idle, Submit, Advance, DeadlinePasses, Finish, envVars
<1>3. CASE SendBurn \/ Mine \/ (\E o \in Orders : Fill(o)) \/ Resolve
           \/ UNCHANGED <<vars, money>>
  BY <1>3 DEF SendBurn, Mine, Fill, Resolve, vars
<1> QED
  BY <1>1, <1>2, <1>3 DEF CustodyNext, CustodyStep, RouterStepOfCustody

\* The payouts never take more of the executor's own SOL than the slippage of
\* the swaps made, whatever orders share the wallets and whichever calls fail
\* or lose their answers.
THEOREM PayoutsStayWithinSlippage == CustodySpec => []PaysWithinSlippage
<1>1. CustodyInit => Covered
  <2> SUFFICES ASSUME CustodyInit PROVE Covered
    OBVIOUS
  <2>1. Swapped = {} /\ sol = Float /\ quote = 0 /\ crashes = 0
    BY DEF CustodyInit, Init, Swapped, Effects
  <2>2. IsFiniteSet(Swapped) /\ Cardinality(Swapped) = 0
    BY <2>1, FS_EmptySet
  <2>3. sol + Slippage * 0 >= Float + quote
    BY <2>1, CustodyAssumption
  <2> QED
    BY <2>1, <2>2, <2>3 DEF Covered, PaysWithinSlippage, Swapped
<1>2. TypeOK /\ CallOK /\ EffectBound' /\ CustodyTypeOK /\ Covered
        /\ [CustodyNext]_<<vars, money>> => Covered'
  <2> SUFFICES ASSUME TypeOK, CallOK, EffectBound', CustodyTypeOK, Covered,
                      [CustodyNext]_<<vars, money>>
               PROVE  Covered'
    OBVIOUS
  <2>1. crashes' = crashes /\ crashes = 0 /\ MoneyTypes /\ Between
    BY NoCrashHere, CustodyTypeOKParts DEF Covered
  <2> QED
    BY <2>1, SwapIsCovered, OthersAreCovered
<1>3. Covered => PaysWithinSlippage
  BY DEF Covered
<1> QED
  BY <1>1, <1>2, <1>3, ImplementsExecutor, TypeCorrect, EffectsAreBounded, CustodyTypeCorrect,
     PTL DEF CustodySpec

\* What is proved of Executor holds of the composed system, where the answers
\* of the chains and the exchange are those of one world that all orders
\* share; as no process is lost in it, nothing at all is sent twice.
THEOREM RouterOfCustody ==
  CustodySpec => /\ []EffectOnce /\ []EffectsInOrder /\ []VolumeWithinCap /\ []AckedSurvive
                 /\ BreakerHalts /\ FinalIsFinal /\ FilledKeeps /\ LifecycleSpec
<1>1. CustodyInit => crashes = 0
  BY DEF CustodyInit, Init
<1>2. TypeOK /\ CallOK /\ crashes = 0 /\ [CustodyNext]_<<vars, money>> => (crashes = 0)'
  BY NoCrashHere
<1>3. CustodySpec => [](crashes = 0)
  BY <1>1, <1>2, ImplementsExecutor, TypeCorrect, PTL DEF CustodySpec
<1>4. CustodySpec => []EffectOnce
  BY <1>3, ImplementsExecutor, OnceUntilLost, PTL
<1> QED
  BY <1>4, ImplementsExecutor, EffectsComeInOrder, VolumeStaysWithinCap, AckedAlwaysSurvive,
     BreakerAlwaysHalts, FinalStaysFinal, FilledKeepsUntilDeadline, RefinesLifecycle, PTL

====
