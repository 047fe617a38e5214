---- MODULE CustodyLoneProofs ----
(***************************************************************************)
(* The order that has the wallets to itself: where all its money is at     *)
(* every moment of its way, whatever becomes of its calls, transactions    *)
(* and fills.  Place says it stage by stage and is inductive; from it      *)
(* follow the three properties of Custody about a lone order.              *)
(***************************************************************************)
EXTENDS CustodyProofs

\* The status an order has, or is about to get by its own step.
Now(o) == IF phase = "commit" /\ cur = o /\ ret.stage # Cancelled THEN ret ELSE memory[o]

Live(s)    == Now(alone).stage = s
Stopped(s) == Now(alone).stage = Failed /\ Now(alone).failedAt = s

Transaction(k, n) == [kind |-> k, order |-> alone, size |-> n]

NoneOnItsWay == outbound[alone] = 0 /\ inbound[alone] = 0 /\ pending = <<>>
OffBook      == book[alone].state # "live"

----
(***************************************************************************)
(* Where the money is.                                                     *)
(***************************************************************************)
AtStart == /\ usdc = 0 /\ usdce = 0 /\ shares = 0 /\ NoneOnItsWay /\ OffBook
           /\ brought[alone] = 0 /\ paid[alone] = 0

OnSolana == /\ usdc = brought[alone] /\ usdce = 0 /\ shares = 0 /\ NoneOnItsWay /\ OffBook
            /\ paid[alone] = 0

\* Burnt on Solana, or not; not relayed.
Leaving == /\ usdc + outbound[alone] = brought[alone] /\ usdce = 0 /\ shares = 0
           /\ inbound[alone] = 0 /\ pending = <<>> /\ OffBook /\ paid[alone] = 0

\* The mint is pending, or mined, or was never sent.
Arriving == /\ usdc + outbound[alone] + usdce = brought[alone] /\ shares = 0
            /\ inbound[alone] = 0 /\ OffBook /\ paid[alone] = 0
            /\ pending = <<>> \/ pending = <<Transaction("mint", outbound[alone])>>
            /\ usdce > 0 => alone \in minted /\ outbound[alone] = 0 /\ pending = <<>>

OnPolygon == /\ usdc + usdce = brought[alone] /\ shares = 0 /\ NoneOnItsWay /\ OffBook
             /\ Now(alone).usdc = usdce /\ alone \in minted /\ paid[alone] = 0

\* What was posted is the balance, and what is filled is paid from it.
Bought == /\ usdce + book[alone].filled = book[alone].size
          /\ shares = book[alone].filled

InPosition == /\ book[alone].state = "filled" /\ Bought
              /\ usdc + book[alone].size = brought[alone]
              /\ NoneOnItsWay /\ sol = Float /\ allowance = 0
              /\ alone \in minted /\ paid[alone] = 0

OnBook == /\ book[alone].state = "live" /\ usdce = book[alone].size /\ shares = 0
          /\ usdc + book[alone].size = brought[alone]
          /\ NoneOnItsWay /\ sol = Float /\ allowance = 0
          /\ alone \in minted /\ paid[alone] = 0

\* Failed between the post and the redemption: the order may still be filled,
\* and the redemption still be mined.
StoppedOnPolygon == /\ usdc + usdce + shares = brought[alone]
                    /\ outbound[alone] = 0 /\ inbound[alone] = 0
                    /\ pending = <<>> \/ pending = <<Transaction("redeem", 0)>>
                    /\ alone \in minted /\ paid[alone] = 0

\* The redemption is mined, and nothing burnt yet.
Cashed == /\ alone \in cashed /\ shares = 0 /\ inbound[alone] = 0
          /\ usdce = book[alone].size

Burnt == /\ alone \in cashed /\ shares = 0 /\ inbound[alone] = want
         /\ usdce + want = book[alone].size

\* step_redeeming, between its calls: redemption, approval and burn are mined
\* in this order, so that nothing is burnt before the redemption.
Cashing ==
  /\ book[alone].state = "filled" /\ usdc + book[alone].size = brought[alone]
  /\ outbound[alone] = 0 /\ sol = Float
  /\ alone \in minted /\ paid[alone] = 0
  /\ want > 0 => want <= book[alone].size /\ (Whole => want = book[alone].size)
  /\ \/ /\ want = 0 /\ allowance = 0
        /\ \/ pending = <<Transaction("redeem", 0)>> /\ Bought /\ inbound[alone] = 0
           \/ pending = <<>> /\ Cashed
     \/ /\ want > 0 /\ ~burning
        /\ \/ /\ pending = <<Transaction("redeem", 0), Transaction("approve", want)>>
              /\ Bought /\ inbound[alone] = 0 /\ allowance = 0
           \/ pending = <<Transaction("approve", want)>> /\ Cashed /\ allowance = 0
           \/ pending = <<>> /\ Cashed /\ allowance = want
     \/ /\ burning
        /\ \/ pending = <<Transaction("burn", want)>> /\ Cashed /\ allowance = want
           \/ pending = <<>> /\ Burnt

\* Failed while it redeemed: any of the three may still be mined.
StoppedCashing == /\ usdc + usdce + shares + inbound[alone] = brought[alone]
                  /\ outbound[alone] = 0
                  /\ \A i \in DOMAIN pending : pending[i].kind # "mint" /\ pending[i].order = alone
                  /\ alone \in minted /\ paid[alone] = 0

\* Past the burn: nothing is left on Polygon of an order filled whole.
Redeemed == /\ book[alone].state = "filled" /\ pending = <<>> /\ shares = 0
            /\ outbound[alone] = 0 /\ alone \in minted /\ alone \in cashed
            /\ Whole => usdce = 0

Returning == /\ Redeemed /\ usdc + usdce + inbound[alone] = brought[alone]
             /\ sol = Float /\ paid[alone] = 0

Returned == Returning /\ inbound[alone] = 0

\* Swapped and quoted, not yet paid out.
Quoted == /\ Redeemed /\ inbound[alone] = 0 /\ usdc = 0 /\ paid[alone] = 0
          /\ Whole => /\ quote = brought[alone]
                      /\ sol <= Float + brought[alone]
                      /\ sol + Slippage >= Float + brought[alone]

StoppedSwapping == /\ Redeemed
                   /\ Whole => /\ usdc + sol + paid[alone] <= Float + brought[alone]
                               /\ usdc + sol + paid[alone] + Slippage >= Float + brought[alone]

PaidOut == /\ Redeemed /\ inbound[alone] = 0 /\ usdc = 0
           /\ Whole => paid[alone] = brought[alone]

Place ==
  \/ Live(Pending) /\ AtStart
  \/ /\ Stopped(Pending) \/ Live(SolanaSwapInProgress) \/ Stopped(SolanaSwapInProgress)
        \/ Live(SolanaSwapComplete)
     /\ OnSolana
  \/ (Stopped(SolanaSwapComplete) \/ Live(BridgePending)) /\ Leaving
  \/ (Stopped(BridgePending) \/ Live(BridgeRelaying) \/ Stopped(BridgeRelaying)) /\ Arriving
  \/ Live(BridgeComplete) /\ OnPolygon
  \/ Live(PolymarketOrderPosted) /\ (OnBook \/ InPosition)
  \/ (Live(PolymarketFilled) \/ Live(AwaitingResolution)) /\ InPosition
  \/ (\E s \in BridgeComplete .. AwaitingResolution : Stopped(s)) /\ StoppedOnPolygon
  \/ Live(Redeeming) /\ Cashing
  \/ Stopped(Redeeming) /\ StoppedCashing
  \/ (Live(SettlementBridging) \/ Stopped(SettlementBridging)) /\ Returning
  \/ Live(SettlementSwapping) /\ phase # "payout" /\ Returned
  \/ Live(SettlementSwapping) /\ phase = "payout" /\ Quoted
  \/ Stopped(SettlementSwapping) /\ StoppedSwapping
  \/ Live(Complete) /\ PaidOut

\* Nobody else acts or has money anywhere.
Others == \A o \in Orders \ {alone} :
            /\ ~IsActive(memory[o].stage) /\ outbound[o] = 0 /\ inbound[o] = 0
            /\ book[o].state # "live"

\* While a lone order has not been cancelled, its money is in its place.
LoneInPlace == alone # NoId /\ ~Live(Cancelled) => Others /\ Place

\* An order nobody has submitted brought nothing.
Fresh == \A o \in Orders : memory[o].stage = NoOrder => brought[o] = 0 /\ paid[o] = 0

\* Before the market is resolved nothing is redeemed, so nothing is approved
\* and no SOL is bought or paid.
Unresolved ==
  market = "open" => /\ sol = Float /\ allowance = 0
                     /\ \A o \in Orders : sent[o]["redeem"] = 0
                     /\ \A i \in DOMAIN pending : pending[i].kind = "mint"

----
(***************************************************************************)
(* Orders nobody has submitted, and the market before its resolution.      *)
(***************************************************************************)
\* An order that was submitted stays in the store.
LEMMA StageStays ==
  ASSUME TypeOK, CallOK, [CustodyNext]_<<vars, money>>, NEW o \in Orders,
         memory[o].stage # NoOrder
  PROVE  memory'[o].stage # NoOrder
<1>1. CASE RouterStepOfCustody
  BY <1>1, CustodyStepIsStep, StepFrame
<1>2. CASE CustodyInsert
  BY <1>2, StagesDiffer DEF CustodyInsert, Insert, Put, CallOK, TypeOK, StoreTypeOK, At
<1>3. CASE Finish
  <2>1. phase = "commit" /\ memory' = [memory EXCEPT ![cur] = ret]
    BY <1>3 DEF Finish, Put
  <2>2. ret.stage # NoOrder
    BY <2>1, EdgeCases, StagesDiffer DEF CallOK, IsActive
  <2> QED
    BY <2>1, <2>2 DEF TypeOK, StoreTypeOK
<1>4. CASE \E p \in Orders : Submit(p) \/ Advance(p) \/ DeadlinePasses(p)
  BY <1>4 DEF Submit, Advance, DeadlinePasses, storeVars
<1>5. CASE SendBurn \/ Mine \/ (\E p \in Orders : Fill(p)) \/ Resolve
           \/ UNCHANGED <<vars, money>>
  BY <1>5 DEF SendBurn, Mine, Fill, Resolve, vars
<1> QED
  BY <1>1, <1>2, <1>3, <1>4, <1>5 DEF CustodyNext, CustodyStep, RouterStepOfCustody, Idle

\* Fresh is an invariant: only an order in progress brings or is paid anything.
LEMMA FreshStays ==
  ASSUME TypeOK, CallOK, Fresh, MoneyTypes, [CustodyNext]_<<vars, money>>
  PROVE  Fresh'
<1> SUFFICES ASSUME NEW o \in Orders, memory'[o].stage = NoOrder
             PROVE  brought'[o] = 0 /\ paid'[o] = 0
  BY DEF Fresh
<1>1. memory[o].stage = NoOrder /\ brought[o] = 0 /\ paid[o] = 0
  BY StageStays DEF Fresh
<1>2. CASE SwapDeposit \/ PayUser
  <2>1. o # cur
    BY <1>1, <1>2, CustodyStepIsStep, StepFrame, StagesDiffer DEF RouterStepOfCustody
  <2>2. CASE SwapDeposit
    BY <1>1, <2>1, <2>2 DEF SwapDeposit, MoneyTypes
  <2>3. CASE PayUser
    BY <1>1, <2>1, <2>3 DEF PayUser, MoneyTypes
  <2> QED
    BY <1>2, <2>2, <2>3
<1>3. CASE ~SwapDeposit /\ ~PayUser
  BY <1>1, <1>3 DEF CustodyNext, CustodyInsert, Idle, CustodyStep, Mine, Fill, Resolve, SeeSwap,
     BurnOnSolana, RelayToPolygon, SeeMint, PostOrder, AwaitFill, HoldPosition,
     RedeemPosition, ApproveBalance, SendBurn, BurnFails, AwaitBurn,
     RelayToSolana, SwapBack, money, history
<1> QED
  BY <1>2, <1>3

\* What an order that can redeem, approve, burn or swap back has sent.
LEMMA LateHasRedeemed ==
  ASSUME TypeOK, CallOK, AllBacked, phase \in {"step", "burn", "payout"},
         memory[cur].stage \in Redeeming .. SettlementSwapping
  PROVE  cur \in Orders /\ sent[cur]["redeem"] > 0
<1>1. cur \in Orders
  BY ExecutorAssumption DEF TypeOK
<1>2. Backed(cur, memory[cur])
  BY <1>1 DEF AllBacked
<1>3. "redeem" \in Needed /\ SentIn("redeem") = AwaitingResolution
  BY DEF Needed, Effects, SentIn
<1>4. Position(memory[cur]) = memory[cur].stage /\ memory[cur].stage # Cancelled
      /\ AwaitingResolution < memory[cur].stage
  BY <1>1, StagesDiffer DEF Position
<1> QED
  BY <1>1, <1>2, <1>3, <1>4 DEF Backed

\* Unresolved is an invariant: nothing is redeemed before the market is won,
\* and everything that follows is sent by an order that has redeemed.
LEMMA UnresolvedStays ==
  ASSUME TypeOK, CallOK, AllBacked, Unresolved, MoneyTypes, [CustodyNext]_<<vars, money>>
  PROVE  Unresolved'
<1> SUFFICES ASSUME market' = "open"
             PROVE  /\ sol' = Float /\ allowance' = 0
                    /\ \A o \in Orders : sent'[o]["redeem"] = 0
                    /\ \A i \in DOMAIN pending' : pending'[i].kind = "mint"
  BY DEF Unresolved
<1> USE DEF chain, local, history, money
<1>1. market = "open"
  BY DEF CustodyNext, CustodyInsert, Idle, CustodyStep, Mine, Fill, Resolve, SwapDeposit,
     SeeSwap, BurnOnSolana, RelayToPolygon, SeeMint, PostOrder, AwaitFill, HoldPosition,
     RedeemPosition, ApproveBalance, SendBurn, BurnFails, AwaitBurn,
     RelayToSolana, SwapBack, PayUser
<1>2. /\ sol = Float /\ allowance = 0 /\ \A o \in Orders : sent[o]["redeem"] = 0
      /\ \A i \in DOMAIN pending : pending[i].kind = "mint"
  BY <1>1 DEF Unresolved
<1>3. ~(phase \in {"step", "burn", "payout"} /\ memory[cur].stage \in Redeeming .. SettlementSwapping)
  BY <1>2, LateHasRedeemed
<1>4. ~(ApproveBalance \/ SendBurn \/ BurnFails \/ AwaitBurn \/ RelayToSolana
        \/ SwapBack \/ PayUser)
  <2>1. ~(ApproveBalance \/ SendBurn \/ BurnFails \/ AwaitBurn)
    BY <1>3, StagesDiffer DEF ApproveBalance, SendBurn, BurnFails, AwaitBurn,
       StepRedeeming, ReturnBurn, Stepping, CallOK
  <2>2. ~(RelayToSolana \/ SwapBack)
    BY <1>3, StagesDiffer DEF RelayToSolana, SwapBack, StepSettlementBridging,
       StepSettlementSwapping, Stepping
  <2>3. ~PayUser
    BY <1>3, StagesDiffer DEF PayUser, TransferSol, CallOK
  <2> QED
    BY <2>1, <2>2, <2>3
<1>5. sol' = sol /\ (allowance' = allowance \/ Mine)
  BY <1>4 DEF CustodyNext, CustodyInsert, Idle, CustodyStep, Mine, Fill, Resolve, SwapDeposit,
     SeeSwap, BurnOnSolana, RelayToPolygon, SeeMint, PostOrder, AwaitFill, HoldPosition,
     RedeemPosition
<1>6. \A o \in Orders : sent'[o]["redeem"] = 0
  <2>1. CASE RouterStepOfCustody
    <3>1. Step
      BY <2>1, CustodyStepIsStep
    <3>2. "redeem" \in Effects /\ SentIn("redeem") = AwaitingResolution
      BY DEF Effects, SentIn
    <3>3. CASE RedeemPosition
      <4>1. ~Made("redeem")
        BY <1>1, <3>3 DEF RedeemPosition
      <4>2. sent' = sent \/ sent' = [sent EXCEPT ![cur]["redeem"] = @ + 1]
        BY <3>3 DEF RedeemPosition, StepAwaitingResolution, CallOut, Broadcast
      <4>3. cur \in Orders /\ sent \in [Orders -> [Effects -> Nat]]
        BY <3>1, StepFrame
      <4>4. sent' = sent
        BY <3>2, <4>1, <4>2, <4>3 DEF Made
      <4> QED
        BY <1>2, <4>4
    <3>4. CASE ~RedeemPosition
      <4>1. memory[cur].stage # AwaitingResolution
        BY <1>4, <2>1, <3>4, StagesDiffer DEF RouterStepOfCustody, SwapDeposit, SeeSwap,
           BurnOnSolana, RelayToPolygon, SeeMint, PostOrder, AwaitFill, HoldPosition,
           StepPending, StepSolanaSwapInProgress, StepSolanaSwapComplete, StepBridgePending,
           StepBridgeRelaying, StepBridgeComplete, StepPolyOrderPosted,
           StepPolymarketFilled, Stepping
      <4>2. \A o \in Orders : sent'[o]["redeem"] = sent[o]["redeem"]
        BY <3>1, <3>2, <4>1, OnlyOwnEffect
      <4> QED
        BY <1>2, <4>2
    <3> QED
      BY <3>3, <3>4
  <2>2. CASE ~RouterStepOfCustody
    <3>1. sent' = sent
      BY <2>2 DEF CustodyNext, CustodyStep, RouterStepOfCustody, CustodyInsert, Insert, Idle,
         Submit, Advance, DeadlinePasses, Finish, Mine, Fill, Resolve, SendBurn, vars
    <3> QED
      BY <1>2, <3>1
  <2> QED
    BY <2>1, <2>2
<1>7. allowance' = 0 /\ \A i \in DOMAIN pending' : pending'[i].kind = "mint"
  <2>1. CASE Mine
    <3>1. /\ pending # <<>> /\ pending' = Tail(pending) /\ pending \in Seq(Tx)
      BY <2>1 DEF Mine, MoneyTypes
    <3>2. Head(pending) = pending[1] /\ 1 \in DOMAIN pending
          /\ \A i \in DOMAIN Tail(pending) : i + 1 \in DOMAIN pending
                                             /\ Tail(pending)[i] = pending[i + 1]
      BY <3>1
    <3>3. Head(pending).kind = "mint"
      BY <1>2, <3>2
    <3>4. MineMint(Head(pending).order, Head(pending).size)
      BY <2>1, <3>3 DEF Mine
    <3> QED
      BY <1>2, <3>1, <3>2, <3>4 DEF MineMint
  <2>2. CASE RelayToPolygon
    <3>1. CASE pending' = pending
      BY <1>2, <1>5, <2>2, <3>1 DEF RelayToPolygon
    <3>2. CASE Send("mint", outbound[cur])
      <4>1. pending' = Append(pending, [kind |-> "mint", order |-> cur, size |-> outbound[cur]])
            /\ pending \in Seq(Tx)
        BY <3>2 DEF Send, MoneyTypes
      <4>2. \A i \in DOMAIN pending' : pending'[i].kind = "mint"
        BY <1>2, <4>1
      <4> QED
        BY <1>2, <2>2, <4>2 DEF RelayToPolygon
    <3> QED
      BY <2>2, <3>1, <3>2 DEF RelayToPolygon
  <2>3. CASE ~Mine /\ ~RelayToPolygon
    <3>1. pending' = pending
      BY <1>1, <1>4, <2>3 DEF CustodyNext, CustodyInsert, Idle, CustodyStep, Fill, Resolve,
         SwapDeposit, SeeSwap, BurnOnSolana, SeeMint, PostOrder, AwaitFill, HoldPosition,
         RedeemPosition
    <3> QED
      BY <1>2, <1>5, <2>3, <3>1
  <2> QED
    BY <2>1, <2>2, <2>3
<1> QED
  BY <1>2, <1>5, <1>6, <1>7

----
(***************************************************************************)
(* The calls of a lone order.                                              *)
(***************************************************************************)
\* In a step it is the lone order's turn, and its place is that of its stage.
LEMMA StepPlace ==
  ASSUME TypeOK, CallOK, LoneInPlace, alone # NoId, ~Live(Cancelled),
         phase \in {"step", "burn", "payout"}
  PROVE  /\ cur = alone /\ Now(alone) = memory[alone] /\ Others
         /\ Stepping(Pending) => AtStart
         /\ Stepping(SolanaSwapInProgress) \/ Stepping(SolanaSwapComplete) => OnSolana
         /\ Stepping(BridgePending) => Leaving
         /\ Stepping(BridgeRelaying) => Arriving
         /\ Stepping(BridgeComplete) => OnPolygon
         /\ Stepping(PolymarketOrderPosted) => OnBook \/ InPosition
         /\ Stepping(PolymarketFilled) \/ Stepping(AwaitingResolution) => InPosition
         /\ Stepping(Redeeming) \/ phase = "burn" => Cashing
         /\ Stepping(SettlementBridging) => Returning
         /\ Stepping(SettlementSwapping) => Returned
         /\ phase = "payout" => Quoted
<1>1. cur \in Orders /\ IsActive(memory[cur].stage)
  BY ExecutorAssumption DEF TypeOK, CallOK
<1>2. cur = alone
  BY <1>1 DEF LoneInPlace, Others
<1>3. Now(alone) = memory[alone]
  BY DEF Now
<1>4. Place /\ Others
  BY DEF LoneInPlace
<1>5. \A s \in 1 .. 15 : ~Stopped(s)
  BY <1>1, <1>2, <1>3, StagesDiffer DEF Stopped, IsActive
<1>6. \A s \in 1 .. 15 : Live(s) <=> memory[cur].stage = s
  BY <1>2, <1>3 DEF Live
<1>7. \A s : Stepping(s) => memory[cur].stage = s /\ phase # "payout"
  BY DEF Stepping
<1>8. /\ phase = "payout" => memory[cur].stage = SettlementSwapping
      /\ phase = "burn" => memory[cur].stage = Redeeming
  BY DEF CallOK
<1> QED
  BY <1>2, <1>3, <1>4, <1>5, <1>6, <1>7, <1>8, StagesDiffer DEF Place

\* What a call of a step leads to, and what the money does in it.
LEMMA CallEnds ==
  ASSUME TypeOK, cur \in Orders, cur = alone, alone' = alone, memory' = memory,
         memory[cur].stage \in 1 .. 12,
         NEW e \in Effects, NEW t \in 1 .. 13, CallOut(e, Return(At(t)))
  PROVE  /\ phase' = "commit"
         /\ \/ ~Made(e) /\ Stopped(memory[cur].stage)'
            \/ Made(e) /\ (Stopped(memory[cur].stage)' \/ (Live(t)' /\ ret'.stage = t))
<1>1. /\ phase' = "commit" /\ cur' = cur
      /\ \/ sent' = sent /\ ret' = FailedIn(memory[cur].stage, "call")
         \/ Broadcast(e) /\ (ret' = FailedIn(memory[cur].stage, "call") \/ ret' = At(t))
  BY DEF CallOut, Return, Fail, Goto
<1>2. sent' = sent => ~Made(e)
  BY DEF Made, TypeOK
<1>3. Broadcast(e) => Made(e)
  BY DEF Made, Broadcast, TypeOK
<1>4. ret' = FailedIn(memory[cur].stage, "call") => Stopped(memory[cur].stage)'
  BY <1>1, StagesDiffer DEF Stopped, Now, FailedIn
<1>5. ret' = At(t) => Live(t)' /\ ret'.stage = t
  BY <1>1, StagesDiffer DEF Live, Now, At
<1> QED
  BY <1>1, <1>2, <1>3, <1>4, <1>5

\* A step that waits leaves its order where it is, one that fails stops it
\* there, and one that moves on without an effect is where it says.
LEMMA PlainEnds ==
  ASSUME TypeOK, cur \in Orders, cur = alone, alone' = alone, memory' = memory,
         memory[cur].stage \in 1 .. 12
  PROVE  /\ Stay => Live(memory[cur].stage)' /\ ret'.stage = memory[cur].stage
                     /\ phase' = "commit" /\ Now(alone)' = memory[cur]
         /\ \A why : Fail(why) => Stopped(memory[cur].stage)' /\ ret'.stage = Failed
                                  /\ phase' = "commit"
         /\ \A t \in 1 .. 13 : Return(At(t)) => Live(t)' /\ ret'.stage = t /\ phase' = "commit"
         /\ \A n : Return(Bridged(n)) => /\ Live(BridgeComplete)' /\ ret'.stage = BridgeComplete
                                         /\ phase' = "commit" /\ Now(alone)'.usdc = n
<1> USE StagesDiffer DEF Stay, Fail, Return, Goto, Live, Stopped, Now
<1>1. Stay => Live(memory[cur].stage)' /\ ret'.stage = memory[cur].stage
              /\ phase' = "commit" /\ Now(alone)' = memory[cur]
  OBVIOUS
<1>2. ASSUME NEW why, Fail(why)
      PROVE  Stopped(memory[cur].stage)' /\ ret'.stage = Failed /\ phase' = "commit"
  BY <1>2 DEF FailedIn
<1>3. ASSUME NEW t \in 1 .. 13, Return(At(t))
      PROVE  Live(t)' /\ ret'.stage = t /\ phase' = "commit"
  BY <1>3 DEF At
<1>4. ASSUME NEW n, Return(Bridged(n))
      PROVE  /\ Live(BridgeComplete)' /\ ret'.stage = BridgeComplete
             /\ phase' = "commit" /\ Now(alone)'.usdc = n
  BY <1>4 DEF Bridged
<1> QED
  BY <1>1, <1>2, <1>3, <1>4

\* The types the moves below need.
LEMMA LoneTypes ==
  ASSUME MoneyTypes, alone # NoId
  PROVE  /\ alone \in Orders
         /\ usdc \in Nat /\ usdce \in Nat /\ shares \in Nat /\ sol \in Nat
         /\ want \in Nat /\ allowance \in Nat /\ quote \in Nat
         /\ outbound \in [Orders -> Nat] /\ outbound[alone] \in Nat
         /\ inbound \in [Orders -> Nat] /\ inbound[alone] \in Nat
         /\ brought \in [Orders -> Nat] /\ brought[alone] \in Nat
         /\ paid \in [Orders -> Nat] /\ paid[alone] \in Nat
         /\ amount[alone] \in Nat
         /\ book[alone].size \in Nat /\ book[alone].filled \in Nat
         /\ DOMAIN book = Orders
BY DEF MoneyTypes

\* A lone order's step changes nothing of the others'.
LEMMA OthersStay ==
  ASSUME Others, alone' = alone, memory' = memory, cur = alone, MoneyTypes, alone # NoId,
         outbound' = outbound \/ \E n : outbound' = [outbound EXCEPT ![cur] = n],
         inbound' = inbound \/ \E n : inbound' = [inbound EXCEPT ![cur] = n],
         book' = book \/ \E b : book' = [book EXCEPT ![cur] = b]
  PROVE  Others'
BY LoneTypes DEF Others

\* Sequences of at most two.
LEMMA ShortSequences ==
  ASSUME NEW x, NEW y
  PROVE  /\ Append(<<>>, x) = <<x>> /\ Append(<<x>>, y) = <<x, y>>
         /\ Head(<<x>>) = x /\ Tail(<<x>>) = <<>>
         /\ Head(<<x, y>>) = x /\ Tail(<<x, y>>) = <<y>>
         /\ <<x>> # <<>> /\ <<x, y>> # <<>>
<1>1. Append(<<>>, x) = <<x>>
  OBVIOUS
<1>2. Append(<<x>>, y) = <<x, y>>
  <2> DEFINE S == {x, y}
  <2>1. <<x>> \in Seq(S) /\ <<x, y>> \in Seq(S) /\ y \in S
    OBVIOUS
  <2>2. /\ Append(<<x>>, y) \in Seq(S) /\ Len(Append(<<x>>, y)) = 2
        /\ Append(<<x>>, y)[1] = x /\ Append(<<x>>, y)[2] = y
    BY <2>1, AppendProperties
  <2>3. Len(<<x, y>>) = 2 /\ <<x, y>>[1] = x /\ <<x, y>>[2] = y
    OBVIOUS
  <2>4. \A i \in 1 .. 2 : Append(<<x>>, y)[i] = <<x, y>>[i]
    <3>1. \A i \in 1 .. 2 : i = 1 \/ i = 2
      OBVIOUS
    <3> QED
      BY <2>2, <2>3, <3>1
  <2> HIDE DEF S
  <2> QED
    BY <2>1, <2>2, <2>3, <2>4, SeqEqual
<1>3. Head(<<x>>) = x /\ Head(<<x, y>>) = x
  OBVIOUS
<1>4. Tail(<<x>>) = <<>>
  OBVIOUS
<1>5. Tail(<<x, y>>) = <<y>>
  OBVIOUS
<1>6. <<x>> # <<>> /\ <<x, y>> # <<>>
  OBVIOUS
<1> QED
  BY <1>1, <1>2, <1>3, <1>4, <1>5, <1>6

\* The way out, from the deposit to the post.
LEMMA LoneGoesOut ==
  ASSUME TypeOK, CallOK, MoneyTypes, Unresolved, LoneInPlace, alone # NoId, ~Live(Cancelled),
         SwapDeposit \/ SeeSwap \/ BurnOnSolana \/ RelayToPolygon \/ SeeMint \/ PostOrder
  PROVE  alone' = alone /\ Others' /\ Place'
<1>1. RouterStepOfCustody /\ Step
  BY CustodyStepIsStep DEF RouterStepOfCustody
<1>2. /\ cur' = cur /\ memory' = memory /\ cur \in Orders
      /\ memory[cur].stage \in 1 .. 12 /\ phase \in {"step", "burn", "payout"}
  BY <1>1, StepFrame
<1>3. cur = alone /\ Others
  BY <1>2, StepPlace
<1>4. alone' = alone
  BY DEF SwapDeposit, SeeSwap, BurnOnSolana, RelayToPolygon, SeeMint, PostOrder, money, history
<1>5. CASE SwapDeposit
  <2>1. /\ Stepping(Pending) /\ CallOut("swap", Return(At(SolanaSwapInProgress)))
        /\ memory[cur].stage = Pending /\ AtStart /\ "swap" \in Effects
    BY <1>2, <1>5, StepPlace DEF SwapDeposit, StepPending, Stepping, Effects
  <2>2. \/ ~Made("swap") /\ Stopped(Pending)'
        \/ Made("swap") /\ (Stopped(Pending)' \/ Live(SolanaSwapInProgress)')
    BY <1>2, <1>3, <1>4, <2>1, CallEnds, StagesDiffer
  <2>3. usdc' = brought'[alone]
    BY <1>3, <1>5, <2>1, LoneTypes, CustodyAssumption DEF SwapDeposit, AtStart
  <2>4. OnSolana'
    BY <1>3, <1>4, <1>5, <2>1, <2>3 DEF SwapDeposit, AtStart, OnSolana, NoneOnItsWay, OffBook
  <2>5. Others'
    BY <1>2, <1>3, <1>4, <1>5, OthersStay DEF SwapDeposit
  <2> QED
    BY <1>4, <2>2, <2>4, <2>5 DEF Place
<1>6. CASE SeeSwap
  <2>1. /\ Stepping(SolanaSwapInProgress) /\ memory[cur].stage = SolanaSwapInProgress
        /\ Fail("call") \/ Stay \/ Return(At(SolanaSwapComplete))
    BY <1>2, <1>6, StepPlace DEF SeeSwap, StepSolanaSwapInProgress, Stepping
  <2>2. Stopped(SolanaSwapInProgress)' \/ Live(SolanaSwapInProgress)' \/ Live(SolanaSwapComplete)'
    BY <1>2, <1>3, <1>4, <2>1, PlainEnds, StagesDiffer
  <2>3. OnSolana /\ OnSolana'
    BY <1>2, <1>4, <1>6, <2>1, StepPlace DEF SeeSwap, OnSolana, NoneOnItsWay, OffBook, chain,
       history
  <2>4. Others'
    BY <1>2, <1>3, <1>4, <1>6, OthersStay DEF SeeSwap, chain
  <2> QED
    BY <1>4, <2>2, <2>3, <2>4 DEF Place
<1>7. CASE BurnOnSolana
  <2>1. /\ Stepping(SolanaSwapComplete) /\ CallOut("burn", Return(At(BridgePending)))
        /\ memory[cur].stage = SolanaSwapComplete /\ OnSolana /\ "burn" \in Effects
    BY <1>2, <1>7, StepPlace DEF BurnOnSolana, StepSolanaSwapComplete, Stepping, Effects
  <2>2. Stopped(SolanaSwapComplete)' \/ Live(BridgePending)'
    BY <1>2, <1>3, <1>4, <2>1, CallEnds, StagesDiffer
  <2>3. usdc' + outbound'[alone] = brought[alone]
    BY <1>3, <1>7, <2>1, LoneTypes DEF BurnOnSolana, OnSolana, NoneOnItsWay
  <2>4. Leaving'
    BY <1>3, <1>4, <1>7, <2>1, <2>3 DEF BurnOnSolana, OnSolana, Leaving, NoneOnItsWay,
       OffBook, history
  <2>5. Others'
    BY <1>2, <1>3, <1>4, <1>7, OthersStay DEF BurnOnSolana
  <2> QED
    BY <1>4, <2>2, <2>4, <2>5 DEF Place
<1>8. CASE RelayToPolygon
  <2>1. /\ Stepping(BridgePending) /\ memory[cur].stage = BridgePending /\ Leaving
        /\ "relay" \in Effects
        /\ (Stay /\ sent' = sent) \/ CallOut("relay", Return(At(BridgeRelaying)))
    BY <1>2, <1>8, StepPlace DEF RelayToPolygon, StepBridgePending, Stepping, Effects
  <2>2. \/ Live(BridgePending)' /\ ~Made("relay")
        \/ Stopped(BridgePending)' \/ Live(BridgeRelaying)'
    <3>1. sent' = sent => ~Made("relay")
      BY <1>2, <2>1 DEF Made, TypeOK
    <3> QED
      BY <1>2, <1>3, <1>4, <2>1, <3>1, CallEnds, PlainEnds, StagesDiffer
  <2>3. /\ usdc' = usdc /\ usdce' = usdce /\ shares' = shares /\ outbound' = outbound
        /\ inbound' = inbound /\ book' = book /\ brought' = brought /\ paid' = paid
        /\ minted' = minted
    BY <1>8 DEF RelayToPolygon, history
  <2>4. \/ ~Made("relay") /\ pending' = <<>>
        \/ pending' = <<Transaction("mint", outbound[alone])>>
    BY <1>3, <1>8, <2>1, ShortSequences DEF RelayToPolygon, Leaving, Send, Transaction
  <2>5. CASE Live(BridgePending)' /\ ~Made("relay")
    <3>1. pending' = <<>>
      BY <1>8, <2>1, <2>5 DEF RelayToPolygon, Leaving
    <3>2. Leaving'
      BY <1>4, <2>1, <2>3, <3>1 DEF Leaving, OffBook
    <3> QED
      BY <1>2, <1>3, <1>4, <2>3, <2>5, <3>2, OthersStay DEF Place
  <2>6. CASE Stopped(BridgePending)' \/ Live(BridgeRelaying)'
    <3>1. Arriving'
      BY <1>4, <2>1, <2>3, <2>4, LoneTypes DEF Leaving, Arriving, OffBook, Transaction
    <3> QED
      BY <1>2, <1>3, <1>4, <2>3, <2>6, <3>1, OthersStay DEF Place
  <2> QED
    BY <2>2, <2>5, <2>6
<1>9. CASE SeeMint
  <2>1. /\ Stepping(BridgeRelaying) /\ memory[cur].stage = BridgeRelaying /\ Arriving
        /\ \/ Fail("call") \/ Stay \/ \E n \in 1 .. MaxBalance : Return(Bridged(n))
        /\ UNCHANGED money
    BY <1>2, <1>9, StepPlace DEF SeeMint, StepBridgeRelaying, Stepping
  <2>2. Others'
    BY <1>2, <1>3, <1>4, <2>1, OthersStay DEF money, chain
  <2>3. CASE Fail("call") \/ Stay
    <3>1. Stopped(BridgeRelaying)' \/ Live(BridgeRelaying)'
      BY <1>2, <1>3, <1>4, <2>1, <2>3, PlainEnds
    <3>2. Arriving'
      BY <2>1 DEF Arriving, OffBook, Transaction, money, chain, history
    <3> QED
      BY <1>4, <2>2, <3>1, <3>2 DEF Place
  <2>4. ASSUME NEW n \in 1 .. MaxBalance, Return(Bridged(n))
        PROVE  alone' = alone /\ Others' /\ Place'
    <3>1. Live(BridgeComplete)' /\ Chose(BridgeComplete) /\ Now(alone)'.usdc = n
      BY <1>2, <1>3, <1>4, <2>4, PlainEnds DEF Chose
    <3>2. ret' = Bridged(n)
      BY <2>4 DEF Return, Goto
    <3>3. n = usdce /\ usdce > 0
      BY <1>9, <3>1, <3>2, ExecutorAssumption DEF SeeMint, Bridged
    <3>4. OnPolygon'
      BY <2>1, <3>1, <3>3, LoneTypes DEF Arriving, OnPolygon, NoneOnItsWay, OffBook, money,
         chain, history
    <3> QED
      BY <1>4, <2>2, <3>1, <3>4 DEF Place
  <2> QED
    BY <2>1, <2>3, <2>4
<1>10. CASE PostOrder
  <2>1. /\ Stepping(BridgeComplete) /\ memory[cur].stage = BridgeComplete /\ OnPolygon
        /\ Now(alone) = memory[alone] /\ StepBridgeComplete /\ "post" \in Effects
    BY <1>2, <1>10, StepPlace DEF PostOrder, StepBridgeComplete, Stepping, Effects
  <2>2. /\ usdc' = usdc /\ usdce' = usdce /\ shares' = shares /\ outbound' = outbound
        /\ inbound' = inbound /\ pending' = pending /\ brought' = brought /\ paid' = paid
        /\ minted' = minted /\ sol' = sol /\ allowance' = allowance
    BY <1>10 DEF PostOrder, history
  <2>3. \/ Stopped(BridgeComplete)'
        \/ Made("post") /\ Live(PolymarketOrderPosted)'
    BY <1>2, <1>3, <1>4, <2>1, CallEnds, PlainEnds, StagesDiffer DEF StepBridgeComplete
  <2>4. Others'
    BY <1>2, <1>3, <1>4, <1>10, <2>2, OthersStay DEF PostOrder
  <2>5. CASE Stopped(BridgeComplete)'
    <3>1. StoppedOnPolygon'
      BY <1>4, <2>1, <2>2, LoneTypes DEF OnPolygon, StoppedOnPolygon, NoneOnItsWay
    <3>2. BridgeComplete \in BridgeComplete .. AwaitingResolution
      BY StagesDiffer
    <3> QED
      BY <1>4, <2>4, <2>5, <3>1, <3>2 DEF Place
  <2>6. CASE Made("post") /\ Live(PolymarketOrderPosted)'
    <3>1. /\ market = "open"
          /\ book' = [book EXCEPT ![cur] = [state |-> "live", size |-> memory[cur].usdc, filled |-> 0]]
      BY <1>10, <2>6 DEF PostOrder
    <3>2. sol = Float /\ allowance = 0
      BY <3>1 DEF Unresolved
    <3>3. book'[alone] = [state |-> "live", size |-> usdce, filled |-> 0]
      BY <1>3, <2>1, <3>1, LoneTypes DEF OnPolygon
    <3>4. OnBook'
      BY <1>4, <2>1, <2>2, <3>2, <3>3 DEF OnPolygon, OnBook, NoneOnItsWay
    <3> QED
      BY <1>4, <2>4, <2>6, <3>4 DEF Place
  <2> QED
    BY <2>3, <2>5, <2>6
<1> QED
  BY <1>5, <1>6, <1>7, <1>8, <1>9, <1>10

\* On the exchange, from the post to the redemption.
LEMMA LoneHolds ==
  ASSUME TypeOK, CallOK, MoneyTypes, Between, LoneInPlace, alone # NoId, ~Live(Cancelled),
         AwaitFill \/ HoldPosition \/ RedeemPosition
  PROVE  alone' = alone /\ Others' /\ Place'
<1>1. RouterStepOfCustody /\ Step
  BY CustodyStepIsStep DEF RouterStepOfCustody
<1>2. /\ cur' = cur /\ memory' = memory /\ cur \in Orders
      /\ memory[cur].stage \in 1 .. 12 /\ phase \in {"step", "burn", "payout"}
  BY <1>1, StepFrame
<1>3. cur = alone /\ Others
  BY <1>2, StepPlace
<1>4. alone' = alone
  BY DEF AwaitFill, HoldPosition, RedeemPosition, money, history
<1>5. CASE AwaitFill
  <2>1. /\ memory[cur].stage = PolymarketOrderPosted /\ (OnBook \/ InPosition)
        /\ Fail("call") \/ Return(At(PolymarketFilled))
        /\ Return(At(PolymarketFilled)) => sent' = sent
    <3>1. /\ memory[cur].stage = PolymarketOrderPosted /\ (OnBook \/ InPosition)
          /\ \/ Return(At(PolymarketFilled)) /\ sent' = sent
             \/ Fail("call")
      BY <1>2, <1>5, StepPlace DEF AwaitFill, StepPolyOrderPosted, Stepping
    <3>2. ~(Return(At(PolymarketFilled)) /\ Fail("call"))
      BY <3>1, StagesDiffer DEF Return, Fail, Goto, At, FailedIn
    <3> QED
      BY <3>1, <3>2
  <2>2. /\ usdc' = usdc /\ usdce' = usdce /\ shares' = shares /\ outbound' = outbound
        /\ inbound' = inbound /\ pending' = pending /\ brought' = brought /\ paid' = paid
        /\ minted' = minted /\ sol' = sol /\ allowance' = allowance
    BY <1>5 DEF AwaitFill, history
  <2>3. Others'
    <3>1. book' = book \/ \E b : book' = [book EXCEPT ![cur] = b]
      BY <1>5 DEF AwaitFill
    <3> QED
      BY <1>2, <1>3, <1>4, <2>2, <3>1, OthersStay
  <2>4. CASE Fail("call")
    <3>1. Stopped(PolymarketOrderPosted)'
      BY <1>2, <1>3, <1>4, <2>1, <2>4, PlainEnds
    <3>2. StoppedOnPolygon'
      BY <1>4, <2>1, <2>2, LoneTypes DEF OnBook, InPosition, Bought, StoppedOnPolygon,
         NoneOnItsWay
    <3>3. PolymarketOrderPosted \in BridgeComplete .. AwaitingResolution
      BY StagesDiffer
    <3> QED
      BY <1>4, <2>3, <3>1, <3>2, <3>3 DEF Place
  <2>5. CASE Return(At(PolymarketFilled))
    <3>1. Live(PolymarketFilled)' /\ ~Chose(Failed)
      BY <1>2, <1>3, <1>4, <2>5, PlainEnds, StagesDiffer DEF Chose
    <3>2. ~Made("cancel")
      BY <1>2, <2>1, <2>5 DEF Made, TypeOK, Effects
    <3>3. book[alone].state = "filled" /\ book' = book
      BY <1>3, <1>5, <3>1, <3>2 DEF AwaitFill
    <3>4. InPosition'
      BY <1>4, <2>1, <2>2, <3>3 DEF OnBook, InPosition, Bought, NoneOnItsWay
    <3> QED
      BY <1>4, <2>3, <3>1, <3>4 DEF Place
  <2> QED
    BY <2>1, <2>4, <2>5
<1>6. CASE HoldPosition
  <2>1. /\ Return(At(AwaitingResolution)) /\ InPosition /\ UNCHANGED money
    BY <1>2, <1>6, StepPlace DEF HoldPosition, StepPolymarketFilled, Stepping
  <2>2. Live(AwaitingResolution)'
    BY <1>2, <1>3, <1>4, <2>1, PlainEnds, StagesDiffer
  <2>3. InPosition'
    BY <2>1 DEF InPosition, Bought, NoneOnItsWay, money, chain, history
  <2>4. Others'
    BY <1>2, <1>3, <1>4, <2>1, OthersStay DEF money, chain
  <2> QED
    BY <1>4, <2>2, <2>3, <2>4 DEF Place
<1>7. CASE RedeemPosition
  <2>1. /\ Stepping(AwaitingResolution) /\ memory[cur].stage = AwaitingResolution /\ InPosition
        /\ "redeem" \in Effects
        /\ \/ (Stay \/ Fail("lost")) /\ sent' = sent
           \/ CallOut("redeem", Return(At(Redeeming)))
    BY <1>2, <1>7, StepPlace DEF RedeemPosition, StepAwaitingResolution, Stepping, Effects
  <2>2. /\ usdc' = usdc /\ usdce' = usdce /\ shares' = shares /\ outbound' = outbound
        /\ inbound' = inbound /\ book' = book /\ brought' = brought /\ paid' = paid
        /\ minted' = minted /\ sol' = sol /\ allowance' = allowance /\ want' = want
        /\ burning' = burning
    BY <1>7 DEF RedeemPosition, local, history
  <2>3. \/ Live(AwaitingResolution)' /\ ~Made("redeem")
        \/ Stopped(AwaitingResolution)'
        \/ Live(Redeeming)' /\ Made("redeem")
    <3>1. sent' = sent => ~Made("redeem")
      BY <1>2, <2>1 DEF Made, TypeOK
    <3> QED
      BY <1>2, <1>3, <1>4, <2>1, <3>1, CallEnds, PlainEnds, StagesDiffer
  <2>4. IF Made("redeem") THEN pending' = <<Transaction("redeem", 0)>> ELSE pending' = <<>>
    BY <1>3, <1>7, <2>1, ShortSequences DEF RedeemPosition, InPosition, NoneOnItsWay, Send,
       Transaction
  <2>5. Others'
    BY <1>2, <1>3, <1>4, <2>2, OthersStay
  <2>6. CASE Live(AwaitingResolution)' /\ ~Made("redeem")
    <3>1. InPosition'
      BY <1>4, <2>1, <2>2, <2>4, <2>6 DEF InPosition, Bought, NoneOnItsWay
    <3> QED
      BY <1>4, <2>5, <2>6, <3>1 DEF Place
  <2>7. CASE Stopped(AwaitingResolution)'
    <3>1. StoppedOnPolygon'
      BY <1>4, <2>1, <2>2, <2>4, LoneTypes DEF InPosition, Bought, StoppedOnPolygon,
         NoneOnItsWay, Transaction
    <3>2. AwaitingResolution \in BridgeComplete .. AwaitingResolution
      BY StagesDiffer
    <3> QED
      BY <1>4, <2>5, <2>7, <3>1, <3>2 DEF Place
  <2>8. CASE Live(Redeeming)' /\ Made("redeem")
    <3>1. want = 0
      BY <2>1 DEF Between, MoneyTypes, Stepping
    <3>2. Cashing'
      BY <1>4, <2>1, <2>2, <2>4, <2>8, <3>1 DEF InPosition, Bought, Cashing, NoneOnItsWay,
         Transaction
    <3> QED
      BY <1>4, <2>5, <2>8, <3>2 DEF Place
  <2> QED
    BY <2>3, <2>6, <2>7, <2>8
<1> QED
  BY <1>5, <1>6, <1>7

\* Sequences of at most two, once more: their elements.
LEMMA ShortElements ==
  ASSUME NEW x, NEW y
  PROVE  /\ \A i \in DOMAIN <<>> : FALSE
         /\ \A i \in DOMAIN <<x>> : <<x>>[i] = x
         /\ \A i \in DOMAIN <<x, y>> : <<x, y>>[i] \in {x, y}
<1>1. \A i \in DOMAIN <<>> : FALSE
  OBVIOUS
<1>2. \A i \in DOMAIN <<x>> : <<x>>[i] = x
  OBVIOUS
<1>3. \A i \in DOMAIN <<x, y>> : <<x, y>>[i] \in {x, y}
  OBVIOUS
<1> QED
  BY <1>1, <1>2, <1>3

\* Stopped while it redeemed: what it sent it sent for itself, and the sum of
\* its money is what it was.
LEMMA StoppedWhileCashing ==
  ASSUME MoneyTypes, Between, alone # NoId, Cashing, NEW q,
         \/ q = pending
         \/ q = Append(pending, Transaction("burn", want)) /\ pending = <<>>
         \/ q = Append(pending, Transaction("approve", usdce)) /\ want = 0
  PROVE  /\ usdc + usdce + shares + inbound[alone] = brought[alone]
         /\ outbound[alone] = 0 /\ alone \in minted /\ paid[alone] = 0
         /\ \A i \in DOMAIN q : q[i].kind # "mint" /\ q[i].order = alone
<1>1. usdc + usdce + shares + inbound[alone] = brought[alone]
  <2>1. usdc + book[alone].size = brought[alone]
    BY DEF Cashing
  <2>2. (Bought /\ inbound[alone] = 0) \/ Cashed \/ Burnt
    BY DEF Cashing
  <2>3. /\ usdc \in Nat /\ usdce \in Nat /\ shares \in Nat /\ inbound[alone] \in Nat
        /\ want \in Nat /\ brought[alone] \in Nat
        /\ book[alone].size \in Nat /\ book[alone].filled \in Nat
    BY LoneTypes
  <2>4. usdce + shares + inbound[alone] = book[alone].size
    BY <2>2, <2>3 DEF Bought, Cashed, Burnt
  <2> QED
    BY <2>1, <2>3, <2>4
<1>2. outbound[alone] = 0 /\ alone \in minted /\ paid[alone] = 0
  BY DEF Cashing
<1>3. \E x, y \in {Transaction("redeem", 0), Transaction("approve", want),
                  Transaction("approve", usdce), Transaction("burn", want)} :
         q \in {<<>>, <<x>>, <<x, y>>}
  <2>1. CASE q = pending
    BY <2>1 DEF Cashing
  <2>2. CASE q = Append(pending, Transaction("burn", want)) /\ pending = <<>>
    BY <2>2, ShortSequences
  <2>3. CASE q = Append(pending, Transaction("approve", usdce)) /\ want = 0
    <3>1. pending = <<>> \/ pending = <<Transaction("redeem", 0)>>
      BY <2>3, LoneTypes DEF Cashing, Between
    <3>2. \/ q = <<Transaction("approve", usdce)>>
          \/ q = <<Transaction("redeem", 0), Transaction("approve", usdce)>>
      BY <2>3, <3>1, ShortSequences
    <3> QED
      BY <3>2
  <2> QED
    BY <2>1, <2>2, <2>3
<1>4. \A i \in DOMAIN q : q[i].kind # "mint" /\ q[i].order = alone
  <2>1. PICK x, y \in {Transaction("redeem", 0), Transaction("approve", want),
                      Transaction("approve", usdce), Transaction("burn", want)} :
               q \in {<<>>, <<x>>, <<x, y>>}
    BY <1>3
  <2>2. /\ x.kind # "mint" /\ x.order = alone
        /\ y.kind # "mint" /\ y.order = alone
    BY DEF Transaction
  <2>3. \A i \in DOMAIN q : q[i] \in {x, y}
    BY <2>1, ShortElements
  <2> QED
    BY <2>2, <2>3
<1> QED
  BY <1>1, <1>2, <1>4

\* step_redeeming up to the approval: nothing to burn, a failure, or the burn next.
LEMMA LoneApproves ==
  ASSUME TypeOK, CallOK, MoneyTypes, Between, LoneInPlace, alone # NoId, ~Live(Cancelled),
         ApproveBalance
  PROVE  alone' = alone /\ Others' /\ Place'
<1>1. RouterStepOfCustody /\ Step
  BY CustodyStepIsStep DEF RouterStepOfCustody
<1>2. /\ cur' = cur /\ memory' = memory /\ cur \in Orders
      /\ memory[cur].stage \in 1 .. 12 /\ phase \in {"step", "burn", "payout"}
  BY <1>1, StepFrame
<1>3. cur = alone /\ Others /\ Now(alone) = memory[alone]
  BY <1>2, StepPlace
<1>4. /\ phase = "step" /\ memory[cur].stage = Redeeming /\ Cashing /\ "approve" \in Effects
      /\ \/ Stay /\ sent' = sent
         \/ CallOut("approve", Goto("burn", cur, ret))
  BY <1>2, StepPlace DEF ApproveBalance, StepRedeeming, Stepping, Effects
<1>5. want = 0 /\ ~burning
  BY <1>4, LoneTypes DEF Between
<1>6. /\ usdc' = usdc /\ usdce' = usdce /\ shares' = shares /\ outbound' = outbound
      /\ inbound' = inbound /\ book' = book /\ brought' = brought /\ paid' = paid
      /\ minted' = minted /\ cashed' = cashed /\ sol' = sol /\ allowance' = allowance
      /\ burning' = burning /\ alone' = alone
  BY DEF ApproveBalance, history
<1>7. Others'
  BY <1>2, <1>3, <1>6, OthersStay
<1>8. pending' = IF Made("approve") THEN Append(pending, Transaction("approve", usdce))
                                    ELSE pending
  BY <1>3 DEF ApproveBalance, Send, Transaction
<1>9. CASE Stay /\ sent' = sent
  <2>1. Live(Redeeming)' /\ phase' = "commit"
    BY <1>2, <1>3, <1>4, <1>6, <1>9, PlainEnds
  <2>2. ~Made("approve")
    BY <1>2, <1>4, <1>9 DEF Made, TypeOK
  <2>3. pending' = pending /\ want' = 0
    BY <1>8, <2>1, <2>2 DEF ApproveBalance
  <2>4. Cashing'
    BY <1>4, <1>5, <1>6, <2>3 DEF Cashing, Bought, Cashed, Transaction
  <2> QED
    BY <1>6, <1>7, <2>1, <2>4 DEF Place
<1>10. CASE Fail("call")
  <2>1. Stopped(Redeeming)'
    BY <1>2, <1>3, <1>4, <1>6, <1>10, PlainEnds
  <2>2. \/ pending' = pending
        \/ pending' = Append(pending, Transaction("approve", usdce)) /\ want = 0
    BY <1>5, <1>8
  <2>3. /\ usdc + usdce + shares + inbound[alone] = brought[alone]
        /\ outbound[alone] = 0 /\ alone \in minted /\ paid[alone] = 0
        /\ \A i \in DOMAIN pending' : pending'[i].kind # "mint" /\ pending'[i].order = alone
    BY <1>4, <2>2, StoppedWhileCashing
  <2>4. StoppedCashing'
    BY <1>6, <2>3 DEF StoppedCashing
  <2> QED
    BY <1>6, <1>7, <2>1, <2>4 DEF Place
<1>11. CASE Goto("burn", cur, ret) /\ Broadcast("approve")
  <2>1. Made("approve") /\ phase' = "burn"
    BY <1>2, <1>4, <1>11 DEF Made, Broadcast, Goto, TypeOK
  <2>2. Live(Redeeming)'
    BY <1>2, <1>3, <1>4, <1>6, <2>1 DEF Live, Now
  <2>3. /\ usdce > 0 /\ want' = usdce
        /\ pending' = Append(pending, Transaction("approve", usdce))
    BY <1>8, <2>1 DEF ApproveBalance
  <2>4. allowance = 0
    BY <1>4, <1>5 DEF Cashing
  <2>5. \/ pending = <<Transaction("redeem", 0)>> /\ Bought /\ inbound[alone] = 0
        \/ pending = <<>> /\ Cashed
    BY <1>4, <1>5 DEF Cashing
  <2>6. usdce <= book[alone].size /\ (Whole => usdce = book[alone].size)
    BY <2>3, <2>5, LoneTypes DEF Bought, Cashed, Whole
  <2>7. \/ /\ pending' = <<Transaction("redeem", 0), Transaction("approve", usdce)>>
           /\ Bought /\ inbound[alone] = 0
        \/ pending' = <<Transaction("approve", usdce)>> /\ Cashed
    BY <2>3, <2>5, ShortSequences
  <2>8. Cashing'
    BY <1>4, <1>5, <1>6, <2>3, <2>4, <2>6, <2>7
       DEF Cashing, Bought, Cashed, Whole, Transaction
  <2> QED
    BY <1>6, <1>7, <2>2, <2>8 DEF Place
<1> QED
  BY <1>4, <1>9, <1>10, <1>11 DEF CallOut

\* The burn is sent, and not answered yet.
LEMMA LoneSendsBurn ==
  ASSUME TypeOK, CallOK, MoneyTypes, Between, LoneInPlace, alone # NoId, ~Live(Cancelled),
         SendBurn
  PROVE  alone' = alone /\ Others' /\ Place'
<1>1. phase = "burn" /\ ~burning /\ vars' = vars /\ memory[cur].stage = Redeeming
  BY DEF SendBurn, CallOK
<1>2. cur = alone /\ Others /\ Cashing /\ Now(alone) = memory[alone]
  BY <1>1, StepPlace
<1>3. /\ usdc' = usdc /\ usdce' = usdce /\ shares' = shares /\ outbound' = outbound
      /\ inbound' = inbound /\ book' = book /\ brought' = brought /\ paid' = paid
      /\ minted' = minted /\ cashed' = cashed /\ sol' = sol /\ allowance' = allowance
      /\ alone' = alone
  BY DEF SendBurn, history
<1>4. Live(Redeeming)'
  BY <1>1, <1>2, <1>3 DEF vars, Live, Now
<1>5. Others'
  BY <1>1, <1>2, <1>3, OthersStay DEF vars
<1>6. want > 0 /\ want <= allowance /\ want' = want /\ burning'
      /\ pending' = Append(pending, Transaction("burn", want))
  BY <1>1, <1>2 DEF SendBurn, BurnEstimated, Between, Send, Transaction
<1>7. pending = <<>> /\ Cashed /\ allowance = want
  BY <1>1, <1>2, <1>6, LoneTypes DEF Cashing
<1>8. pending' = <<Transaction("burn", want)>>
  BY <1>6, <1>7, ShortSequences
<1>9. Cashing'
  BY <1>2, <1>3, <1>6, <1>7, <1>8 DEF Cashing, Cashed, Whole, Transaction
<1> QED
  BY <1>3, <1>4, <1>5, <1>9 DEF Place

\* step_redeeming, where the burn fails or is answered.
LEMMA LoneBurns ==
  ASSUME TypeOK, CallOK, MoneyTypes, Between, LoneInPlace, alone # NoId, ~Live(Cancelled),
         BurnFails \/ AwaitBurn
  PROVE  alone' = alone /\ Others' /\ Place'
<1>1. RouterStepOfCustody /\ Step
  BY CustodyStepIsStep DEF RouterStepOfCustody
<1>2. /\ cur' = cur /\ memory' = memory /\ cur \in Orders
      /\ memory[cur].stage \in 1 .. 12 /\ phase \in {"step", "burn", "payout"}
  BY <1>1, StepFrame
<1>3. cur = alone /\ Others
  BY <1>2, StepPlace
<1>4. alone' = alone
  BY DEF BurnFails, AwaitBurn, history
<1>5. /\ phase = "burn" /\ memory[cur].stage = Redeeming /\ Cashing
      /\ "returnBurn" \in Effects /\ want > 0
      /\ CallOut("returnBurn", Return(At(SettlementBridging)))
  BY <1>2, StepPlace DEF BurnFails, AwaitBurn, ReturnBurn, CallOK, Between, Effects
<1>6. /\ usdc' = usdc /\ usdce' = usdce /\ shares' = shares /\ outbound' = outbound
      /\ inbound' = inbound /\ book' = book /\ brought' = brought /\ paid' = paid
      /\ minted' = minted /\ cashed' = cashed /\ sol' = sol /\ allowance' = allowance
  BY DEF BurnFails, AwaitBurn, chain, history
<1>7. \/ Stopped(Redeeming)'
      \/ Live(SettlementBridging)' /\ Chose(SettlementBridging)
  BY <1>2, <1>3, <1>4, <1>5, CallEnds, StagesDiffer DEF Chose
<1>8. Others'
  BY <1>2, <1>3, <1>4, <1>6, OthersStay
<1>9. ASSUME Stopped(Redeeming)' PROVE Place'
  <2>1. \/ pending' = pending
        \/ pending' = Append(pending, Transaction("burn", want)) /\ pending = <<>>
    <3>1. CASE BurnFails /\ Made("returnBurn")
      <4>1. ~burning /\ want <= allowance
        BY <3>1 DEF BurnFails, BurnEstimated
      <4>2. pending = <<>>
        BY <1>5, <4>1, LoneTypes DEF Cashing
      <4> QED
        BY <1>3, <3>1, <4>2 DEF BurnFails, Send, Transaction
    <3>2. CASE BurnFails /\ ~Made("returnBurn")
      BY <3>2 DEF BurnFails
    <3>3. CASE AwaitBurn
      BY <3>3 DEF AwaitBurn, chain
    <3> QED
      BY <3>1, <3>2, <3>3
  <2>2. /\ usdc + usdce + shares + inbound[alone] = brought[alone]
        /\ outbound[alone] = 0 /\ alone \in minted /\ paid[alone] = 0
        /\ \A i \in DOMAIN pending' : pending'[i].kind # "mint" /\ pending'[i].order = alone
    BY <1>5, <2>1, StoppedWhileCashing
  <2>3. StoppedCashing'
    BY <1>4, <1>6, <2>2 DEF StoppedCashing
  <2> QED
    BY <1>9, <2>3 DEF Place
<1>10. ASSUME Live(SettlementBridging)', Chose(SettlementBridging) PROVE Place'
  <2>1. AwaitBurn
    BY <1>10, StagesDiffer DEF BurnFails, Chose
  <2>2. burning /\ ~BurnPending /\ pending' = pending
    BY <1>10, <2>1 DEF AwaitBurn, chain
  <2>3. pending # <<Transaction("burn", want)>>
    <3>1. SUFFICES ASSUME pending = <<Transaction("burn", want)>> PROVE FALSE
      OBVIOUS
    <3>2. 1 \in DOMAIN pending /\ pending[1] = Transaction("burn", want)
      BY <3>1
    <3> QED
      BY <1>3, <2>2, <3>2 DEF BurnPending, Transaction
  <2>4. pending = <<>> /\ Burnt
    BY <1>5, <2>2, <2>3 DEF Cashing
  <2>5. Returning'
    BY <1>4, <1>5, <1>6, <2>2, <2>4, LoneTypes DEF Cashing, Burnt, Returning, Redeemed, Whole
  <2> QED
    BY <1>10, <2>5 DEF Place
<1> QED
  BY <1>4, <1>7, <1>8, <1>9, <1>10

\* The way back, from the burn to the payout.
LEMMA LoneComesBack ==
  ASSUME TypeOK, CallOK, MoneyTypes, Between, LoneInPlace, alone # NoId, ~Live(Cancelled),
         RelayToSolana \/ SwapBack \/ PayUser
  PROVE  alone' = alone /\ Others' /\ Place'
<1>1. RouterStepOfCustody /\ Step
  BY CustodyStepIsStep DEF RouterStepOfCustody
<1>2. /\ cur' = cur /\ memory' = memory /\ cur \in Orders
      /\ memory[cur].stage \in 1 .. 12 /\ phase \in {"step", "burn", "payout"}
  BY <1>1, StepFrame
<1>3. cur = alone /\ Others /\ Now(alone) = memory[alone]
  BY <1>2, StepPlace
<1>4. alone' = alone
  BY DEF RelayToSolana, SwapBack, PayUser, history
<1>5. CASE RelayToSolana
  <2>1. /\ Stepping(SettlementBridging) /\ memory[cur].stage = SettlementBridging /\ Returning
        /\ "returnRelay" \in Effects
        /\ (Stay /\ sent' = sent) \/ CallOut("returnRelay", Return(At(SettlementSwapping)))
    BY <1>2, <1>5, StepPlace DEF RelayToSolana, StepSettlementBridging, Stepping, Effects
  <2>2. \/ Live(SettlementBridging)' \/ Stopped(SettlementBridging)'
        \/ Live(SettlementSwapping)' /\ Made("returnRelay") /\ phase' # "payout"
    BY <1>2, <1>3, <1>4, <2>1, CallEnds, PlainEnds, StagesDiffer
  <2>3. /\ usdce' = usdce /\ shares' = shares /\ outbound' = outbound
        /\ pending' = pending /\ book' = book /\ brought' = brought /\ paid' = paid
        /\ minted' = minted /\ cashed' = cashed /\ sol' = sol
    BY <1>5 DEF RelayToSolana, history
  <2>4. Others'
    BY <1>2, <1>3, <1>4, <1>5, <2>3, OthersStay DEF RelayToSolana
  <2>5. /\ usdc' + inbound'[alone] = usdc + inbound[alone]
        /\ Made("returnRelay") => inbound'[alone] = 0
    BY <1>3, <1>5, LoneTypes DEF RelayToSolana
  <2>6. usdc' + usdce' + inbound'[alone] = brought'[alone]
    <3>1. usdc' \in Nat /\ inbound'[alone] \in Nat
      BY <1>3, <1>5, LoneTypes DEF RelayToSolana
    <3>2. usdc + usdce + inbound[alone] = brought[alone]
      BY <2>1 DEF Returning
    <3> QED
      BY <2>3, <2>5, <3>1, <3>2, LoneTypes
  <2>7. Returning'
    BY <1>4, <2>1, <2>3, <2>6 DEF Returning, Redeemed, Whole
  <2> QED
    BY <1>4, <2>2, <2>4, <2>5, <2>7 DEF Place, Returned
<1>6. CASE SwapBack
  <2>1. /\ Stepping(SettlementSwapping) /\ memory[cur].stage = SettlementSwapping /\ Returned
        /\ "settleSwap" \in Effects /\ ret = At(NoOrder)
        /\ CallOut("settleSwap", Goto("payout", cur, ret))
    BY <1>2, <1>6, StepPlace DEF SwapBack, StepSettlementSwapping, Stepping, Effects, CallOK
  <2>2. /\ usdce' = usdce /\ shares' = shares /\ outbound' = outbound
        /\ inbound' = inbound /\ pending' = pending /\ book' = book /\ brought' = brought
        /\ paid' = paid /\ minted' = minted /\ cashed' = cashed
    BY <1>6 DEF SwapBack, history
  <2>3. \/ Stopped(SettlementSwapping)' /\ ~Made("settleSwap")
        \/ Stopped(SettlementSwapping)' /\ Made("settleSwap")
        \/ /\ Live(SettlementSwapping)' /\ phase' = "payout" /\ Made("settleSwap")
           /\ ~Chose(Failed)
    <3>1. Broadcast("settleSwap") => Made("settleSwap")
      BY <1>2, <2>1 DEF Made, Broadcast, TypeOK
    <3>2. sent' = sent => ~Made("settleSwap")
      BY <1>2, <2>1 DEF Made, TypeOK
    <3>3. Fail("call") => Stopped(SettlementSwapping)'
      BY <1>2, <1>3, <1>4, <2>1, PlainEnds
    <3>4. Goto("payout", cur, ret) => /\ Live(SettlementSwapping)' /\ phase' = "payout"
                                      /\ ~Chose(Failed)
      BY <1>2, <1>3, <1>4, <2>1, StagesDiffer DEF Goto, Live, Now, Chose, At
    <3> QED
      BY <2>1, <3>1, <3>2, <3>3, <3>4 DEF CallOut
  <2>4. Others'
    BY <1>2, <1>3, <1>4, <2>2, OthersStay
  <2>5. Redeemed' /\ inbound'[alone] = 0 /\ paid'[alone] = 0 /\ (Whole' => Whole)
    BY <1>4, <2>1, <2>2 DEF Returned, Returning, Redeemed, Whole
  <2>6. Whole => usdc = brought[alone]
    BY <2>1, LoneTypes DEF Returned, Returning, Redeemed
  <2>7. sol = Float /\ Float \in Nat /\ Slippage \in Nat
    BY <2>1, CustodyAssumption DEF Returned, Returning
  <2>8. CASE Stopped(SettlementSwapping)' /\ ~Made("settleSwap")
    <3>1. usdc' = usdc /\ sol' = sol
      BY <1>6, <2>8 DEF SwapBack
    <3>2. StoppedSwapping'
      BY <1>4, <2>2, <2>5, <2>6, <2>7, <3>1, LoneTypes DEF StoppedSwapping
    <3> QED
      BY <1>4, <2>4, <2>8, <3>2 DEF Place
  <2>9. CASE Made("settleSwap")
    <3>1. PICK less \in 0 .. Slippage : less <= usdc /\ sol' = sol + usdc - less
      BY <1>6, <2>9 DEF SwapBack
    <3>2. usdc' = 0 /\ (~Chose(Failed) => quote' = usdc)
      BY <1>6, <2>9 DEF SwapBack
    <3>3. Whole => sol' <= Float + brought[alone] /\ sol' + Slippage >= Float + brought[alone]
      BY <2>6, <2>7, <3>1, LoneTypes
    <3>4. sol' \in Nat
      BY <2>7, <3>1, LoneTypes
    <3>5. CASE Stopped(SettlementSwapping)'
      <4>1. StoppedSwapping'
        BY <1>4, <2>2, <2>5, <2>7, <3>2, <3>3, <3>4, LoneTypes DEF StoppedSwapping
      <4> QED
        BY <1>4, <2>4, <3>5, <4>1 DEF Place
    <3>6. CASE Live(SettlementSwapping)' /\ phase' = "payout" /\ ~Chose(Failed)
      <4>1. Quoted'
        BY <1>4, <2>2, <2>5, <2>6, <3>2, <3>3, <3>6 DEF Quoted
      <4> QED
        BY <1>4, <2>4, <3>6, <4>1 DEF Place
    <3> QED
      BY <2>3, <2>9, <3>5, <3>6
  <2> QED
    BY <2>3, <2>8, <2>9
<1>7. CASE PayUser
  <2>1. /\ phase = "payout" /\ memory[cur].stage = SettlementSwapping /\ Quoted
        /\ "payout" \in Effects /\ CallOut("payout", Return(At(Complete)))
    BY <1>2, <1>7, StepPlace DEF PayUser, TransferSol, Effects, CallOK
  <2>2. \/ Stopped(SettlementSwapping)'
        \/ Live(Complete)' /\ Made("payout")
    BY <1>2, <1>3, <1>4, <2>1, CallEnds, StagesDiffer
  <2>3. /\ usdc' = usdc /\ usdce' = usdce /\ shares' = shares /\ outbound' = outbound
        /\ inbound' = inbound /\ pending' = pending /\ book' = book /\ brought' = brought
        /\ minted' = minted /\ cashed' = cashed
    BY <1>7 DEF PayUser
  <2>4. Others'
    BY <1>2, <1>3, <1>4, <2>3, OthersStay
  <2>5. Redeemed' /\ inbound'[alone] = 0 /\ usdc' = 0 /\ (Whole' => Whole)
    BY <1>4, <2>1, <2>3 DEF Quoted, Redeemed, Whole
  <2>6. /\ sol' + paid'[alone] = sol + paid[alone]
        /\ sol' \in Nat /\ paid'[alone] \in Nat
        /\ Made("payout") => paid'[alone] = quote
    BY <1>3, <1>7, <2>1, LoneTypes DEF PayUser, Quoted
  <2>7. Whole => /\ quote = brought[alone]
                 /\ sol' + paid'[alone] <= Float + brought[alone]
                 /\ sol' + paid'[alone] + Slippage >= Float + brought[alone]
    <3>1. paid[alone] = 0 /\ sol \in Nat /\ sol' + paid'[alone] = sol
      BY <2>1, <2>6, LoneTypes DEF Quoted
    <3> QED
      BY <2>1, <3>1 DEF Quoted
  <2>8. StoppedSwapping'
    BY <1>4, <2>3, <2>5, <2>6, <2>7 DEF StoppedSwapping
  <2>9. Made("payout") => PaidOut'
    BY <1>4, <2>3, <2>5, <2>6, <2>7 DEF PaidOut
  <2> QED
    BY <1>4, <2>2, <2>4, <2>8, <2>9 DEF Place
<1> QED
  BY <1>5, <1>6, <1>7

----
(***************************************************************************)
(* Everything that goes on around a lone order.                            *)
(***************************************************************************)
\* As long as the money and the order's status stay, so does its place.
LEMMA PlaceFrame ==
  ASSUME Place, Now(alone)' = Now(alone),
         usdc' = usdc, usdce' = usdce, shares' = shares, outbound' = outbound,
         inbound' = inbound, pending' = pending, book' = book, brought' = brought,
         paid' = paid, minted' = minted, cashed' = cashed, sol' = sol, allowance' = allowance,
         want' = want, burning' = burning, quote' = quote, alone' = alone,
         (phase = "payout") <=> (phase' = "payout")
  PROVE  Place'
<1> USE DEF NoneOnItsWay, OffBook, Transaction, Whole
<1>1. \A s \in 1 .. 15 : (Live(s)' <=> Live(s)) /\ (Stopped(s)' <=> Stopped(s))
  BY DEF Live, Stopped
<1>2. /\ (AtStart => AtStart') /\ (OnSolana => OnSolana') /\ (Leaving => Leaving')
      /\ (Arriving => Arriving') /\ (OnPolygon => OnPolygon')
  BY DEF AtStart, OnSolana, Leaving, Arriving, OnPolygon
<1>3. /\ (OnBook => OnBook') /\ (InPosition => InPosition')
      /\ (StoppedOnPolygon => StoppedOnPolygon')
  BY DEF OnBook, InPosition, StoppedOnPolygon, Bought
<1>4. Cashing => Cashing'
  BY DEF Cashing, Bought, Cashed, Burnt
<1>5. /\ (StoppedCashing => StoppedCashing') /\ (Returning => Returning')
      /\ (Returned => Returned')
  BY DEF StoppedCashing, Returning, Returned, Redeemed
<1>6. (Quoted => Quoted') /\ (StoppedSwapping => StoppedSwapping') /\ (PaidOut => PaidOut')
  BY DEF Quoted, StoppedSwapping, PaidOut, Redeemed
<1> QED
  BY <1>1, <1>2, <1>3, <1>4, <1>5, <1>6, StagesDiffer DEF Place

\* A transaction is mined for what it is.
LEMMA MinedByKind ==
  ASSUME MoneyTypes, Mine
  PROVE  /\ pending' = Tail(pending) /\ pending # <<>> /\ vars' = vars /\ alone' = alone
         /\ usdc' = usdc /\ sol' = sol /\ book' = book /\ brought' = brought /\ paid' = paid
         /\ want' = want /\ burning' = burning /\ quote' = quote
         /\ Head(pending).kind = "mint" => MineMint(Head(pending).order, Head(pending).size)
         /\ Head(pending).kind = "redeem" => MineRedeem(Head(pending).order)
         /\ Head(pending).kind = "approve" => MineApprove(Head(pending).size)
         /\ Head(pending).kind = "burn" => MineBurn(Head(pending).order, Head(pending).size)
BY DEF Mine, local

\* What mining a transaction leaves of the others' is all there was.
LEMMA MiningSparesOthers ==
  ASSUME MoneyTypes, Mine, Others, alone # NoId, Head(pending).order = alone,
         Head(pending).kind \in Kinds
  PROVE  Others'
<1>1. \/ outbound' = outbound \/ outbound' = [outbound EXCEPT ![alone] = 0]
  BY MinedByKind DEF Kinds, MineMint, MineRedeem, MineApprove, MineBurn
<1>2. \/ inbound' = inbound
      \/ inbound' = [inbound EXCEPT ![alone] = inbound[alone] + Head(pending).size]
  BY MinedByKind DEF Kinds, MineMint, MineRedeem, MineApprove, MineBurn
<1>3. memory' = memory /\ book' = book /\ alone' = alone
  BY MinedByKind DEF vars
<1> QED
  BY <1>1, <1>2, <1>3, LoneTypes DEF Others

\* The redemption, the approval and the burn of a lone order, one by one.
LEMMA CashingGoesOn ==
  ASSUME MoneyTypes, Between, Mine, Cashing, alone # NoId
  PROVE  /\ Head(pending).order = alone /\ Head(pending).kind \in Kinds
         /\ Cashing'
<1> USE DEF Kinds
<1>1. MoneyTypes /\ pending # <<>> /\ pending' = Tail(pending)
  BY MinedByKind
<1>2. /\ usdc' = usdc /\ sol' = sol /\ book' = book /\ brought' = brought /\ paid' = paid
      /\ want' = want /\ burning' = burning /\ alone' = alone /\ (burning => want > 0)
  BY MinedByKind DEF Between
<1>3. CASE pending = <<Transaction("redeem", 0)>> /\ want = 0
  <2>1. Head(pending) = Transaction("redeem", 0) /\ pending' = <<>>
    BY <1>1, <1>3, ShortSequences
  <2>2. Head(pending).kind = "redeem" /\ Head(pending).order = alone
    BY <2>1 DEF Transaction
  <2>3. MineRedeem(alone)
    BY <2>2, MinedByKind
  <2>4. Bought /\ inbound[alone] = 0 /\ allowance = 0 /\ ~burning
    BY <1>2, <1>3, ShortSequences DEF Cashing, Transaction
  <2>5. Cashed' /\ allowance' = 0 /\ outbound' = outbound /\ minted' = minted
    BY <1>2, <2>3, <2>4, LoneTypes DEF MineRedeem, Bought, Cashed
  <2>6. Cashing'
    BY <1>2, <1>3, <2>1, <2>5 DEF Cashing, Whole
  <2> QED
    BY <2>2, <2>6
<1>4. CASE pending = <<Transaction("redeem", 0), Transaction("approve", want)>>
           /\ want > 0 /\ ~burning
  <2>1. Head(pending) = Transaction("redeem", 0) /\ pending' = <<Transaction("approve", want)>>
    BY <1>1, <1>4, ShortSequences
  <2>2. Head(pending).kind = "redeem" /\ Head(pending).order = alone
    BY <2>1 DEF Transaction
  <2>3. MineRedeem(alone)
    BY <2>2, MinedByKind
  <2>4. Bought /\ inbound[alone] = 0 /\ allowance = 0
    BY <1>4, ShortSequences DEF Cashing, Transaction
  <2>5. Cashed' /\ allowance' = 0 /\ outbound' = outbound /\ minted' = minted
    BY <1>2, <2>3, <2>4, LoneTypes DEF MineRedeem, Bought, Cashed
  <2>6. pending' = <<Transaction("approve", want)'>>
    BY <1>2, <2>1 DEF Transaction
  <2>7. Cashing'
    BY <1>2, <1>4, <2>5, <2>6 DEF Cashing, Whole
  <2> QED
    BY <2>2, <2>7
<1>5. CASE pending = <<Transaction("approve", want)>> /\ want > 0 /\ ~burning
  <2>1. Head(pending) = Transaction("approve", want) /\ pending' = <<>>
    BY <1>1, <1>5, ShortSequences
  <2>2. Head(pending).kind = "approve" /\ Head(pending).order = alone
        /\ Head(pending).size = want
    BY <2>1 DEF Transaction
  <2>3. MineApprove(want)
    BY <2>2, MinedByKind
  <2>4. Cashed
    BY <1>5, ShortSequences DEF Cashing, Transaction
  <2>5. Cashed' /\ allowance' = want /\ outbound' = outbound /\ minted' = minted
    BY <1>2, <2>3, <2>4 DEF MineApprove, Cashed
  <2>6. Cashing'
    BY <1>2, <1>5, <2>1, <2>5 DEF Cashing, Whole
  <2> QED
    BY <2>2, <2>6
<1>6. CASE pending = <<Transaction("burn", want)>> /\ burning
  <2>1. Head(pending) = Transaction("burn", want) /\ pending' = <<>>
    BY <1>1, <1>6, ShortSequences
  <2>2. Head(pending).kind = "burn" /\ Head(pending).order = alone
        /\ Head(pending).size = want
    BY <2>1 DEF Transaction
  <2>3. MineBurn(alone, want)
    BY <2>2, MinedByKind
  <2>4. Cashed /\ allowance = want
    BY <1>2, <1>6, ShortSequences DEF Cashing, Transaction
  <2>5. want <= usdce
    BY <1>2, <1>6, <2>4, LoneTypes DEF Cashing, Cashed
  <2>6. Burnt' /\ outbound' = outbound /\ minted' = minted
    BY <1>2, <2>3, <2>4, <2>5, LoneTypes DEF MineBurn, Cashed, Burnt
  <2>7. Cashing'
    BY <1>2, <1>6, <2>1, <2>6 DEF Cashing, Whole
  <2> QED
    BY <2>2, <2>7
<1> QED
  BY <1>1, <1>2, <1>3, <1>4, <1>5, <1>6 DEF Cashing

\* The same for an order that waits for its mint, or was stopped.
LEMMA ArrivingGoesOn ==
  ASSUME MoneyTypes, Mine, Arriving, alone # NoId
  PROVE  /\ Head(pending).order = alone /\ Head(pending).kind \in Kinds
         /\ Arriving'
<1>1. pending = <<Transaction("mint", outbound[alone])>> /\ pending' = Tail(pending)
  BY MinedByKind DEF Arriving
<1>2. Head(pending) = Transaction("mint", outbound[alone]) /\ pending' = <<>>
  BY <1>1, ShortSequences
<1>3. /\ Head(pending).kind = "mint" /\ Head(pending).order = alone
      /\ Head(pending).size = outbound[alone]
  BY <1>2 DEF Transaction
<1>4. MineMint(alone, outbound[alone])
  BY <1>3, MinedByKind
<1>5. usdce = 0
  BY <1>1, ShortSequences, LoneTypes DEF Arriving
<1>6. usdc' = usdc /\ book' = book /\ brought' = brought /\ paid' = paid /\ alone' = alone
  BY MinedByKind
<1>7. usdce' = outbound[alone] /\ outbound'[alone] = 0 /\ alone \in minted'
      /\ shares' = shares /\ inbound' = inbound
  BY <1>4, <1>5, LoneTypes DEF MineMint
<1>8. Arriving'
  BY <1>2, <1>5, <1>6, <1>7, LoneTypes DEF Arriving, OffBook
<1> QED
  BY <1>3, <1>8 DEF Kinds

\* Mining the redemption of an order that failed leaves its sum.
LEMMA StoppedGoesOn ==
  ASSUME MoneyTypes, Mine, StoppedOnPolygon, alone # NoId
  PROVE  /\ Head(pending).order = alone /\ Head(pending).kind \in Kinds
         /\ StoppedOnPolygon'
<1>1. pending = <<Transaction("redeem", 0)>> /\ pending' = Tail(pending)
  BY MinedByKind DEF StoppedOnPolygon
<1>2. Head(pending) = Transaction("redeem", 0) /\ pending' = <<>>
  BY <1>1, ShortSequences
<1>3. Head(pending).kind = "redeem" /\ Head(pending).order = alone
  BY <1>2 DEF Transaction
<1>4. MineRedeem(alone)
  BY <1>3, MinedByKind
<1>5. usdc' = usdc /\ brought' = brought /\ paid' = paid /\ alone' = alone
  BY MinedByKind
<1>6. StoppedOnPolygon'
  BY <1>2, <1>4, <1>5, LoneTypes DEF MineRedeem, StoppedOnPolygon
<1> QED
  BY <1>3, <1>6 DEF Kinds

\* So does mining what an order that failed while it redeemed had sent.
LEMMA StoppedCashingGoesOn ==
  ASSUME MoneyTypes, Mine, StoppedCashing, alone # NoId
  PROVE  /\ Head(pending).order = alone /\ Head(pending).kind \in Kinds
         /\ StoppedCashing'
<1>1. /\ pending # <<>> /\ pending' = Tail(pending) /\ pending \in Seq(Tx)
  BY MinedByKind DEF MoneyTypes
<1>2. /\ Head(pending) = pending[1] /\ 1 \in DOMAIN pending
      /\ \A i \in DOMAIN Tail(pending) : i + 1 \in DOMAIN pending
                                         /\ Tail(pending)[i] = pending[i + 1]
  BY <1>1
<1>3. Head(pending).order = alone /\ Head(pending).kind \in Kinds \ {"mint"}
      /\ Head(pending).size \in Nat
  BY <1>1, <1>2, HeadTypes DEF StoppedCashing
<1>4. \A i \in DOMAIN pending' : pending'[i].kind # "mint" /\ pending'[i].order = alone
  BY <1>1, <1>2 DEF StoppedCashing
<1>5. usdc' = usdc /\ brought' = brought /\ paid' = paid /\ alone' = alone
  BY MinedByKind
<1>6. /\ usdce' + shares' + inbound'[alone] = usdce + shares + inbound[alone]
      /\ usdce' \in Nat /\ shares' \in Nat /\ inbound'[alone] \in Nat
      /\ outbound' = outbound /\ minted' = minted
  <2> DEFINE n == Head(pending).size
  <2>1. CASE MineRedeem(alone)
    BY <2>1, LoneTypes DEF MineRedeem
  <2>2. CASE MineApprove(n)
    BY <2>2, LoneTypes DEF MineApprove
  <2>3. CASE MineBurn(alone, n)
    <3>1. n \in Nat
      BY <1>3
    <3> HIDE DEF n
    <3> QED
      BY <2>3, <3>1, LoneTypes DEF MineBurn
  <2> QED
    BY <1>3, <2>1, <2>2, <2>3, MinedByKind DEF Kinds
<1>7. usdc' + usdce' + shares' + inbound'[alone] = brought'[alone]
  <2>1. usdc + usdce + shares + inbound[alone] = brought[alone]
    BY DEF StoppedCashing
  <2> QED
    BY <1>5, <1>6, <2>1, LoneTypes
<1>8. StoppedCashing'
  BY <1>4, <1>5, <1>6, <1>7 DEF StoppedCashing
<1> QED
  BY <1>3, <1>8

\* While it has its status, an order is where it is.
LEMMA SameStatus ==
  ASSUME vars' = vars, alone' = alone
  PROVE  /\ \A s \in 1 .. 15 : (Live(s)' <=> Live(s)) /\ (Stopped(s)' <=> Stopped(s))
         /\ phase' = phase /\ memory' = memory /\ cur' = cur /\ Now(alone)' = Now(alone)
BY DEF vars, Live, Stopped, Now

\* Whatever is mined leaves a lone order's money in its place.
LEMMA LoneMines ==
  ASSUME MoneyTypes, Between, Mine, Others, Place, alone # NoId
  PROVE  Others' /\ Place'
<1> USE StagesDiffer
<1>1. pending # <<>> /\ vars' = vars /\ alone' = alone
  BY MinedByKind
<1>2. CASE (Stopped(BridgePending) \/ Live(BridgeRelaying) \/ Stopped(BridgeRelaying)) /\ Arriving
  BY <1>1, <1>2, ArrivingGoesOn, MiningSparesOthers, SameStatus DEF Place
<1>3. CASE (\E s \in BridgeComplete .. AwaitingResolution : Stopped(s)) /\ StoppedOnPolygon
  <2>1. \E s \in BridgeComplete .. AwaitingResolution : Stopped(s)'
    BY <1>1, <1>3, SameStatus
  <2> QED
    BY <1>3, <2>1, StoppedGoesOn, MiningSparesOthers DEF Place
<1>4. CASE Live(Redeeming) /\ Cashing
  BY <1>1, <1>4, CashingGoesOn, MiningSparesOthers, SameStatus DEF Place
<1>5. CASE Stopped(Redeeming) /\ StoppedCashing
  BY <1>1, <1>5, StoppedCashingGoesOn, MiningSparesOthers, SameStatus DEF Place
<1> QED
  BY <1>1, <1>2, <1>3, <1>4, <1>5 DEF Place, AtStart, OnSolana, Leaving, OnPolygon, OnBook,
     InPosition, Returning, Returned, Quoted, StoppedSwapping, PaidOut, Redeemed, NoneOnItsWay

\* Only its own order can be filled, where it is live or was stopped.
LEMMA LoneFills ==
  ASSUME MoneyTypes, Others, Place, alone # NoId, NEW o \in Orders, Fill(o)
  PROVE  alone' = alone /\ Others' /\ Place'
<1> USE StagesDiffer
<1>1. o = alone /\ book[o].state = "live"
  BY DEF Fill, Others
<1>2. PICK n \in 1 .. book[o].size :
        /\ n <= usdce /\ usdce' = usdce - n /\ shares' = shares + n
        /\ book' = [book EXCEPT ![o].state = "filled", ![o].filled = n]
  BY DEF Fill
<1>3. n \in Nat /\ book[o].size \in Nat
  BY <1>1, LoneTypes
<1>4. /\ vars' = vars /\ usdc' = usdc /\ sol' = sol /\ outbound' = outbound
      /\ inbound' = inbound /\ pending' = pending /\ allowance' = allowance
      /\ brought' = brought /\ paid' = paid /\ minted' = minted /\ alone' = alone
  BY DEF Fill, history
<1>5. Others'
  <2>1. \A q \in Orders \ {alone} : book'[q] = book[q]
    BY <1>1, <1>2, LoneTypes
  <2> QED
    BY <1>4, <2>1 DEF Others, vars
<1>6. CASE Live(PolymarketOrderPosted) /\ OnBook
  <2>1. /\ book'[alone].state = "filled" /\ book'[alone].filled = n
        /\ book'[alone].size = book[alone].size
    BY <1>1, <1>2, LoneTypes
  <2>2. usdce' + n = book[alone].size /\ shares' = n
    BY <1>2, <1>3, <1>6, LoneTypes DEF OnBook
  <2>3. InPosition'
    BY <1>4, <1>6, <2>1, <2>2 DEF OnBook, InPosition, Bought, NoneOnItsWay
  <2> QED
    BY <1>4, <1>5, <1>6, <2>3, SameStatus DEF Place
<1>7. ASSUME usdc + usdce + shares + inbound[alone] = brought[alone]
      PROVE  usdc' + usdce' + shares' + inbound'[alone] = brought'[alone]
  BY <1>2, <1>3, <1>4, <1>7, LoneTypes
<1>8. CASE (\E s \in BridgeComplete .. AwaitingResolution : Stopped(s)) /\ StoppedOnPolygon
  <2>1. \E s \in BridgeComplete .. AwaitingResolution : Stopped(s)'
    BY <1>4, <1>8, SameStatus
  <2>2. StoppedOnPolygon'
    <3>1. usdc' + usdce' + shares' = brought'[alone]
      <4>1. usdc + usdce + shares = brought[alone]
        BY <1>8 DEF StoppedOnPolygon
      <4> QED
        BY <1>2, <1>3, <1>4, <4>1, LoneTypes
    <3> QED
      BY <1>4, <1>8, <3>1 DEF StoppedOnPolygon, Transaction
  <2> QED
    BY <1>4, <1>5, <2>1, <2>2 DEF Place
<1>9. CASE Stopped(Redeeming) /\ StoppedCashing
  <2>1. StoppedCashing'
    BY <1>4, <1>7, <1>9 DEF StoppedCashing
  <2> QED
    BY <1>4, <1>5, <1>9, <2>1, SameStatus DEF Place
<1> QED
  BY <1>1, <1>6, <1>8, <1>9 DEF Place, AtStart, OnSolana, Leaving, Arriving, OnPolygon, OffBook,
     InPosition, Cashing, Returning, Returned, Quoted, StoppedSwapping, PaidOut, Redeemed

\* The calls of others and of the lone order itself, as far as the router alone
\* is concerned: its status is stored, its deadline passes, or it is refused.
LEMMA LoneIdles ==
  ASSUME TypeOK, CallOK, LoneInPlace, alone # NoId, ~Live(Cancelled), Idle
  PROVE  alone' = alone /\ (~Live(Cancelled)' => Others' /\ Place')
<1>1. Others /\ Place /\ UNCHANGED money /\ alone' = alone
  BY DEF LoneInPlace, Idle, money, history
<1>2. ASSUME memory' = memory, Now(alone)' = Now(alone),
             (phase = "payout") <=> (phase' = "payout")
      PROVE  Others' /\ Place'
  BY <1>1, <1>2, PlaceFrame DEF Others, money, chain, local, history
<1>3. CASE \E o \in Orders : Submit(o) \/ Advance(o) \/ DeadlinePasses(o)
  <2>1. memory' = memory /\ Now(alone)' = Now(alone) /\ ((phase = "payout") <=> (phase' = "payout"))
    BY <1>1, <1>3, StagesDiffer DEF Submit, Advance, DeadlinePasses, Goto, storeVars, callVars,
       Now, At
  <2> QED
    BY <1>1, <1>2, <2>1
<1>4. CASE Finish
  <2>1. /\ phase = "commit" /\ phase' = "idle" /\ cur \in Orders
        /\ IsActive(memory[cur].stage) /\ memory' = [memory EXCEPT ![cur] = ret]
    BY <1>4, ExecutorAssumption DEF Finish, Put, EndCall, TypeOK, CallOK
  <2>2. cur = alone
    BY <1>1, <2>1 DEF Others
  <2>3. Now(alone)' = ret
    BY <1>1, <2>1, <2>2 DEF Now, TypeOK, StoreTypeOK
  <2>4. CASE ret.stage = Cancelled
    BY <1>1, <2>3, <2>4 DEF Live
  <2>5. CASE ret.stage # Cancelled
    <3>1. Now(alone)' = Now(alone)
      BY <2>1, <2>2, <2>3, <2>5 DEF Now
    <3>2. Place'
      BY <1>1, <2>1, <3>1, PlaceFrame DEF money, chain, local, history
    <3>3. Others'
      BY <1>1, <2>1, <2>2 DEF Others, money, chain, TypeOK, StoreTypeOK
    <3> QED
      BY <1>1, <3>2, <3>3
  <2> QED
    BY <2>4, <2>5
<1> QED
  BY <1>3, <1>4 DEF Idle

\* An order that finds the wallets clean has them to itself.
LEMMA LoneBegins ==
  ASSUME TypeOK, CallOK, MoneyTypes, Fresh, CustodyInsert
  PROVE  LoneInPlace'
<1> USE StagesDiffer
<1>1. /\ phase = "insert" /\ phase' = "idle" /\ cur \in Orders /\ ret = At(Pending)
      /\ memory[cur].stage = NoOrder /\ memory' = [memory EXCEPT ![cur] = ret]
  BY ExecutorAssumption DEF CustodyInsert, Insert, Put, EndCall, TypeOK, CallOK
<1>2. SUFFICES ASSUME alone' # NoId PROVE Others' /\ Place'
  BY DEF LoneInPlace
<1>3. Active = {} /\ Clean /\ alone' = cur
  BY <1>2 DEF CustodyInsert
<1>4. brought[cur] = 0 /\ paid[cur] = 0
  BY <1>1 DEF Fresh
<1>5. UNCHANGED <<chain, brought, paid>>
  BY DEF CustodyInsert
<1>6. Now(alone)' = At(Pending)
  BY <1>1, <1>3 DEF Now, TypeOK, StoreTypeOK
<1>7. AtStart'
  BY <1>1, <1>3, <1>4, <1>5 DEF Clean, Nothing, AtStart, NoneOnItsWay, OffBook, chain
<1>8. Others'
  BY <1>1, <1>3, <1>5 DEF Active, Clean, Nothing, Others, chain, TypeOK, StoreTypeOK
<1>9. Live(Pending)'
  BY <1>6 DEF Live, At
<1> QED
  BY <1>7, <1>8, <1>9 DEF Place

\* A cancelled order stays cancelled.
LEMMA CancelledStays ==
  ASSUME TypeOK, CallOK, MoneyTypes, alone # NoId, Live(Cancelled), ~CustodyInsert,
         [CustodyNext]_<<vars, money>>
  PROVE  alone' = alone /\ Live(Cancelled)'
<1> USE StagesDiffer
<1>1. alone \in Orders /\ memory[alone].stage = Cancelled
  BY LoneTypes DEF Live, Now
<1>2. alone' = alone
  BY DEF CustodyNext, Idle, CustodyStep, Mine, Fill, Resolve, SwapDeposit, SeeSwap,
     BurnOnSolana, RelayToPolygon, SeeMint, PostOrder, AwaitFill, HoldPosition,
     RedeemPosition, ApproveBalance, SendBurn, BurnFails, AwaitBurn,
     RelayToSolana, SwapBack, PayUser, money, history
<1>3. memory'[alone] = memory[alone] /\ (phase' = "commit" => cur' # alone)
  <2>1. CASE RouterStepOfCustody
    <3>1. Step
      BY <2>1, CustodyStepIsStep
    <3>2. memory' = memory /\ cur' = cur /\ memory[cur].stage \in 1 .. 12
      BY <3>1, StepFrame
    <3> QED
      BY <1>1, <3>2
  <2>2. CASE Finish
    BY <1>1, <2>2 DEF Finish, Put, EndCall, TypeOK, StoreTypeOK, CallOK, IsActive
  <2>3. CASE \E o \in Orders : Submit(o) \/ Advance(o) \/ DeadlinePasses(o)
    BY <1>1, <2>3 DEF Submit, Advance, DeadlinePasses, Goto, storeVars, callVars, IsActive,
       CallOK
  <2>4. CASE vars' = vars
    BY <1>1, <2>4 DEF vars, CallOK, IsActive
  <2> QED
    BY <2>1, <2>2, <2>3, <2>4 DEF CustodyNext, CustodyStep, RouterStepOfCustody, Idle,
       SendBurn, Mine, Fill, Resolve
<1> QED
  BY <1>1, <1>2, <1>3 DEF Live, Now

\* A lone order's money stays in its place.
LEMMA LoneStaysInPlace ==
  ASSUME TypeOK, CallOK, MoneyTypes, Between, Unresolved, Fresh, LoneInPlace,
         [CustodyNext]_<<vars, money>>
  PROVE  LoneInPlace'
<1>1. CASE CustodyInsert
  BY <1>1, LoneBegins
<1>2. CASE ~CustodyInsert /\ alone = NoId
  <2>1. alone' = alone
    BY <1>2 DEF CustodyNext, Idle, CustodyStep, Mine, Fill, Resolve, SwapDeposit, SeeSwap,
       BurnOnSolana, RelayToPolygon, SeeMint, PostOrder, AwaitFill, HoldPosition,
       RedeemPosition, ApproveBalance, SendBurn, BurnFails, AwaitBurn,
       RelayToSolana, SwapBack, PayUser, money, history
  <2> QED
    BY <1>2, <2>1 DEF LoneInPlace
<1>3. CASE ~CustodyInsert /\ alone # NoId /\ Live(Cancelled)
  BY <1>3, CancelledStays DEF LoneInPlace
<1>4. CASE ~CustodyInsert /\ alone # NoId /\ ~Live(Cancelled)
  <2>1. Others /\ Place
    BY <1>4 DEF LoneInPlace
  <2>2. CASE Idle
    BY <1>4, <2>2, LoneIdles DEF LoneInPlace
  <2>3. CASE RouterStepOfCustody \/ SendBurn
    BY <1>4, <2>3, LoneGoesOut, LoneHolds, LoneApproves, LoneSendsBurn, LoneBurns, LoneComesBack
       DEF RouterStepOfCustody, LoneInPlace
  <2>4. CASE Mine
    BY <1>4, <2>1, <2>4, LoneMines, MinedByKind DEF LoneInPlace
  <2>5. CASE \E o \in Orders : Fill(o)
    BY <1>4, <2>1, <2>5, LoneFills DEF LoneInPlace
  <2>6. CASE Resolve \/ UNCHANGED <<vars, money>>
    <3>1. vars' = vars /\ alone' = alone
      BY <2>6 DEF Resolve, money, history
    <3>2. /\ usdc' = usdc /\ usdce' = usdce /\ shares' = shares /\ outbound' = outbound
          /\ inbound' = inbound /\ pending' = pending /\ book' = book /\ brought' = brought
          /\ paid' = paid /\ minted' = minted /\ cashed' = cashed /\ sol' = sol
          /\ allowance' = allowance /\ want' = want /\ burning' = burning /\ quote' = quote
      BY <2>6 DEF Resolve, money, chain, local, history
    <3>3. Others'
      BY <2>1, <3>1, <3>2, SameStatus DEF Others
    <3>4. Place'
      BY <2>1, <3>1, <3>2, SameStatus, PlaceFrame
    <3> QED
      BY <3>3, <3>4 DEF LoneInPlace
  <2> QED
    BY <1>4, <2>2, <2>3, <2>4, <2>5, <2>6 DEF CustodyNext, CustodyStep, RouterStepOfCustody
<1> QED
  BY <1>1, <1>2, <1>3, <1>4

----
(***************************************************************************)
(* The three properties of a lone order.                                   *)
(***************************************************************************)
\* From the first submission on: what holds of the wallets and of the lone
\* order's money holds in every state.
LEMMA AlwaysInPlace == CustodySpec => [](Fresh /\ Unresolved /\ LoneInPlace)
<1>1. CustodyInit => Fresh /\ Unresolved /\ LoneInPlace
  <2> SUFFICES ASSUME CustodyInit PROVE Fresh /\ Unresolved /\ LoneInPlace
    OBVIOUS
  <2>1. Fresh /\ LoneInPlace
    BY DEF CustodyInit, Fresh, LoneInPlace, Nothing
  <2>2. "redeem" \in Effects
    BY DEF Effects
  <2>3. Unresolved
    BY <2>2 DEF CustodyInit, Init, Unresolved
  <2> QED
    BY <2>1, <2>3
<1>2. TypeOK /\ CallOK /\ CustodyTypeOK /\ AllBacked /\ Fresh /\ Unresolved /\ LoneInPlace
        /\ [CustodyNext]_<<vars, money>> => Fresh' /\ Unresolved' /\ LoneInPlace'
  BY CustodyTypeOKParts, FreshStays, UnresolvedStays, LoneStaysInPlace
<1> QED
  BY <1>1, <1>2, ImplementsExecutor, TypeCorrect, AlwaysBacked, CustodyTypeCorrect, PTL
     DEF CustodySpec

\* The status an order has may be one behind the one its place is known by.
LEMMA SeenPlace ==
  ASSUME TypeOK, CallOK, LoneInPlace, NEW s \in Pending .. Failed, Lone(s)
  PROVE  /\ Others /\ Place
         /\ Live(s) \/ (s < Complete /\ (Live(s + 1) \/ Stopped(s)))
<1> USE StagesDiffer
<1>1. alone # NoId /\ memory[alone].stage = s
  BY DEF Lone
<1>2. CASE phase = "commit" /\ cur = alone /\ ret.stage # Cancelled
  <2>1. Now(alone) = ret /\ s \in 1 .. 12
    BY <1>1, <1>2 DEF Now, CallOK, IsActive
  <2>2. ret.stage = s \/ ret.stage = s + 1 \/ (ret.stage = Failed /\ ret.failedAt = s)
    BY <1>1, <1>2, EdgeCases DEF CallOK
  <2>3. Live(s) \/ Live(s + 1) \/ Stopped(s)
    BY <2>1, <2>2 DEF Live, Stopped
  <2>4. ~Live(Cancelled)
    BY <1>2, <2>1 DEF Live
  <2> QED
    BY <1>1, <2>1, <2>3, <2>4 DEF LoneInPlace
<1>3. CASE ~(phase = "commit" /\ cur = alone /\ ret.stage # Cancelled)
  <2>1. Now(alone) = memory[alone]
    BY <1>3 DEF Now
  <2>2. Live(s) /\ ~Live(Cancelled)
    BY <1>1, <2>1 DEF Live
  <2> QED
    BY <1>1, <2>2 DEF LoneInPlace
<1> QED
  BY <1>2, <1>3

\* The stage by which minted and cashed are known from the place.
LEMMA PlaceConfirms ==
  ASSUME Place
  PROVE  /\ \A t \in BridgeComplete .. Complete : Live(t) => alone \in minted
         /\ \A t \in BridgeComplete .. SettlementSwapping : Stopped(t) => alone \in minted
         /\ \A t \in SettlementBridging .. Complete : Live(t) => alone \in cashed
         /\ \A t \in SettlementBridging .. SettlementSwapping : Stopped(t) => alone \in cashed
<1> USE StagesDiffer
<1>1. \A t \in BridgeComplete .. Complete : Live(t) => alone \in minted
  BY DEF Place, Live, Stopped, OnPolygon, OnBook, InPosition, Cashing, Returning, Returned,
     Quoted, PaidOut, Redeemed
<1>2. \A t \in BridgeComplete .. SettlementSwapping : Stopped(t) => alone \in minted
  BY DEF Place, Live, Stopped, StoppedOnPolygon, StoppedCashing, Returning, StoppedSwapping,
     Redeemed
<1>3. \A t \in SettlementBridging .. Complete : Live(t) => alone \in cashed
  BY DEF Place, Live, Stopped, Returning, Returned, Quoted, PaidOut, Redeemed
<1>4. \A t \in SettlementBridging .. SettlementSwapping : Stopped(t) => alone \in cashed
  BY DEF Place, Live, Stopped, Returning, StoppedSwapping, Redeemed
<1> QED
  BY <1>1, <1>2, <1>3, <1>4

\* A lone order never takes an answer for another transaction's: a balance
\* above zero means its USDC was minted, a burn estimated that its redemption
\* was mined, though the router looks neither of them up.
THEOREM LoneBalancesConfirm == CustodySpec => []LoneConfirmed
<1>1. ASSUME TypeOK, CallOK, LoneInPlace PROVE LoneConfirmed
  <2> USE StagesDiffer
  <2>1. ASSUME NEW s \in BridgeComplete .. Complete, Lone(s) PROVE alone \in minted
    <3>1. Place /\ (Live(s) \/ (s < Complete /\ (Live(s + 1) \/ Stopped(s))))
      BY <1>1, <2>1, SeenPlace
    <3> QED
      BY <3>1, PlaceConfirms
  <2>2. ASSUME NEW s \in SettlementBridging .. Complete, Lone(s) PROVE alone \in cashed
    <3>1. Place /\ (Live(s) \/ (s < Complete /\ (Live(s + 1) \/ Stopped(s))))
      BY <1>1, <2>2, SeenPlace
    <3> QED
      BY <3>1, PlaceConfirms
  <2> QED
    BY <2>1, <2>2 DEF LoneConfirmed
<1> QED
  BY <1>1, ImplementsExecutor, TypeCorrect, AlwaysInPlace, PTL

\* A lone winner filled whole that completes was paid all its deposit was
\* worth and leaves nothing behind, whatever failed or was lost on its way.
THEOREM LoneIsPaidInFull == CustodySpec => []LonePaidInFull
<1>1. ASSUME TypeOK, CallOK, MoneyTypes, LoneInPlace, Lone(Complete), Whole
      PROVE  paid[alone] = brought[alone] /\ Clean
  <2> USE StagesDiffer
  <2>1. Others /\ Place /\ Live(Complete) /\ alone \in Orders
    BY <1>1, SeenPlace, LoneTypes DEF Lone
  <2>2. PaidOut
    BY <2>1 DEF Place, Live, Stopped
  <2>3. /\ usdc = 0 /\ usdce = 0 /\ shares = 0 /\ pending = <<>>
        /\ outbound[alone] = 0 /\ inbound[alone] = 0 /\ book[alone].state = "filled"
        /\ paid[alone] = brought[alone]
    BY <1>1, <2>2 DEF PaidOut, Redeemed
  <2>4. \A o \in Orders : outbound[o] = 0 /\ inbound[o] = 0 /\ book[o].state # "live"
    BY <2>1, <2>3 DEF Others
  <2>5. outbound = Nothing /\ inbound = Nothing
    BY <1>1, <2>4 DEF MoneyTypes, Nothing
  <2> QED
    BY <2>3, <2>4, <2>5 DEF Clean
<1>2. TypeOK /\ CallOK /\ CustodyTypeOK /\ LoneInPlace => LonePaidInFull
  BY <1>1, CustodyTypeOKParts DEF LonePaidInFull
<1> QED
  BY <1>2, ImplementsExecutor, TypeCorrect, CustodyTypeCorrect, AlwaysInPlace, PTL

\* The stage that a lone order's failure names is where all its money is and
\* stays, whatever of it is still mined or filled afterwards.
THEOREM LoneFailsWhereItSays == CustodySpec => []LoneFailedWhere
<1>1. ASSUME TypeOK, CallOK, MoneyTypes, LoneInPlace, Lone(Failed) PROVE LoneFailedWhere
  <2> USE StagesDiffer
  <2> DEFINE s == memory[alone].failedAt
  <2>1. Place /\ Live(Failed) /\ alone # NoId /\ memory[alone].stage = Failed
    BY <1>1, SeenPlace DEF Lone
  <2>2. Now(alone) = memory[alone]
    BY <1>1, <2>1 DEF Now, CallOK, IsActive
  <2>3. \A x \in 1 .. 13 : ~Live(x)
    BY <2>1 DEF Live
  <2>4. \A x : Stopped(x) <=> s = x
    BY <2>1, <2>2 DEF Stopped
  <2> HIDE DEF s
  <2>5. \/ s \in {Pending, SolanaSwapInProgress} /\ OnSolana
        \/ s = SolanaSwapComplete /\ Leaving
        \/ s \in {BridgePending, BridgeRelaying} /\ Arriving
        \/ s \in BridgeComplete .. AwaitingResolution /\ StoppedOnPolygon
        \/ s = Redeeming /\ StoppedCashing
        \/ s = SettlementBridging /\ Returning
        \/ s = SettlementSwapping /\ StoppedSwapping
    BY <2>1, <2>3, <2>4 DEF Place
  <2>6. CASE s \in {Pending, SolanaSwapInProgress} /\ OnSolana
    BY <2>6 DEF OnSolana, MoneyAt, LoneFailedWhere, s
  <2>7. CASE s = SolanaSwapComplete /\ Leaving
    BY <2>7 DEF Leaving, MoneyAt, LoneFailedWhere, s
  <2>8. CASE s \in {BridgePending, BridgeRelaying} /\ Arriving
    BY <2>8 DEF Arriving, MoneyAt, LoneFailedWhere, s
  <2>9. CASE s \in BridgeComplete .. AwaitingResolution /\ StoppedOnPolygon
    BY <2>9 DEF StoppedOnPolygon, MoneyAt, LoneFailedWhere, s
  <2>10. CASE s = Redeeming /\ StoppedCashing
    BY <2>10 DEF StoppedCashing, MoneyAt, LoneFailedWhere, s
  <2>11. CASE s = SettlementBridging /\ Returning
    <3>1. Whole => usdc + inbound[alone] = brought[alone]
      BY <1>1, <2>1, <2>11, LoneTypes DEF Returning, Redeemed
    <3> QED
      BY <2>11, <3>1 DEF MoneyAt, LoneFailedWhere, s
  <2>12. CASE s = SettlementSwapping /\ StoppedSwapping
    <3>1. Whole => /\ usdc + sol + paid[alone] <= Float + brought[alone]
                   /\ usdc + sol + paid[alone] + Slippage >= Float + brought[alone]
      BY <2>12 DEF StoppedSwapping
    <3>2. /\ usdc \in Nat /\ sol \in Nat /\ paid[alone] \in Nat /\ brought[alone] \in Nat
          /\ Float \in Nat /\ Slippage \in Nat
      BY <1>1, <2>1, LoneTypes, CustodyAssumption
    <3>3. MoneyAt(s) = usdc + sol + paid[alone]
      BY <2>12 DEF MoneyAt
    <3>4. Whole => MoneyAt(s) - Float \in brought[alone] - Slippage .. brought[alone]
      BY <3>1, <3>2, <3>3
    <3> QED
      BY <2>12, <3>4 DEF LoneFailedWhere, s
  <2> QED
    BY <2>5, <2>6, <2>7, <2>8, <2>9, <2>10, <2>11, <2>12
<1>2. TypeOK /\ CallOK /\ CustodyTypeOK /\ LoneInPlace => LoneFailedWhere
  BY <1>1, CustodyTypeOKParts DEF LoneFailedWhere
<1> QED
  BY <1>2, ImplementsExecutor, TypeCorrect, CustodyTypeCorrect, AlwaysInPlace, PTL

====
