---- MODULE Custody ----
(***************************************************************************)
(* The money behind Executor's steps: two wallets that pool the funds of   *)
(* all orders, what is on its way between the chains, the exchange's book  *)
(* and one market on which every order bets the same side.                 *)
(*                                                                         *)
(* Each action below is the action of Executor of the same name together   *)
(* with what it reads and moves; what Executor leaves open (a balance, a   *)
(* fill, a resolution) is decided here by the state of the chains.  So     *)
(* every behaviour is one of Executor's.  Prices are one to one.           *)
(***************************************************************************)
EXTENDS Executor, Sequences, FiniteSets, Functions

CONSTANTS
  Swaps,      \* the USDC the swap of a deposit may give
  MaxOrder,   \* max_order_usdc_micro
  Slippage,   \* how much less than its quote a settlement swap may give
  Float       \* SOL the executor's wallet holds of its own

ASSUME CustodyAssumption ==
  /\ Swaps \subseteq Nat \ {0}
  /\ MaxOrder \in Nat \ {0} /\ Slippage \in Nat /\ Float \in Nat

VARIABLES
  usdc,       \* USDC of the executor on Solana
  usdce,      \* USDC.e of the executor on Polygon
  sol,        \* SOL of the executor
  shares,     \* its positions on the market
  outbound,   \* per order, burnt on Solana and not minted on Polygon yet
  inbound,    \* per order, burnt on Polygon and not minted on Solana yet
  pending,    \* its transactions on Polygon that are not mined, by nonce
  allowance,  \* what the TokenMessenger may take of usdce
  book,       \* per order, its order on the exchange
  market,     \* "open", or which side "won"
  amount,     \* usdc_amount of SolanaSwapComplete
  want,       \* the balance step_redeeming read and has sent the approval of
  burning,    \* its burn is sent, the receipt awaited
  quote,      \* out_amount of the settlement swap
  brought,    \* per order, what its deposit was swapped to
  paid,       \* per order, what its user was paid
  minted,     \* orders whose USDC was minted on Polygon
  cashed,     \* orders whose redemption was mined
  alone       \* the last order, if the wallets have been its own all along

chain   == <<usdc, usdce, sol, shares, outbound, inbound, pending, allowance, book, market>>
local   == <<amount, want, burning, quote>>
history == <<brought, paid, minted, cashed, alone>>
money   == <<chain, local, history>>

Nothing  == [o \in Orders |-> 0]
NotOnBook == [state |-> "none", size |-> 0, filled |-> 0]

CustodyInit ==
  /\ Init
  /\ usdc = 0 /\ usdce = 0 /\ sol = Float /\ shares = 0
  /\ outbound = Nothing /\ inbound = Nothing
  /\ pending = <<>> /\ allowance = 0
  /\ book = [o \in Orders |-> NotOnBook] /\ market = "open"
  /\ amount = Nothing /\ want = 0 /\ burning = FALSE /\ quote = 0
  /\ brought = Nothing /\ paid = Nothing
  /\ minted = {} /\ cashed = {} /\ alone = NoId

----
(***************************************************************************)
(* Callers.  Orders are submitted and advanced one call at a time, in any  *)
(* order, which includes the passes of run_once and run_loop.              *)
(***************************************************************************)
Active == {o \in Orders : IsActive(memory[o].stage)}

\* No money is left anywhere, and nothing is on its way.
Clean == /\ usdc = 0 /\ usdce = 0 /\ shares = 0 /\ pending = <<>>
         /\ outbound = Nothing /\ inbound = Nothing
         /\ \A o \in Orders : book[o].state # "live"

CustodyInsert ==
  /\ Insert
  /\ alone' = IF Active = {} /\ Clean THEN cur ELSE NoId
  /\ UNCHANGED <<chain, local, brought, paid, minted, cashed>>

Idle == /\ \/ \E o \in Orders : Submit(o) \/ Advance(o) \/ DeadlinePasses(o)
           \/ Finish
        /\ UNCHANGED money

----
(***************************************************************************)
(* The chains and the exchange.                                            *)
(***************************************************************************)
Send(kind, n) == pending' = Append(pending, [kind |-> kind, order |-> cur, size |-> n])

\* The executor's transactions on Polygon are mined in the order of their nonces.
MineMint(o, n) ==
  /\ usdce' = usdce + n /\ outbound' = [outbound EXCEPT ![o] = 0]
  /\ minted' = minted \cup {o}
  /\ UNCHANGED <<shares, inbound, allowance, cashed>>

\* redeemPositions pays for every position of the side, whoever it was bought for.
MineRedeem(o) ==
  /\ usdce' = usdce + shares /\ shares' = 0
  /\ cashed' = cashed \cup {o}
  /\ UNCHANGED <<outbound, inbound, allowance, minted>>

MineApprove(n) ==
  /\ allowance' = n
  /\ UNCHANGED <<usdce, shares, outbound, inbound, minted, cashed>>

MineBurn(o, n) ==
  /\ IF n <= usdce /\ n <= allowance
     THEN /\ usdce' = usdce - n /\ allowance' = allowance - n
          /\ inbound' = [inbound EXCEPT ![o] = @ + n]
     ELSE UNCHANGED <<usdce, allowance, inbound>>
  /\ UNCHANGED <<shares, outbound, minted, cashed>>

Mine ==
  /\ pending # <<>> /\ pending' = Tail(pending)
  /\ LET tx == Head(pending)
     IN  CASE tx.kind = "mint"    -> MineMint(tx.order, tx.size)
           [] tx.kind = "redeem"  -> MineRedeem(tx.order)
           [] tx.kind = "approve" -> MineApprove(tx.size)
           [] tx.kind = "burn"    -> MineBurn(tx.order, tx.size)
  /\ UNCHANGED <<vars, usdc, sol, book, market, local, brought, paid, alone>>

\* A market order takes what it finds, if the wallet can pay for it.
Fill(o) ==
  /\ book[o].state = "live" /\ market = "open"
  /\ \E n \in 1..book[o].size :
       /\ n <= usdce
       /\ usdce' = usdce - n /\ shares' = shares + n
       /\ book' = [book EXCEPT ![o].state = "filled", ![o].filled = n]
  /\ UNCHANGED <<vars, usdc, sol, outbound, inbound, pending, allowance, market,
                 local, history>>

Resolve ==
  /\ market = "open" /\ market' \in {"won", "lost"}
  /\ UNCHANGED <<vars, usdc, usdce, sol, shares, outbound, inbound, pending,
                 allowance, book, local, history>>

----
(***************************************************************************)
(* The steps.  A transaction on Solana whose answer is lost has landed, or *)
(* never will; one on Polygon is pending until it is mined.                *)
(***************************************************************************)
Made(e) == sent'[cur][e] > sent[cur][e]

Chose(s) == ret'.stage = s

SwapDeposit ==
  /\ StepPending
  /\ IF Made("swap")
     THEN \E n \in Swaps : usdc' = usdc + n /\ brought' = [brought EXCEPT ![cur] = n]
     ELSE UNCHANGED <<usdc, brought>>
  /\ UNCHANGED <<usdce, sol, shares, outbound, inbound, pending, allowance, book, market,
                 local, paid, minted, cashed, alone>>

\* Any balance is taken for the result of this order's swap.
SeeSwap ==
  /\ StepSolanaSwapInProgress
  /\ Chose(SolanaSwapComplete) => usdc > 0
  /\ Chose(SolanaSwapInProgress) => usdc = 0
  /\ amount' = IF Chose(SolanaSwapComplete)
               THEN [amount EXCEPT ![cur] = IF usdc < MaxOrder THEN usdc ELSE MaxOrder]
               ELSE amount
  /\ UNCHANGED <<chain, want, burning, quote, history>>

BurnOnSolana ==
  /\ StepSolanaSwapComplete
  /\ IF Made("burn")
     THEN /\ amount[cur] <= usdc
          /\ usdc' = usdc - amount[cur] /\ outbound' = [outbound EXCEPT ![cur] = amount[cur]]
     ELSE UNCHANGED <<usdc, outbound>>
  /\ UNCHANGED <<usdce, sol, shares, inbound, pending, allowance, book, market,
                 local, history>>

RelayToPolygon ==
  /\ StepBridgePending
  /\ IF Made("relay") THEN Send("mint", outbound[cur]) ELSE UNCHANGED pending
  /\ UNCHANGED <<usdc, usdce, sol, shares, outbound, inbound, allowance, book, market,
                 local, history>>

\* Fault: the amount burnt is taken for the balance, which is not read.
SeeMintUnread ==
  /\ StepBridgeRelaying
  /\ Chose(BridgeComplete) => ret'.usdc = amount[cur]
  /\ UNCHANGED money

\* Any balance is taken for the USDC minted for this order, and all of it.
SeeMint ==
  /\ StepBridgeRelaying
  /\ Chose(BridgeComplete) => ret'.usdc = usdce
  /\ Chose(BridgeRelaying) => usdce = 0
  /\ UNCHANGED money

\* The exchange accepts what the wallet can pay at that moment; orders that
\* are live do not count.
PostOrder ==
  /\ StepBridgeComplete
  /\ IF Made("post")
     THEN /\ market = "open" /\ memory[cur].usdc <= usdce
          /\ book' = [book EXCEPT ![cur] = [state |-> "live", size |-> memory[cur].usdc, filled |-> 0]]
     ELSE UNCHANGED book
  /\ UNCHANGED <<usdc, usdce, sol, shares, outbound, inbound, pending, allowance, market,
                 local, history>>

\* wait_for_fill: a poll that fails leaves the order live; at the time limit
\* it is cancelled, unless that call fails too or the order is filled by then.
AwaitFill ==
  /\ StepPolyOrderPosted
  /\ \/ book[cur].state = "filled" /\ UNCHANGED book
     \/ book[cur].state = "live" /\ Chose(Failed) /\ UNCHANGED book
     \/ /\ book[cur].state = "live" /\ Made("cancel")
        /\ book' = [book EXCEPT ![cur].state = "cancelled"]
  /\ UNCHANGED <<usdc, usdce, sol, shares, outbound, inbound, pending, allowance, market,
                 local, history>>

HoldPosition == StepPolymarketFilled /\ UNCHANGED money

RedeemPosition ==
  /\ StepAwaitingResolution
  /\ Chose(AwaitingResolution) => market = "open"
  /\ ret'.reason = "lost" => market = "lost"
  /\ IF Made("redeem") THEN market = "won" /\ Send("redeem", 0) ELSE UNCHANGED pending
  /\ UNCHANGED <<usdc, usdce, sol, shares, outbound, inbound, allowance, book, market,
                 local, history>>

(***************************************************************************)
(* step_redeeming reads the balance, whoever's it is, sends an approval of *)
(* it and, without waiting, the burn, whose receipt it awaits.             *)
(***************************************************************************)
\* Nothing has arrived, a call fails (the approval may be sent even so), or the
\* burn is next.
ApproveBalance ==
  /\ StepRedeeming
  /\ Chose(Redeeming) => usdce = 0
  /\ IF Made("approve") THEN usdce > 0 /\ Send("approve", usdce) ELSE UNCHANGED pending
  /\ want' = IF phase' = "burn" THEN usdce ELSE 0
  /\ UNCHANGED <<usdc, usdce, sol, shares, outbound, inbound, allowance, book, market,
                 amount, burning, quote, history>>

\* The gas of the burn is estimated on the latest block.
BurnEstimated == want <= allowance /\ want <= usdce

SendBurn ==
  /\ phase = "burn" /\ ~burning /\ BurnEstimated
  /\ burning' = TRUE /\ Send("burn", want)
  /\ UNCHANGED <<vars, usdc, usdce, sol, shares, outbound, inbound, allowance, book, market,
                 amount, want, quote, history>>

\* The estimate fails, or a call does (the burn may be sent even so).
BurnFails ==
  /\ ReturnBurn /\ ~burning /\ Chose(Failed)
  /\ IF Made("returnBurn") THEN BurnEstimated /\ Send("burn", want) ELSE UNCHANGED pending
  /\ want' = 0
  /\ UNCHANGED <<usdc, usdce, sol, shares, outbound, inbound, allowance, book, market,
                 amount, burning, quote, history>>

BurnPending == \E i \in DOMAIN pending : pending[i].kind = "burn" /\ pending[i].order = cur

\* A receipt is a success, also one that says the transaction reverted.
AwaitBurn ==
  /\ ReturnBurn /\ burning /\ Made("returnBurn")
  /\ Chose(SettlementBridging) => ~BurnPending
  /\ want' = 0 /\ burning' = FALSE
  /\ UNCHANGED <<chain, amount, quote, history>>

RelayToSolana ==
  /\ StepSettlementBridging
  /\ IF Made("returnRelay")
     THEN /\ inbound[cur] > 0
          /\ usdc' = usdc + inbound[cur] /\ inbound' = [inbound EXCEPT ![cur] = 0]
     ELSE UNCHANGED <<usdc, inbound>>
  /\ UNCHANGED <<usdce, sol, shares, outbound, pending, allowance, book, market,
                 local, history>>

\* Fault: only what the order brought to Polygon is swapped back.
SwapBackBurnt ==
  /\ StepSettlementSwapping
  /\ quote' = IF Chose(Failed) THEN 0 ELSE amount[cur]
  /\ IF Made("settleSwap")
     THEN /\ amount[cur] <= usdc /\ usdc' = usdc - amount[cur]
          /\ \E less \in 0..Slippage : less <= amount[cur] /\ sol' = sol + amount[cur] - less
     ELSE UNCHANGED <<usdc, sol>>
  /\ UNCHANGED <<usdce, shares, outbound, inbound, pending, allowance, book, market,
                 amount, want, burning, history>>

\* The whole balance is swapped; the payout will be the amount quoted for it.
SwapBack ==
  /\ StepSettlementSwapping
  /\ quote' = IF Chose(Failed) THEN 0 ELSE usdc
  /\ IF Made("settleSwap")
     THEN /\ usdc > 0 /\ usdc' = 0
          /\ \E less \in 0..Slippage : less <= usdc /\ sol' = sol + usdc - less
     ELSE UNCHANGED <<usdc, sol>>
  /\ UNCHANGED <<usdce, shares, outbound, inbound, pending, allowance, book, market,
                 amount, want, burning, history>>

PayUser ==
  /\ TransferSol
  /\ IF Made("payout")
     THEN /\ quote <= sol /\ sol' = sol - quote
          /\ paid' = [paid EXCEPT ![cur] = @ + quote]
     ELSE UNCHANGED <<sol, paid>>
  /\ quote' = 0
  /\ UNCHANGED <<usdc, usdce, shares, outbound, inbound, pending, allowance, book, market,
                 amount, want, burning, brought, minted, cashed, alone>>

----
CustodyStep ==
  \/ SwapDeposit \/ SeeSwap \/ BurnOnSolana \/ RelayToPolygon \/ SeeMint
  \/ PostOrder \/ AwaitFill \/ HoldPosition \/ RedeemPosition
  \/ ApproveBalance \/ SendBurn \/ BurnFails \/ AwaitBurn
  \/ RelayToSolana \/ SwapBack \/ PayUser

CustodyNext ==
  \/ CustodyInsert \/ Idle \/ CustodyStep
  \/ Mine \/ (\E o \in Orders : Fill(o)) \/ Resolve

CustodySpec == CustodyInit /\ [][CustodyNext]_<<vars, money>>

----
Kinds == {"mint", "redeem", "approve", "burn"}

CustodyTypeOK ==
  /\ TypeOK
  /\ {usdc, usdce, sol, shares, allowance, want, quote} \subseteq Nat
  /\ {outbound, inbound, amount, brought, paid} \subseteq [Orders -> Nat]
  /\ pending \in Seq([kind : Kinds, order : Orders, size : Nat])
  /\ book \in [Orders -> [state : {"none", "live", "filled", "cancelled"},
                         size : Nat, filled : Nat]]
  /\ market \in {"open", "won", "lost"}
  /\ burning \in BOOLEAN /\ (burning => phase = "burn")
  /\ (want > 0 <=> phase = "burn") /\ (quote > 0 => phase = "payout")
  /\ minted \subseteq Orders /\ cashed \subseteq Orders /\ alone \in Orders \cup {NoId}

\* The payout is the quote of the settlement swap, not what the swap gave, so
\* the executor's own SOL makes up the slippage; it never gives more than
\* that: whatever orders share the wallets, and whichever of their calls fail
\* or lose their answers, nobody is paid twice or for a swap not made.
PaysWithinSlippage ==
  sol + Slippage * Cardinality({o \in Orders : sent[o]["settleSwap"] > 0}) >= Float + quote

\* The orders the exchange accepted and the router counted.
Counted == {o \in Orders : /\ book[o].state # "none" /\ memory[o].stage # BridgeComplete
                           /\ memory[o].failedAt # BridgeComplete}

\* Within one window the daily volume cap holds on the exchange, and not only
\* for the router's own counter: what the exchange has accepted of all orders,
\* be they filled, cancelled or failed since, is within the cap, though every
\* amount was a balance of the pooled wallet.  The one exception is an order
\* whose acceptance was lost, which is Failed in BridgeComplete.
PostedWithinCap ==
  Cap > 0 => SumFunctionOnSet([o \in Orders |-> book[o].size], Counted) <= Cap

(***************************************************************************)
(* The order that has had the wallets to itself since it was submitted.    *)
(* The balances it reads can only be its own, so what the steps conclude   *)
(* from them must be right.  An order filled in part leaves USDC.e behind, *)
(* which step_redeeming takes for the redemption and bridges back alone:   *)
(* only an order filled whole takes all its money along to the end.        *)
(***************************************************************************)
Lone(s) == alone # NoId /\ memory[alone].stage = s

Whole == book[alone].filled = book[alone].size

\* A balance above zero is a confirmation after all when an order is alone: it
\* is BridgeComplete only once its USDC was minted on Polygon, and bridges
\* back only once its redemption was mined, though neither transaction is
\* ever looked up and any of them may still be pending.  What an order filled
\* in part left behind confirms nothing: there the nonces save it, by which
\* the redemption is mined before the approval the burn needs.
LoneConfirmed ==
  /\ \A s \in BridgeComplete .. Complete : Lone(s) => alone \in minted
  /\ \A s \in SettlementBridging .. Complete : Lone(s) => alone \in cashed

\* A lone winner that completes is paid all its deposit was worth, at prices
\* of one to one, and leaves nothing behind, on either chain or between them:
\* neither the part of the swap above max_order_usdc_micro nor its position.
LonePaidInFull ==
  Lone(Complete) /\ Whole =>
    /\ paid[alone] = brought[alone]
    /\ Clean

\* Where the money of an order that stopped at s is.
MoneyAt(s) ==
  CASE s \in {Pending, SolanaSwapInProgress} -> usdc
    [] s = SolanaSwapComplete                -> usdc + outbound[alone]
    [] s \in {BridgePending, BridgeRelaying} -> usdc + outbound[alone] + usdce
    [] s \in BridgeComplete .. AwaitingResolution -> usdc + usdce + shares
    [] s = Redeeming                         -> usdc + usdce + shares + inbound[alone]
    [] s = SettlementBridging                -> usdc + inbound[alone]
    [] s = SettlementSwapping                -> usdc + sol + paid[alone]

\* The stage a Failed order names is where all its money is and stays, though
\* a transaction whose answer was lost may still be mined, a burn may revert
\* unseen and an order be filled while it is being cancelled.
LoneFailedWhere ==
  Lone(Failed) =>
    LET s == memory[alone].failedAt
    IN  IF s = SettlementSwapping
        THEN Whole => MoneyAt(s) - Float \in brought[alone] - Slippage .. brought[alone]
        ELSE s # SettlementBridging \/ Whole => MoneyAt(s) = brought[alone]

====
