---- MODULE OrderStatus ----
(***************************************************************************)
(* The status of one trade, and what the router does at each stage of it.  *)
(* Stages are numbered in the order the enum OrderStatus declares them, so *)
(* that "earlier stage" is <; zero stands for an order the store does not  *)
(* hold.                                                                   *)
(***************************************************************************)
EXTENDS Naturals

NoOrder               == 0
Pending               == 1
SolanaSwapInProgress  == 2
SolanaSwapComplete    == 3
BridgePending         == 4
BridgeRelaying        == 5
BridgeComplete        == 6
PolymarketOrderPosted == 7
PolymarketFilled      == 8
AwaitingResolution    == 9
Redeeming             == 10
SettlementBridging    == 11
SettlementSwapping    == 12
Complete              == 13
Failed                == 14
Cancelled             == 15

Stages == NoOrder .. Cancelled

(***************************************************************************)
(* Of the data a status carries, the model keeps the amount to be posted   *)
(* (BridgeComplete) and where and why an order failed.  Hashes, signatures *)
(* and message bytes are abstracted: no property here tells them apart.    *)
(***************************************************************************)
Reasons == {"none", "call", "market", "cap", "lost"}

StatusSet(Amounts) ==
  [stage : Stages, usdc : Amounts \cup {0}, failedAt : Stages, reason : Reasons]

At(s) == [stage |-> s, usdc |-> 0, failedAt |-> NoOrder, reason |-> "none"]

Bridged(n) ==
  [stage |-> BridgeComplete, usdc |-> n, failedAt |-> NoOrder, reason |-> "none"]

FailedIn(s, why) ==
  [stage |-> Failed, usdc |-> 0, failedAt |-> s, reason |-> why]

IsTerminal(s) == s \in {Complete, Failed, Cancelled}

IsActive(s) == s \in Pending .. SettlementSwapping

\* Fault: the deadline check forgets that Redeeming is exempt.
ExpiryExemptNotRedeeming(s) ==
  s \in {AwaitingResolution, SettlementBridging, SettlementSwapping}

\* The stages that the deadline check of advance() exempts.
ExpiryExempt(s) ==
  s \in {AwaitingResolution, Redeeming, SettlementBridging, SettlementSwapping}

(***************************************************************************)
(* The calls that move money or change a remote system, and the stage      *)
(* whose step makes each of them.  Two steps make two of them in a row: an *)
(* approval and the burn it is for, a swap and the payout of its proceeds. *)
(***************************************************************************)
Effects == {"swap", "burn", "relay", "post", "cancel", "redeem", "approve",
            "returnBurn", "returnRelay", "settleSwap", "payout"}

\* The exchange is asked to cancel only what it has not filled in time: an
\* order passes its stages with every effect but this one.
Needed == Effects \ {"cancel"}

SentIn(e) == CASE e = "swap"        -> Pending
               [] e = "burn"        -> SolanaSwapComplete
               [] e = "relay"       -> BridgePending
               [] e = "post"        -> BridgeComplete
               [] e = "cancel"      -> PolymarketOrderPosted
               [] e = "redeem"      -> AwaitingResolution
               [] e = "approve"     -> Redeeming
               [] e = "returnBurn"  -> Redeeming
               [] e = "returnRelay" -> SettlementBridging
               [] e = "settleSwap"  -> SettlementSwapping
               [] e = "payout"      -> SettlementSwapping

\* The second call of a step that makes two, and the first one.
SecondCalls == {"returnBurn", "payout"}

FirstCall(e) == IF e = "returnBurn" THEN "approve" ELSE "settleSwap"

\* d is sent before e on the way of one order through its stages.
Precedes(d, e) ==
  /\ d \in Needed
  /\ SentIn(d) < SentIn(e) \/ (e \in SecondCalls /\ d = FirstCall(e))

====
