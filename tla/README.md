# A TLA+ verification of pump-poly-router

`pump-poly-router` takes a bet on Polymarket from a Solana wallet and back: it
swaps the user's token to USDC, bridges it to Polygon with Circle's CCTP, buys
a position on the CLOB, waits for the market, redeems, bridges back, swaps to
SOL and pays the user. One process, `TradeRouter`, drives every order through
this sequence and keeps the orders in a JSON file. The modules here model that
process, its store, its EVM wallets and the messages of its bridge; TLC checks
them on small instances, and TLAPS proves the central properties for every
instance. Source paths are those of the repository's root; `executor.rs` and
the like stand for `src/src/executor.rs`.

## 1. The system

| Component | State | Operations | Interacts with |
|---|---|---|---|
| `TradeRouter` (`executor.rs`) | consecutive failures, volume of the window and its start | `submit_intent`, `advance`, `run_once`, `run_loop` | every client below, by awaited calls; the store |
| Orders (`types.rs`) | one `OrderStatus` per order, with what the stage needs to resume | `set_status`, `is_expired`, `is_terminal` | held by the store |
| `OrderStore` (`store.rs`) | map in memory, JSON snapshot on disk | `insert`, `update`, `pending_ids`, `with_persistence` | called by the router, before and after a step |
| `EvmWallet` (`evm/signer.rs`) | a lock; the nonce is the node's | `send_transaction`, `wait_for_receipt` | Polygon node; owned by two clients with the same key |
| CCTP clients (`bridge/cctp.rs`) | none | burn and receive, on each side | Solana RPC, an `EvmWallet` |
| Attestation client (`bridge/attestation.rs`) | none | `get_attestation` | Circle's service |
| CLOB client (`polymarket/order.rs`) | none | `post_order`, `wait_for_fill` (polls, then cancels) | Polymarket's CLOB |
| Resolver, settlement (`polymarket/`) | none / a wallet | `is_resolved`; `redeem_positions`, `usdc_balance` | Polygon node |
| Jupiter, SPL (`solana/`) | none | quote, swap; `token_balance` | Jupiter, Solana RPC |
| Configuration, errors, example | none | read once | - |

What is hard here, and what makes each part correct:

* **Crashes.** A step's effect and the write of the status that records it are
  two things (`executor.rs:152-170`). How often can an effect repeat, can an
  order skip one, does a final status stay final, does a deadline ever cancel
  what has been redeemed?
* **Partial failure.** Every error but a lost process makes an order `Failed`;
  an error may come after the effect. Is the stage that `Failed` names the
  place where the money stopped? A failed write of the snapshot leaves memory
  ahead of the file; a torn one leaves no file.
* **Shared state of several orders.** One failure counter, one volume window,
  one snapshot file, two wallets of pooled funds. Does the cap hold, does the
  breaker stop everything, can one order keep the others waiting?
* **Pooled money.** A step reads "the balance", whoever's it is, while
  transactions of earlier steps are still pending. When is a balance a
  confirmation, who is paid from what, and where is the money of an order that
  failed?
* **Nonces.** Two objects with one key, each with its own lock.
* **Bytes.** The bridge, the redemption and every transaction on Polygon work
  only if messages, arguments and RLP are found, hashed and encoded exactly.

All hazards, each at its line and with the properties that watch it, are under
`hazards` in `PROJECT.json`.

## 2. The modules

```
OrderStatus   stages, status, which stage makes which effect
  |- Lifecycle      abstract: live and saved stage of every order
  |    `- LifecycleProofs
  `- OrderStore     memory, snapshot, failing writes, loss of the process
       `- Executor  the router (INSTANCE Lifecycle as L)
            |- MCExecutor
            |- DailyVolume   the cap, seen from the exchange
            |    `- MCDailyVolume
            |- ExecutorProofs
            `- Custody   the router with the money: wallets, chains, exchange
                 |- MCCustody
                 `- CustodyProofs   (extends ExecutorProofs too)
                      |- SumProofs         (sums over orders; extends DailyVolume too)
                      `- CustodyLoneProofs
EvmWallet           send_transaction   |- MCEvmWallet   `- EvmWalletProofs
Abi                 words, the four calls, how contracts read arguments
  `- RawTransaction   RLP and EIP-155, and the node that takes them apart
       `- CctpTransfer  one bridge transfer, from the bytes
            |- TransferProofs
            `- Redemption  resolution, redemption and burn in front of it
                 |- MCCctpTransfer
                 `- RedemptionProofs   (extends TransferProofs too)
```

### OrderStatus, Lifecycle

Stages are the numbers 1 to 15 in the order of the enum (`types.rs:43-63`), 0 is
an order the store has not got. A status keeps the amount of `BridgeComplete`
and the stage and a reason of `Failed`; hashes, signatures and message bytes are
dropped. `Effects` are the eleven calls that move money or change a remote
system, and `SentIn` says whose step makes each. One is made only when an order is
not filled in time, the cancellation; the others are `Needed`. Two steps make two
calls in a row, an approval and the burn it is for (`cctp.rs:415`, `:444`), a swap
and the payout of its proceeds: `SecondCalls` and `FirstCall` name them.

`Lifecycle` is the promise: `live`, the stage the process works with, moves
along the diagram of `executor.rs:8-21`, `saved`, what a restart would find,
follows, and losing the process takes `live` back to `saved`.

### OrderStore, Executor

| Model | Code |
|---|---|
| `memory`, `disk`, `torn` | the `HashMap`; the file's last complete contents; the file is truncated |
| `Put` with `FlushOk` or `FlushFails` | `insert`, `update`: the map first, then `flush()`, which may fail |
| `StoreCrash`, `WithPersistence` | the process is lost; the file is opened again |
| `failures`, `volume`, `windowOver` | `consecutive_failures`, `daily_volume_usdc`, whether 24 hours are over |
| `mode`, `todo` | the caller is inside `run_once` or `run_loop`; the ids it has still to advance |
| `phase`, `cur`, `ret` | where the one call in flight stands, for which order, what it will store |
| `expired` | the orders whose deadline is over; it grows at any moment |
| `sent` | how often each effect may have reached the outside (not in the code: it is what the properties speak of) |
| `Submit`, `Insert` | `submit_intent`: the duplicate check; then the insert |
| `StartOnce`, `StartLoop`, `EndPass` | the beginning and the end of a pass |
| `Advance` | `advance` up to the step: breaker, terminal, deadline, in this order |
| `StepPending` ... `StepSettlementSwapping`, `TransferSol` | the stage functions; two stages have two effects and so two actions, `ReturnBurn` the second of `StepRedeeming` |
| `Finish` | the rest of `advance`: store, count |

`advance` takes `&mut self` across its awaits, so there is at most one call in
flight; everything else that may happen meanwhile (the clock, a crash) is an
action of its own. A call with an effect has three outcomes (`CallOut`): it
failed before it was made, it was made and its answer was lost, it succeeded.
Balances, attestations, fills and resolutions are free choices. A crash may
come in any state, so also between an effect and the write, and inside a write.
The `unwrap` of a missing attestation (`executor.rs:349`, `:541`) panics, which
is a crash as well. An order's whitelisting is a constant, because its market
and the list are.

`DailyVolume` adds to every step of `Executor` two history variables: `posted`, what
the exchange may have been given since the window was last started anew, answer or
no answer, and `slips`, how often the router's count fell behind that, by a crash or
by a post whose answer was lost.

### EvmWallet

One action per request of `send_transaction`; `queue` is the tokio mutex, which
is fair. The node is external: `pool` holds the call that has each nonce; a
transaction of a nonce that is taken but not mined replaces the earlier one or
is rejected, as gas prices have it. The node's count of pending transactions is
taken to be exact, which a node behind a load balancer may not be.

### Custody

`Executor` lets balances, fills and resolutions be anything. `Custody` extends it
with what decides them: every stage's action is the action of `Executor`
conjoined with what it reads and moves.

| Model | Code, or what it stands for |
|---|---|
| `usdc`, `sol`; `usdce`, `shares` | the executor's wallets on Solana and Polygon, one each for all orders |
| `outbound`, `inbound` | USDC burnt on one side and not yet minted on the other |
| `pending`, `Mine` | transactions sent on Polygon, mined later, in the order of their nonces; a burn may revert |
| `book`, `Fill`, `market`, `Resolve` | the exchange and the market (external) |
| `SwapDeposit`, `SeeSwap`, `BurnOnSolana`, `RelayToPolygon`, `SeeMint` | the way out: `SeeSwap` cuts the amount to `max_order_usdc_micro`, `SeeMint` takes the whole balance |
| `PostOrder`, `AwaitFill` | `post_order`; `wait_for_fill`, whose cancellation at the time limit may come after a fill or fail itself |
| `RedeemPosition` | `redeem_positions`, sent and not awaited |
| `ApproveBalance`, `SendBurn`, `BurnFails`, `AwaitBurn` | `step_redeeming` in the order of its requests: balance, approval (not awaited), gas estimate and burn, receipt (its status not looked at) |
| `RelayToSolana`, `SwapBack`, `PayUser` | the way back; the payout is the quote of the swap |
| `amount`, `want`, `burning`, `quote` | `usdc_amount` of `SolanaSwapComplete`, and what a step holds in local variables |
| `brought`, `paid`, `minted`, `cashed`, `alone` | history the properties speak of |

Taken for granted: a transaction on Solana whose answer is lost has landed by
then, or never will; one sender's transactions on Polygon are mined by nonce and
none is displaced (`EvmWallet` shows when they are); gas is estimated on the
latest block; the CLOB's key and the executor's are one; the exchange accepts
what the wallet can pay at that moment, while the market is open, fills it whole
or in part and drops the rest; prices are one to one, slippage of the settlement
swap apart; all orders bet the same side of one market. There are no crashes
and there is no file here: what those do is `Executor`'s subject, and
`ImplementsExecutor` ties the two together.

### Abi, RawTransaction, CctpTransfer, Redemption

Bytes are numbers in sequences. `Abi` has the encoders of `receiveMessage`,
`approve`, `depositForBurn` and `redeemPositions`, and the contracts' decoders
(external). `RawTransaction` has `sign_transaction`: the RLP encoder with the
stripping of zeros, the EIP-155 payload and `v`; and the node, which accepts
canonical encodings only and rebuilds the payload. A signature stands for the
bytes it signs; keccak-256 is injective.

`CctpTransfer` is one transfer, either way: the event among other programs'
events, the two parsers, the attestation lookup by hash, the calldata for
Polygon, sent as a raw transaction, and the instruction data for Solana. The
logs of a Solana transaction may be missing or cut short; a receipt may never
come; a burn on Polygon may have been reverted, which nobody looks at.
`Redemption` puts in front of the return leg what `step_awaiting_resolution` and
`step_redeeming` do: the resolution event is looked up and decoded
(`DecodePayoutNumerators`), the index set chosen, and three transactions sent,
each looked at where the contract has read its arguments.

Because of the finding on the return message in 3, the return leg never reaches
its receive step in this model (`NoTransferReturns` proves it), and what
`RelayedIsEmitted` says, it says of the way out. The encoder of the receive step
on Solana is right by itself: lemma `BorshIsRead` of `TransferProofs`. `Executor` and
`Custody` do not depend on this: there the attestation may come or not.

## 3. The runs

Passing runs:

| Run | Instance | States | Shows |
|---|---|---|---|
| `lifecycle` | 2 orders | 16,641 | the abstract promise: `SavedIsPast`, `SavedForward` |
| `executor_pair` | 2 orders, 1 crash, cap 3, threshold 1, balances 1..2 | 5,470,844 | two orders interleaved through one router: `PostedPerSlip`, `BreakerHalts`, `BreakerTraps`, `EffectBound`, `OneRepeatPerCrash` |
| `executor_crash` | 1 order, 3 crashes | 89,586 | `EffectBound`, `OneRepeatPerCrash`, `EffectsInOrder`, `FailureStageExact`, `CancelSparesRedeemed`, `FinalIsFinal` |
| `executor_disk` | 1 order, 1 crash, failing and torn writes | 557,947 | which of these survive a disk that fails, `AckedSurvive`, and that the router still implements `Lifecycle` |
| `executor_live` | 2 orders, one not whitelisted, cap 1, threshold 2, no file | 208,176 | `LoopDrains` |
| `evm_wallet` | 3 callers, 2 wallet objects, 2 calls each | 826,993 | `LockProtects`, `CallsReturn` |
| `cctp_transfer` | 7 message lengths, 4 other events, 8 envelopes, 2 markets, 3 resolutions, 4 replies | 6,260 | `RelayedIsEmitted`, `OutboundExact` of the bridge; `RedeemsTheWin`, `BurnsTheBalance` of the way back |
| `custody` | 2 orders, swaps of 1 or 3, at most 2 bridged, cap 6, slippage 1 | 3,218,747 | `PaysWithinSlippage`, `PostedWithinCap` whatever orders share the wallets; `LoneConfirmed`, `LonePaidInFull`, `LoneFailedWhere` for an order that has them to itself |

Runs that TLC ends with a counterexample, because the code does not do what a
document, a comment or a message of it says (`findings` in `PROJECT.json`):

| Run | Says | Does |
|---|---|---|
| `restart_repeats` | "`advance()` is idempotent ... can be safely restarted at any point" (README.md:66) | a crash before the write repeats the effect |
| `filled_cancelled` | "The executor waits passively for the market to resolve" (README.md:357) | a deadline that passes in `PolymarketFilled` cancels the order |
| `cap_fails` | "Order paused until next window" (`executor.rs:413`) | the order is `Failed` for good |
| `return_message` | "second word = length" (`cctp.rs:495`) | the length is read from the wrong bytes of that word; every returned message is empty, so no order can complete |

Read side by side: `EffectBound` is what is left of "idempotent". An effect may
be repeated, but at most once per crash; and failing or torn writes, lost
answers, resubmission and polling repeat nothing by themselves. Where writes
succeed it is much less than that bound: `OneRepeatPerCrash` says that a crash
costs one repeated step of one order, however many orders are under way,
because the file is written after every step and one call is in flight at a time.
For most stages that is one call. Two stages make two calls and one write: lost
behind the second, they make both again, the approval and the burn, the swap and the
payout. The second of the two is never made more often than the first. With failing writes this is false, for a file that is several stages behind has
all of them repeated; `EffectBound` still holds.
`FailureStageExact` is checked where writes succeed only: when the write of
`Failed` is lost and the process after it, the next process goes on from an
earlier stage.

**Several orders at once.** `executor.rs:3-6` says that an order only makes
progress "when the on-chain state confirms the previous step completed". What
the steps look at is a balance of a pooled wallet, and `Custody` shows how far
that carries. For an order alone it does, though nothing of its own is ever
looked up: `LoneConfirmed` rests on the order of nonces, `LoneFailedWhere` holds
through lost answers, a reverted burn and a fill that races its cancellation.
With two orders in flight TLC reaches, among others, these states, and no
property above claims otherwise:

* an order posts before its own USDC is minted, with the other's;
* an order in `Redeeming` takes the other's money, or what its own fill in part
  left, for the redemption, and goes on while that is still pending;
* the first `redeemPositions` pays for both positions; the second order then
  finds nothing, and waits in `Redeeming`, which has no deadline, for ever;
* an order is paid more than its deposit brought, and another one less.

What is left for any number of orders is that nobody is paid twice or for a swap
that was not made (`PaysWithinSlippage`), and that the cap holds on the exchange,
except for orders whose acceptance was lost (`PostedWithinCap`).

**What the cap is worth.** The router keeps its count of the day in memory and adds
an order to it once its post has been answered. `PostedPerSlip` says what that comes
to where a process may be lost and an answer too: every crash, and every answer that
is lost, lets through at most the cap once more. Only `run_once` starts a new window,
and only one that is over; so a window is never shorter than 24 hours, and may be much
longer under `run_loop`. Any 24 hours meet at most two of them: the rolling day that
`config.rs:44` speaks of is bounded by twice that.

**Notes of the repository that are out of date.** Its README still has the circuit
breaker as "None" (`README.md:581`) and the return leg as a TODO (`README.md:575`);
the code has both, and they are modelled as the code has them.

**Two constants.** The topic of `ConditionResolution` (`resolver.rs:18-19`,
`b8da7db0...`) is not keccak-256 of the signature given at `resolver.rs:10`
(`b44d84d3...`): against a contract with that event no log matches, and every
order waits in `AwaitingResolution` for ever. The selector of `redeemPositions`
(`settlement.rs:20`, `8c5d7d37`) is not that of the function documented at
`settlement.rs:8-14` (`01b7037c`): against such a contract the gas estimate of
every redemption fails. The runs take `EventTopic` and `RedeemId` to be the
code's values, because everything after that could not be looked at otherwise.

**Bounds.** `MaxCrashes`, `MaxCalls` and `MaxBalance` bound what the environment
may do; nothing else is cut, but that without a cap (`Cap` 0), where the count is never
read, its window never elapses. Three crashes let an order be put back, go on and
be put back again on both sides of a stage; a fourth meets no new combination of
stage and file, for the file holds one stage. `executor_disk` has one order and
one crash, because the lag of the file multiplies the states of orders; its
safety properties are proved for every number of both. Two orders are what
sharing a counter, a window and a pass takes. With cap 3 and amounts 1 and 2
there are sums below, at and above the cap; with threshold 1 the failure of one
order must stop the other one wherever it stands; with one crash the one repeat may
be either order's, and the window and the counter start again. `executor_crash` has
more crashes. `executor_disk` checks the refinement of `Lifecycle` for one order;
`RefinesLifecycle` proves it for any number. `executor_live` has threshold 2,
so that the breaker opens only when both orders have failed and never excuses a
loop that does not drain. `executor_pair` is symmetric in its orders, whose
market is the same; it checks no liveness. In `custody`, a swap of 3 with 2
bridged leaves something behind and a swap of 1 does not; a fill may be whole or
a part; balances reach 4, so `MaxBalance` 6 cuts nothing; cap 6 is met when funds
come back from a cancelled order and are posted again; the executor's float
of 1 pays for the slippage of one swap, and no more. The envelopes of
`cctp_transfer` have a nonce of zero, of one byte below and from 128, and of two
bytes, and an `r` with and without leading zeros; its resolutions are won by
either side or by both. Message lengths lie around a word
(223, 224, 225), around one byte of the length (255, 256, 257), and at the real
248. Deadlock is checked except where the system may stop: with a torn file no
process starts, the callers of a wallet finish, a transfer ends, and in `custody`
all orders may be final and the chains at rest.

**Fairness.** The router is one task. `FairSpec` has weak fairness of its next
step as a whole (`RouterStep`), which says that an awaited call answers, by an
error if need be; the clients set no time limits, so this is an assumption about
the services, not something the code enforces. It includes the steps of a
running `run_loop`, never those of callers. The clock reaches every deadline.
Nothing is assumed of what services answer. In `EvmWallet` each caller with the
lock goes on, and callers are served in their order, as the tokio mutex
guarantees. No fairness is assumed of `Begin` or of mining.

## 4. The proofs

All are checked by TLAPS for every value of the constants under named assumptions.
`StoreAssumption`, `ExecutorAssumption`, `CustodyAssumption` and
`WalletAssumption` say only that bounds and amounts are naturals, that a
swap gives something, that switches are Booleans and that `NoId` is no order. The
set of orders need not be finite. Those of the modules on bytes give widths:
`ChainAssumption` a chain id up to 10,000 (Polygon's is 137), `EnvelopeAssumption` eight bytes
to the nonce, gas price and gas limit (`u64`) and 32 to `r` and `s`; `TransferAssumption` messages that are not empty
and shorter than 2^16 bytes, like the attestation, so that the lengths a word and a
borsh vector hold are their own; `RedemptionAssumption` addresses of 20 bytes,
condition ids of at most 32 and two numerators of eight bytes, as many as the parser
keeps; `RepliesAssumption` balances below 2^64, for the code drops the bytes
above; `OtherEventsAssumption` that no other program of the burn's transaction has an
event of the name `MessageSent`. Every invariant named below was an invariant of a
TLC run before it was proved.

**LifecycleProofs.** `TypeCorrect`; `SavedIsPastAlways` (`SavedIsPast` is
inductive: `Reaches` is transitive and contains every edge); `SavedMovesForward`
(what is written is `live`, which `saved` reaches by the invariant).

**ExecutorProofs.**
* `TypeCorrect`: `TypeOK` together with `CallOK`, the consistency of the program
  counter: an inserted id is new, a step has a pending order, and what a call is
  about to store is a stage the current one has an edge to.
* `StepHasShape`: each of the fourteen steps makes one effect, or none, and ends
  in the second call of its stage or in a commit of the same stage, the next, or `Failed`; the invariants below are
  proved over the shapes, not over fourteen actions.
* `EffectsAreBounded`: `EffectBound` is not inductive. `SentOnce` is: as long as
  the call in flight `MaySend` an effect, it was made at most `crashes` times.
  A step that sends ends that, and only losing the process may bring it back; then
  `crashes` has grown by one, and the bound with it.
* `OnceUntilLost`: the case of no crash, by itself. What the finding `restart_repeats`
  denies of restarts holds of everything else.
* `EffectsComeInOrder`: `AllBacked` says every needed effect of a stage before the one in
  memory, on disk, or about to be stored was made; a crash keeps it because it
  holds of what is on disk too.
* `RefinesLifecycle`: by `PutRefines`, a commit is an abstract `Step` that saves or
  does not; a crash is a `Rollback`, seen under the mapping that takes the
  snapshot for `live` while no process runs.
* `VolumeStaysWithinCap`, a lemma: the counter stays within the cap. It says nothing
  yet of what is posted; `SumProofs` has two theorems that do, and rest on it.
* `BreakerAlwaysHalts`: an open breaker could still let a step end that had begun
  before. `Halted` says there is none: the breaker opens only when a call ends, and
  then the next one stops at its check.
* `BreakerAlwaysTraps`: while the breaker is open a call that begins ends at once, so
  the counter and every order stay, and `EndPass` leaves a loop only if nothing is pending.
* `FilledKeepsUntilDeadline`: the other side of the finding `filled_cancelled`. Before
  the deadline a filled order stays where it is or goes on to wait for its market:
  `FilledGoesOn` says that the call in flight would store nothing else.
* `AckedAlwaysSurvive`: by `Kept`, the map of a running process has whatever the
  file has, so that no write can drop an order, and the file whatever was acknowledged.
* `FinalStaysFinal`: by `FinalKept`, whatever is final on disk a running process
  holds with the same status. A failed write leaves the file behind the map; it
  is never ahead.
* `CancelAlwaysSpares` and `FailureStageIsExact`: `NoneAhead` says that no order has
  sent an effect of a stage after the one its status has reached (for Cancelled,
  the last stage the deadline can stop), in the file as in the call in flight.
  With `AllBacked` it gives the stage exactly. Both need `~IoErrors`: a lost write and
  a crash put the order back behind what it has sent. The first needs `Persistent`
  too: with no file an order may be submitted again after it was redeemed. These
  are hypotheses on the store, not on the router, and TLC has a
  counterexample without each of them.

**EvmWalletProofs.** `TypeCorrect`, with `Holding`: whoever is past the lock is
the head of its queue, so (`OneHolder`) one per wallet. `LockIsEnough`: with
`NonceAbove`, the nonce of the holder is above every nonce its own wallet's callers
were given a hash for.

**CustodyProofs.** `ImplementsExecutor`: `Custody` refines `Executor` with the
identity on its variables (`StepIsExecutors` goes through the steps; the
environment's stutter). What is proved of `Executor` therefore holds of the
composition for every number of orders, and `RouterOfCustody` states it: the effects'
order, the cap, the breaker, what is final, the lifecycle, and, as no process is
lost there, that no effect is made twice.

`CustodyTypeCorrect`: every subtraction is guarded by
what the wallet holds, and what a step keeps between its calls is gone when it
ends. `PayoutsStayWithinSlippage`: `Covered` counts the orders that have swapped back;
a swap adds its order to them, since `EffectBound` without crashes says that it is its
first, and the payout takes at most the quote, which is at most `Slippage` above what
that swap brought.

**SumProofs.** Three properties are sums, over all orders or over time. `OneRepeatForEachCrash`, for a
store that is kept and whose writes succeed (`Persistent`, `~IoErrors`; both are
needed): the number of repeats is not inductive, since what a restart will repeat is
decided before it repeats it. `ChargesArePaid` charges every effect with its repeats,
and with one more while its order stands, in the file, in the stage that makes it and
the call in flight is not about to leave that stage. The sum of all charges is at most
`crashes`. A step only lowers charges or keeps them (`StepLowers`: the effect it makes
was not made before or is charged already; `WriteLowers`), and losing the process raises
one charge by one, that of the call it interrupts (`CrashIsPaid`). That
the second call of a step is never ahead of the first is `SecondsFollow`: behind it
by one, it is about to be made or was given up.

`PostedStaysPerSlip`: `Behind` says that what the exchange may have been given exceeds
the counter by at most one cap for each slip. A post that is answered adds the same to
both (`PostFallsBehind`); one whose answer is lost was within the cap when it was made,
and a crash takes away a counter that was (`CrashFallsBehind`, by
`VolumeStaysWithinCap`).

`PostedStaysWithinCap`: the router's counter is the sum of what
the exchange accepted (`VolumeIsPosted`), because an order that was posted is past
its post for good (`Past`), so that it is neither posted and counted twice nor ever
leaves the sum; then `VolumeStaysWithinCap` bounds the counter. The sum is a fold of
the community modules, a recursive function over subsets. The library's induction
theorems take a predicate, which no installed prover can instantiate; the
lemmas on sums do without: the subsets of a finite set for which a claim fails
have a minimal element (`MinimalSubset`, from the well-foundedness of strict
inclusion), and taking one element away from that contradicts it. `TotalsExist` builds
the function of all partial sums in this way, `SumIsTotal` shows that the fold computes
it whichever elements it chooses, and `SumOfOneMore`, `SumOfTheSame`, `SumOfLess`,
`SumOfSmaller` and `SumOfOneRaised` are what the two invariants need.

**CustodyLoneProofs.** `LoneBalancesConfirm`, `LoneIsPaidInFull` and
`LoneFailsWhereItSays` rest on one invariant, `LoneInPlace`: from the moment an order
finds the wallets clean until it is cancelled or the next one is inserted, no other
order acts or has money anywhere (`Others`), and `Place` says for every stage, live or
failed, where all its money is: in a wallet, burnt on one side, in a pending mint, on
the book, in a position. None of the three properties is inductive: that a burn
on the way back comes after the redemption rests on what is pending and in which order
(`Cashing` lists the states of redemption, approval and burn, by nonce), and that
the wallet's SOL is the executor's own until the last swap, and no allowance is left
from another order, rests on the market being open when an order is posted
(`Unresolved`: everything that redeems, approves or pays comes after a resolution, and
there is one market). `Fresh` says that an order nobody has submitted brought nothing.
The place of an order with a call in flight is that of the status it is about to store
(`Now`), which may be one ahead of the one the properties read (`SeenPlace`).

**TransferProofs.** These are theorems about bytes. A string of n bytes is a member of
`Strings(n)`, and `Carries(d, at, x)` says that x stands in d behind its first `at`
bytes: what is put together carries its parts (`CarriesParts`), and what is cut out
where it stands is what was written (`CutOut`). Everything else is built on these two.
* RLP: `ItemIsRead` (an item is read back as it was encoded and is canonical, by the
  three forms a length prefix has), `Flattened` and `FieldsExist` (the recursive
  functions by which `FlattenSeq` and the node's fields are defined exist; a least
  counterexample takes the place of induction), `FieldsAreRead` (nine items one after the
  other are the nine fields).
* `NodeExecutes`: the node executes every transaction the wallet signs as the call it
  was made of. The numbers are canonical because `strip_leading_zeros` is
  (`Stripped`), the signer is the wallet because the payload the node rebuilds of the
  stripped numbers is the one that was signed (`PayloadIsRebuilt`). Data may have
  up to 15 * 2^16 bytes, which the largest message and attestation stay below.
* `CalldataIsRead`, `BorshIsRead`: message and attestation are read as they were
  encoded, at the offsets of the ABI and of borsh.
* `TransferInvariant`: types, the events are those of the burn, `RelayedIsEmitted` and
  `OutboundExact`. What is relayed was emitted because the service answers to the
  hash of what is stored only if that is the emitted message. `OutboundExact` is exact:
  the message is stored whenever the logs the node showed (`shown`) have it, and the
  transaction's id only when they were cut in front of it.
* `NoTransferReturns`: the finding on the return message holds of every message. The
  eight bytes the parser reads are zero in the word of every such length
  (`EventIsEmpty`), so what it returns is empty, or the transaction's id.

**RedemptionProofs.** `ImplementsTransfer`: a redemption's steps are steps of its transfer
or none, so that the invariants above hold of it (`TransferOfARedemption`).
`ExactlyTheWinIsRedeemed` and `BurnsTheWholeBalance` follow from `RedemptionInvariant`, which adds
to them the types and `NothingSentBefore`. They rest on what is read: the event
(`EventIsDecoded`: a slot that is decoded is what the market pays), the balance
(`BalanceIsReply`), and the three calls (`RedeemIsRead`, `ApproveIsRead`,
`BurnIsRead`). `RedeemId` is any selector and `EventTopic` any topic: that the ones in
the code are those of the deployed contracts is no hypothesis, and if they are
not, nothing is redeemed.

Only model-checked:

* The liveness properties `LoopDrains` and `CallsReturn`: fairness needs ENABLED, which
  the installed TLAPS does not treat.
* The four properties that are violated (3), which are false.

Every other property of a passing run is a theorem. What the proofs do not
replace is the choice of the faults: that each property is broken by a plausible
mistake in the code only the runs show.

## 5. What is not modelled, and the plan

Not modelled:

* ECDSA, keccak-256 and base64, which are library code; the wire formats of
  Jupiter's, Circle's and the CLOB's HTTP interfaces, and of JSON-RPC, which no
  property tells apart from their contents.
* The accounts of the instructions on Solana, the used-nonce account among them:
  without Solana's address derivation there is nothing to compare them with.
* Arithmetic at 64 bits: dollars times 10^6 in `config.rs`, and the fee, computed
  in 128 bits and cut to 64 (`executor.rs:245`). TLC's integers have 32 bits, and
  a smaller width would restate the one multiplication.
* What the router never calls: `buy_position`, `yes_wins`, `poll_until_complete`,
  `get_mut`, `all`, `mint_decimals`.
* Time as a quantity: how long a fill is awaited, how far apart polls are.
* Logging; dropping the future of `advance()` in the middle, which nothing in the
  repository does; the example program, a caller that submits one order and
  leaves its loop at the first `Err`.

Next, in this order:

1. The transfer of bytes as a refinement of an abstract one that burns, waits and
   mints, and `Custody`'s burns and mints stated against the same.
2. Liveness of a lone order in `Custody` under fair mining; crashes in `Custody`.
3. `DailyVolume` with the money of `Custody`, so that what an order whose answer was
   lost has bought is in the same sum.

## 6. Running

`tlc -config ExecutorPair.cfg MCDailyVolume` and so on: the module and the file of each
run are in `PROJECT.json`. `tlapm ExecutorProofs.tla` checks the proofs of that module, and so on. The operators
marked "Fault" are mutations of the definition after them: each property of a passing
run is violated when the mutation its entry under `mutants` names takes that
definition's place.
