---- MODULE Executor ----
(***************************************************************************)
(* TradeRouter: one process that drives every order of its store through   *)
(* the stages, one advance() at a time.  The services it calls (chains,    *)
(* Jupiter, Circle, the CLOB, the resolver) answer as they like; `sent`    *)
(* records, outside the process, how often each effect of each order may   *)
(* have reached them, and so survives a crash.                             *)
(*                                                                         *)
(* advance() holds &mut self across its awaits, so at most one call is in  *)
(* flight: phase, cur and ret are its program counter, its id and the      *)
(* status it is about to store.                                            *)
(***************************************************************************)
EXTENDS OrderStore, Functions

CONSTANTS
  NoId,         \* cur when no call is in flight
  Whitelisted,  \* the orders whose market allowed_market_ids admits
  Cap,          \* daily_volume_cap_usdc_micro; 0 is no cap
  Threshold,    \* circuit_breaker_failure_threshold; 0 never opens
  MaxBalance,   \* the largest Polygon balance usdc_balance() may report
  MaxCrashes    \* bound on the number of crashes

ASSUME ExecutorAssumption ==
  /\ NoId \notin Orders
  /\ Whitelisted \subseteq Orders
  /\ Cap        \in Nat
  /\ Threshold  \in Nat
  /\ MaxBalance \in Nat
  /\ MaxCrashes \in Nat

VARIABLES
  failures,    \* consecutive_failures
  volume,      \* daily_volume_usdc
  windowOver,  \* 24 hours have passed since daily_volume_reset_ts
  mode,        \* the caller runs "none", run_"once" or run_"loop"
  todo,        \* the ids the current pass has still to advance
  phase,       \* "idle", or where the call in flight stands
  cur,         \* the order of that call
  ret,         \* the status it is about to store
  expired,     \* the orders whose deadline the clock has passed
  sent,        \* effects that may have reached the outside world
  acked,       \* orders whose submit_intent() returned Ok
  crashes      \* how often the process was lost

callVars == <<phase, cur, ret>>
envVars  == <<expired, windowOver, crashes>>
vars == <<memory, disk, torn, up, failures, volume, windowOver, mode, todo,
          phase, cur, ret, expired, sent, acked, crashes>>

Modes  == {"none", "once", "loop"}
Phases == {"idle", "insert", "step", "burn", "payout", "commit"}

NoCall == phase = "idle" /\ cur = NoId /\ ret = At(NoOrder)

Init ==
  /\ StoreInit
  /\ failures = 0 /\ volume = 0 /\ windowOver = FALSE
  /\ mode = "none" /\ todo = {}
  /\ NoCall
  /\ expired = {} /\ acked = {} /\ crashes = 0
  /\ sent = [o \in Orders |-> [e \in Effects |-> 0]]

BreakerOpen == Threshold > 0 /\ failures >= Threshold

Goto(ph, o, s) == phase' = ph /\ cur' = o /\ ret' = s

\* Fault: the call that has ended is not forgotten.
EndCallKeepsId == phase' = "idle" /\ UNCHANGED <<cur, ret>>

EndCall == phase' = "idle" /\ cur' = NoId /\ ret' = At(NoOrder)

----
\* Fault: submit_intent() does not look for a duplicate id.
SubmitUnchecked(o) ==
  /\ up /\ mode = "none" /\ phase = "idle"
  /\ Goto("insert", o, At(Pending))
  /\ UNCHANGED <<storeVars, failures, volume, mode, todo, sent, acked, envVars>>

(***************************************************************************)
(* submit_intent: insert() refuses an id the map already holds.            *)
(***************************************************************************)
Submit(o) ==
  /\ up /\ mode = "none" /\ phase = "idle"
  /\ memory[o].stage = NoOrder
  /\ Goto("insert", o, At(Pending))
  /\ UNCHANGED <<storeVars, failures, volume, mode, todo, sent, acked, envVars>>

\* Fault: submit_intent() ignores the error of flush().
InsertIgnoresError ==
  /\ phase = "insert"
  /\ Put(cur, ret)
  /\ FlushOk \/ FlushFails
  /\ acked' = acked \cup {cur}
  /\ EndCall
  /\ UNCHANGED <<failures, volume, mode, todo, sent, envVars>>

\* insert(): the map has the order even when flush() then fails, and Err is
\* returned.
Insert ==
  /\ phase = "insert"
  /\ Put(cur, ret)
  /\ \/ FlushOk /\ acked' = acked \cup {cur}
     \/ FlushFails /\ UNCHANGED acked
  /\ EndCall
  /\ UNCHANGED <<failures, volume, mode, todo, sent, envVars>>

(***************************************************************************)
(* run_once and run_loop: a pass advances the ids that were pending when   *)
(* it began.  Only run_once looks at the volume window.                    *)
(***************************************************************************)
StartOnce ==
  /\ up /\ mode = "none" /\ phase = "idle"
  /\ mode' = "once" /\ todo' = PendingIds
  /\ volume' = IF windowOver THEN 0 ELSE volume
  /\ windowOver' = FALSE
  /\ UNCHANGED <<storeVars, failures, callVars, expired, sent, acked, crashes>>

StartLoop ==
  /\ up /\ mode = "none" /\ phase = "idle"
  /\ PendingIds # {}
  /\ mode' = "loop" /\ todo' = PendingIds
  /\ UNCHANGED <<storeVars, failures, volume, callVars, sent, acked, envVars>>

\* run_once returns; run_loop sleeps, then starts over unless nothing is left.
EndPass ==
  /\ mode # "none" /\ todo = {} /\ phase = "idle"
  /\ IF mode = "loop" /\ PendingIds # {}
     THEN todo' = PendingIds /\ UNCHANGED mode
     ELSE mode' = "none" /\ UNCHANGED todo
  /\ UNCHANGED <<storeVars, failures, volume, callVars, sent, acked, envVars>>

(***************************************************************************)
(* advance: a direct call, or the next one of a pass.                      *)
(***************************************************************************)
Called(o) == \/ mode = "none" /\ UNCHANGED todo
             \/ mode # "none" /\ o \in todo /\ todo' = todo \ {o}

\* Fault: the deadline is looked at only before the first step.
StopsOnlyPending(o) == o \in expired /\ memory[o].stage = Pending

Stops(o) == o \in expired /\ ~ExpiryExempt(memory[o].stage)

\* Fault: the deadline is checked before the circuit breaker.
AdvanceExpiryFirst(o) ==
  /\ up /\ phase = "idle"
  /\ IsActive(memory[o].stage)
  /\ Called(o)
  /\ \/ Stops(o) /\ Goto("commit", o, At(Cancelled))
     \/ BreakerOpen /\ ~Stops(o)  /\ UNCHANGED callVars
     \/ ~BreakerOpen /\ ~Stops(o) /\ Goto("step", o, At(NoOrder))
  /\ UNCHANGED <<storeVars, failures, volume, mode, sent, acked, envVars>>

\* Fault: advance() does not refuse an order that is terminal.
AdvanceTerminal(o) ==
  /\ up /\ phase = "idle"
  /\ memory[o].stage # NoOrder
  /\ Called(o)
  /\ \/ BreakerOpen /\ UNCHANGED callVars
     \/ ~BreakerOpen /\ Stops(o)  /\ Goto("commit", o, At(Cancelled))
     \/ ~BreakerOpen /\ ~Stops(o) /\ Goto("step", o, At(NoOrder))
  /\ UNCHANGED <<storeVars, failures, volume, mode, sent, acked, envVars>>

Advance(o) ==
  /\ up /\ phase = "idle"
  /\ IsActive(memory[o].stage)
  /\ Called(o)
  /\ \/ BreakerOpen /\ UNCHANGED callVars
     \/ ~BreakerOpen /\ Stops(o)  /\ Goto("commit", o, At(Cancelled))
     \/ ~BreakerOpen /\ ~Stops(o) /\ Goto("step", o, At(NoOrder))
  /\ UNCHANGED <<storeVars, failures, volume, mode, sent, acked, envVars>>

----
(***************************************************************************)
(* The steps.  A step ends by choosing the status to store; a step that    *)
(* returns Err chooses Failed, which is what advance() makes of it.        *)
(***************************************************************************)
Stepping(s) == phase = "step" /\ memory[cur].stage = s

Return(s) == Goto("commit", cur, s)

\* Fault: the failure names the stage the step was to lead to.
FailAfter(why) == Return(FailedIn(memory[cur].stage + 1, why))

Fail(why) == Return(FailedIn(memory[cur].stage, why))

Stay == Return(memory[cur])

Broadcast(e) == sent' = [sent EXCEPT ![cur][e] = @ + 1]

\* Fault: an error of the call is swallowed.
CallOutSwallowed(e, OnOk) == \/ OnOk /\ UNCHANGED sent
                             \/ OnOk /\ Broadcast(e)

\* A call with an effect: it fails before it is made, it is made and its
\* answer is lost (a send_and_confirm that times out), or it succeeds.
CallOut(e, OnOk) == \/ Fail("call")  /\ UNCHANGED sent
                    \/ Fail("call")  /\ Broadcast(e)
                    \/ OnOk          /\ Broadcast(e)

StepUnchanged == UNCHANGED <<storeVars, failures, mode, todo, acked, envVars>>

StepPending ==
  /\ Stepping(Pending)
  /\ CallOut("swap", Return(At(SolanaSwapInProgress)))
  /\ UNCHANGED volume /\ StepUnchanged

StepSolanaSwapInProgress ==
  /\ Stepping(SolanaSwapInProgress)
  /\ Fail("call") \/ Stay \/ Return(At(SolanaSwapComplete))
  /\ UNCHANGED <<volume, sent>> /\ StepUnchanged

StepSolanaSwapComplete ==
  /\ Stepping(SolanaSwapComplete)
  /\ CallOut("burn", Return(At(BridgePending)))
  /\ UNCHANGED volume /\ StepUnchanged

\* Not attested yet: stay.  get_attestation() answers 404 with an Err.
StepBridgePending ==
  /\ Stepping(BridgePending)
  /\ \/ Stay /\ UNCHANGED sent
     \/ CallOut("relay", Return(At(BridgeRelaying)))
  /\ UNCHANGED volume /\ StepUnchanged

\* The whole balance of the executor's address becomes the order's amount.
StepBridgeRelaying ==
  /\ Stepping(BridgeRelaying)
  /\ \/ Fail("call")
     \/ Stay
     \/ \E n \in 1..MaxBalance : Return(Bridged(n))
  /\ UNCHANGED <<volume, sent>> /\ StepUnchanged

\* Fault: the cap check leaves out the amount about to be posted.
OverCapLate == Cap > 0 /\ volume > Cap

OverCap == Cap > 0 /\ volume + memory[cur].usdc > Cap

StepBridgeComplete ==
  /\ Stepping(BridgeComplete)
  /\ \/ /\ cur \notin Whitelisted
        /\ Fail("market") /\ UNCHANGED <<sent, volume>>
     \/ /\ cur \in Whitelisted /\ OverCap
        /\ Fail("cap") /\ UNCHANGED <<sent, volume>>
     \/ /\ cur \in Whitelisted /\ ~OverCap
        /\ CallOut("post", Return(At(PolymarketOrderPosted)))
        /\ volume' = IF ret'.stage = Failed THEN volume
                                            ELSE volume + memory[cur].usdc
  /\ StepUnchanged

\* wait_for_fill() ends in a match, in an error, or at its time limit with an
\* error too, once it has asked the exchange to cancel the order.
StepPolyOrderPosted ==
  /\ Stepping(PolymarketOrderPosted)
  /\ \/ Return(At(PolymarketFilled)) /\ UNCHANGED sent
     \/ Fail("call") /\ UNCHANGED sent
     \/ Fail("call") /\ Broadcast("cancel")
  /\ UNCHANGED volume /\ StepUnchanged

StepPolymarketFilled ==
  /\ Stepping(PolymarketFilled)
  /\ Return(At(AwaitingResolution))
  /\ UNCHANGED <<volume, sent>> /\ StepUnchanged

\* index_sets_for_outcome() turns a losing outcome into an Err.
StepAwaitingResolution ==
  /\ Stepping(AwaitingResolution)
  /\ \/ (Stay \/ Fail("lost")) /\ UNCHANGED sent
     \/ CallOut("redeem", Return(At(Redeeming)))
  /\ UNCHANGED volume /\ StepUnchanged

\* Two effects in one step: the approval, which is not awaited, then the burn.
StepRedeeming ==
  /\ Stepping(Redeeming)
  /\ \/ Stay /\ UNCHANGED sent
     \/ CallOut("approve", Goto("burn", cur, ret))
  /\ UNCHANGED volume /\ StepUnchanged

ReturnBurn ==
  /\ phase = "burn"
  /\ CallOut("returnBurn", Return(At(SettlementBridging)))
  /\ UNCHANGED volume /\ StepUnchanged

StepSettlementBridging ==
  /\ Stepping(SettlementBridging)
  /\ \/ Stay /\ UNCHANGED sent
     \/ CallOut("returnRelay", Return(At(SettlementSwapping)))
  /\ UNCHANGED volume /\ StepUnchanged

\* Two effects in one step: the swap to SOL, then the transfer to the user.
StepSettlementSwapping ==
  /\ Stepping(SettlementSwapping)
  /\ CallOut("settleSwap", Goto("payout", cur, ret))
  /\ UNCHANGED volume /\ StepUnchanged

TransferSol ==
  /\ phase = "payout"
  /\ CallOut("payout", Return(At(Complete)))
  /\ UNCHANGED volume /\ StepUnchanged

\* Fault: a step that returned Err leaves the status as it was.
FinishRetries ==
  /\ phase = "commit"
  /\ Put(cur, IF ret.stage = Failed THEN memory[cur] ELSE ret)
  /\ FlushOk \/ FlushFails
  /\ failures' = CASE ret.stage = Failed    -> failures + 1
                   [] ret.stage = Cancelled -> failures
                   [] OTHER                 -> 0
  /\ EndCall
  /\ UNCHANGED <<volume, mode, todo, sent, acked, envVars>>

\* Fault: when flush() fails the map keeps the old status as well.
FinishUndone ==
  /\ phase = "commit"
  /\ \/ Put(cur, ret) /\ FlushOk
     \/ Persistent /\ IoErrors /\ UNCHANGED storeVars
  /\ failures' = CASE ret.stage = Failed    -> failures + 1
                   [] ret.stage = Cancelled -> failures
                   [] OTHER                 -> 0
  /\ EndCall
  /\ UNCHANGED <<volume, mode, todo, sent, acked, envVars>>

\* The rest of advance() after the step, or after the deadline check: store
\* the status, count the failure or forget the earlier ones.
Finish ==
  /\ phase = "commit"
  /\ Put(cur, ret)
  /\ FlushOk \/ FlushFails
  /\ failures' = CASE ret.stage = Failed    -> failures + 1
                   [] ret.stage = Cancelled -> failures
                   [] OTHER                 -> 0
  /\ EndCall
  /\ UNCHANGED <<volume, mode, todo, sent, acked, envVars>>

----
(***************************************************************************)
(* The process is lost at any point (a panic on a missing attestation      *)
(* counts as one), and a new one opens the same file.  The counters are in *)
(* memory only.                                                            *)
(***************************************************************************)
Crash ==
  /\ crashes < MaxCrashes /\ crashes' = crashes + 1
  /\ StoreCrash(phase \in {"insert", "commit"})
  /\ mode' = "none" /\ todo' = {} /\ EndCall
  /\ failures' = 0 /\ volume' = 0 /\ windowOver' = FALSE
  /\ UNCHANGED <<sent, acked, expired>>

Restart ==
  /\ WithPersistence
  /\ UNCHANGED <<failures, volume, mode, todo, callVars, sent, acked, envVars>>

DeadlinePasses(o) ==
  /\ o \notin expired /\ expired' = expired \cup {o}
  /\ UNCHANGED <<storeVars, failures, volume, mode, todo, callVars, sent, acked,
                 windowOver, crashes>>

\* 24 hours are over.  Where there is no cap nobody reads the count, and the
\* model leaves the moment out.
WindowElapses ==
  /\ Cap > 0
  /\ up /\ ~windowOver /\ windowOver' = TRUE
  /\ UNCHANGED <<storeVars, failures, volume, mode, todo, callVars, sent, acked,
                 expired, crashes>>

Step ==
  \/ StepPending \/ StepSolanaSwapInProgress \/ StepSolanaSwapComplete
  \/ StepBridgePending \/ StepBridgeRelaying \/ StepBridgeComplete
  \/ StepPolyOrderPosted \/ StepPolymarketFilled \/ StepAwaitingResolution
  \/ StepRedeeming \/ ReturnBurn
  \/ StepSettlementBridging \/ StepSettlementSwapping \/ TransferSol

Next ==
  \/ \E o \in Orders : Submit(o) \/ Advance(o) \/ DeadlinePasses(o)
  \/ Insert \/ StartOnce \/ StartLoop \/ EndPass
  \/ Step \/ Finish
  \/ Crash \/ Restart \/ WindowElapses

Spec == Init /\ [][Next]_vars

----
(***************************************************************************)
(* Fairness.  The router is one task: it takes its next step once the call *)
(* it awaits has answered, so the disjunction of its steps is weakly fair  *)
(* (every external call is taken to answer, with an error if need be), and *)
(* the clock passes every deadline.  Nothing is assumed of what the        *)
(* services answer, of callers, or of crashes and restarts.                *)
(***************************************************************************)
RouterStep == \/ Insert \/ EndPass \/ Step \/ Finish
              \/ \E o \in Orders : mode # "none" /\ Advance(o)

FairSpec == /\ Spec
            /\ WF_vars(RouterStep)
            /\ \A o \in Orders : WF_vars(DeadlinePasses(o))

----
TypeOK ==
  /\ StoreTypeOK
  /\ failures \in Nat /\ volume \in Nat /\ windowOver \in BOOLEAN
  /\ mode \in Modes /\ todo \subseteq Orders
  /\ phase \in Phases /\ cur \in Orders \cup {NoId} /\ ret \in StatusSet(Nat)
  /\ (phase = "idle") <=> (cur = NoId)
  /\ expired \subseteq Orders /\ acked \subseteq Orders
  /\ sent \in [Orders -> [Effects -> Nat]]
  /\ crashes \in Nat

\* No effect of an order (a swap, a burn, a post, a payout) is repeated more
\* often than the process was lost: lost replies, failed writes of the
\* snapshot, resubmission and polling repeat nothing by themselves.
EffectBound == \A o \in Orders, e \in Effects : sent[o][e] <= 1 + crashes

\* The steps that were made more than once, by the first call each of them makes.
Repeated == {x \in Orders \X (Effects \ SecondCalls) : sent[x[1]][x[2]] > 1}

Repeats == [x \in Repeated |-> sent[x[1]][x[2]] - 1]

\* Losing the process costs at most one repeated step, over all orders and
\* stages together: the store is written after every step, so what a restart
\* makes again is one step of one order.  That is one call, or two where the
\* step makes two: an approval and its burn, a swap and its payout.  Of these
\* the second is never made more often than the first: nothing is burnt
\* without an approval of its own, and nobody is paid twice for one swap.
OneRepeatPerCrash ==
  /\ SumFunctionOnSet(Repeats, Repeated) <= crashes
  /\ \A o \in Orders, e \in SecondCalls : sent[o][e] <= sent[o][FirstCall(e)]

\* The effects of an order happen in the documented sequence across any
\* number of crashes and failed writes: nothing is burnt that was not swapped,
\* and nobody is paid before everything else was done.
EffectsInOrder ==
  \A o \in Orders, d, e \in Effects :
    Precedes(d, e) /\ sent[o][e] > 0 => sent[o][d] > 0

\* The stage a Failed order names is where its money stopped: every effect that
\* an earlier stage needs was made, none of a later stage was, and only those of
\* the stage itself are in doubt.  Whoever repairs the order by hand relies on it.
FailureStageExact ==
  \A o \in Orders : disk[o].stage = Failed =>
    \A e \in Effects :
      /\ e \in Needed /\ SentIn(e) < disk[o].failedAt => sent[o][e] > 0
      /\ SentIn(e) > disk[o].failedAt => sent[o][e] = 0

\* The deadline never cancels an order whose position was already redeemed,
\* wherever a crash put it back: the exempt stages cover every stage from
\* which redeemPositions may have been sent.
CancelSparesRedeemed ==
  \A o \in Orders : Cancelled \in {memory[o].stage, disk[o].stage} =>
    sent[o]["redeem"] = 0

\* An order whose submission was acknowledged is found again after a restart,
\* at least as long as no write was torn.
AckedSurvive ==
  Persistent /\ ~torn => \A o \in acked : disk[o].stage # NoOrder

\* An open circuit breaker halts the router: no effect is sent, and no order
\* it holds changes its status (only losing the process ends this).
BreakerHalts ==
  [][BreakerOpen /\ up' => /\ sent' = sent
                           /\ \A o \in Orders : memory[o].stage # NoOrder =>
                                memory'[o] = memory[o]]_vars

\* Inside run_loop an open breaker is a trap: while an order is pending, no
\* deadline, success or end of a pass closes the breaker or lets the loop
\* return.  Nothing but losing the process ends it.
Trapped == BreakerOpen /\ mode = "loop" /\ PendingIds # {}

BreakerTraps == [][Trapped /\ up' => Trapped']_vars

\* A final status on disk is final for good: no crash, restart or late write
\* revives the order, and none of its effects is sent any more.
FinalIsFinal ==
  [][\A o \in Orders : IsTerminal(disk[o].stage) =>
       disk'[o] = disk[o] /\ sent'[o] = sent[o]]_vars

\* The router implements the abstract lifecycle: live is the running map, or
\* the snapshot when there is no process; saved is the snapshot.
L == INSTANCE Lifecycle WITH
       live  <- [o \in Orders |-> IF up THEN memory[o].stage ELSE disk[o].stage],
       saved <- [o \in Orders |-> disk[o].stage]

LifecycleSpec == L!Spec

\* run_loop gets every order out of the stages the deadline can cancel, unless
\* the breaker stops it: orders do not starve each other in its passes, and no
\* stage before resolution can be waited in for ever.
LoopDrains ==
  mode = "loop" ~> \/ mode # "loop" \/ BreakerOpen
                   \/ \A o \in PendingIds : ExpiryExempt(memory[o].stage)

\* README "advance() is idempotent [...] so the executor can be safely
\* restarted at any point": no effect is sent twice.
EffectOnce == \A o \in Orders, e \in Effects : sent[o][e] <= 1

\* README on PolymarketFilled, "The order is filled. The executor waits
\* passively for the market to resolve": a filled order only ever goes on to
\* wait for the resolution.
FilledWaits ==
  [][\A o \in Orders : memory[o].stage = PolymarketFilled /\ up' =>
       memory'[o].stage \in {PolymarketFilled, AwaitingResolution}]_vars

\* The error of the cap check, "Order paused until next window": an order the
\* cap refused is still pending.
CapPauses == \A o \in Orders : memory[o].reason # "cap"

====
