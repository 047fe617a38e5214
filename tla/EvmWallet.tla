---- MODULE EvmWallet ----
(***************************************************************************)
(* EvmWallet::send_transaction: callers share an address on Polygon, and   *)
(* each takes its nonce from the node's count of pending transactions.  A  *)
(* wallet object serialises its own callers with send_lock, a tokio mutex, *)
(* which serves them in the order they came.                               *)
(*                                                                         *)
(* The node is external: `pool` holds, for each nonce from 0 on, the call  *)
(* whose transaction has it now.  The first `mined` of them are final; a   *)
(* later one gives way to another transaction of the same nonce if that    *)
(* one offers enough gas.  The node's count is taken to be exact.          *)
(***************************************************************************)
EXTENDS Naturals, Sequences

CONSTANTS Tasks,     \* callers of send_transaction
          WalletOf,  \* the wallet object each caller uses
          MaxCalls   \* bound on the calls of one task

ASSUME WalletAssumption == MaxCalls \in Nat

VARIABLES pc, nonce, queue, pool, mined, calls, hashes

vars == <<pc, nonce, queue, pool, mined, calls, hashes>>

Wallets == {WalletOf[t] : t \in Tasks}

Call(t) == <<t, calls[t]>>
CallSet == Tasks \X Nat

Init == /\ pc     = [t \in Tasks |-> "idle"]
        /\ nonce  = [t \in Tasks |-> 0]
        /\ queue  = [w \in Wallets |-> <<>>]
        /\ pool   = <<>>
        /\ mined  = 0
        /\ calls  = [t \in Tasks |-> 0]
        /\ hashes = {}

Queue(t) == queue[WalletOf[t]]

\* Fault: a caller does not wait for the lock.
HoldsUnlocked(t) == Queue(t) # <<>>

\* t has the lock: it is first in the queue of its wallet.
Holds(t) == Queue(t) # <<>> /\ Head(Queue(t)) = t

\* send_lock.lock().await: join the queue.
Begin(t) == /\ pc[t] = "idle" /\ calls[t] < MaxCalls
            /\ pc'    = [pc EXCEPT ![t] = "queued"]
            /\ queue' = [queue EXCEPT ![WalletOf[t]] = Append(@, t)]
            /\ calls' = [calls EXCEPT ![t] = @ + 1]
            /\ UNCHANGED <<nonce, pool, mined, hashes>>

\* Fault: the nonce of the last transaction, not the next one.
GetNonceLast(t) == /\ pc[t] = "queued" /\ Holds(t)
                   /\ nonce' = [nonce EXCEPT ![t] = Len(pool) - 1]
                   /\ pc'    = [pc EXCEPT ![t] = "priced"]
                   /\ UNCHANGED <<queue, pool, mined, calls, hashes>>

\* eth_getTransactionCount with "pending".
GetNonce(t) == /\ pc[t] = "queued" /\ Holds(t)
               /\ nonce' = [nonce EXCEPT ![t] = Len(pool)]
               /\ pc'    = [pc EXCEPT ![t] = "priced"]
               /\ UNCHANGED <<queue, pool, mined, calls, hashes>>

\* eth_gasPrice, eth_estimateGas, and the signature.
PriceAndSign(t) == /\ pc[t] = "priced"
                   /\ pc' = [pc EXCEPT ![t] = "signed"]
                   /\ UNCHANGED <<nonce, queue, pool, mined, calls, hashes>>

\* The guard is dropped on every return, Ok or Err.
Return(t) == /\ pc'    = [pc EXCEPT ![t] = "idle"]
             /\ nonce' = [nonce EXCEPT ![t] = 0]
             /\ queue' = [queue EXCEPT ![WalletOf[t]] = Tail(@)]

\* Fault: an error before the broadcast keeps the guard.
FailEarlyLocked(t) == /\ \/ pc[t] = "queued" /\ Holds(t)
                         \/ pc[t] \in {"priced", "signed"}
                      /\ pc' = [pc EXCEPT ![t] = "idle"]
                      /\ nonce' = [nonce EXCEPT ![t] = 0]
                      /\ UNCHANGED <<queue, pool, mined, calls, hashes>>

\* Any of the calls before the broadcast returns Err.
FailEarly(t) == /\ \/ pc[t] = "queued" /\ Holds(t)
                   \/ pc[t] \in {"priced", "signed"}
                /\ Return(t)
                /\ UNCHANGED <<pool, mined, calls, hashes>>

\* What the node makes of a transaction of call c with nonce n: it appends it,
\* lets it take the place of one not mined yet, or rejects it.
Accepted(c, n) == \/ n = Len(pool) /\ pool' = Append(pool, c)
                  \/ /\ mined <= n /\ n < Len(pool)
                     /\ pool' = [pool EXCEPT ![n + 1] = c]

Rejected(n) == n < Len(pool) /\ UNCHANGED pool

\* eth_sendRawTransaction; the answer to an accepted one may be lost.
SendRaw(t) == /\ pc[t] = "signed"
              /\ \/ /\ Accepted(Call(t), nonce[t])
                    /\ hashes' \in {hashes, hashes \cup {<<Call(t), nonce[t]>>}}
                 \/ Rejected(nonce[t]) /\ UNCHANGED hashes
              /\ Return(t)
              /\ UNCHANGED <<mined, calls>>

Mine == /\ mined < Len(pool) /\ mined' = mined + 1
        /\ UNCHANGED <<pc, nonce, queue, pool, calls, hashes>>

Work(t) == GetNonce(t) \/ PriceAndSign(t) \/ FailEarly(t) \/ SendRaw(t)

Next == (\E t \in Tasks : Begin(t) \/ Work(t)) \/ Mine

Spec == Init /\ [][Next]_vars

\* A caller that has the lock goes on: each of its requests is answered.
FairSpec == Spec /\ \A t \in Tasks : WF_vars(Work(t))

----
PCs == {"idle", "queued", "priced", "signed"}

TypeOK == /\ pc    \in [Tasks -> PCs]
          /\ nonce \in [Tasks -> Nat]
          /\ queue \in [Wallets -> Seq(Tasks)]
          /\ pool  \in Seq(CallSet)
          /\ mined \in Nat /\ mined <= Len(pool)
          /\ calls \in [Tasks -> Nat]
          /\ hashes \subseteq (CallSet \X Nat)

\* What send_lock is worth: a transaction whose hash a caller was given is
\* never displaced by another caller of the same wallet object, whatever the
\* callers of other objects with the same key do ("Acquires a mutex before
\* fetching the nonce so that concurrent callers do not submit with the same
\* nonce").
LockProtects ==
  \A h \in hashes :
    /\ h[2] < Len(pool)
    /\ \/ pool[h[2] + 1] = h[1]
       \/ WalletOf[pool[h[2] + 1][1]] # WalletOf[h[1][1]]

\* Every call of send_transaction returns, whatever failed: no error path
\* keeps the lock, and no caller is overtaken for ever.
CallsReturn == \A t \in Tasks : pc[t] = "queued" ~> pc[t] = "idle"

====
