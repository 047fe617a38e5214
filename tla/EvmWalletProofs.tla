---- MODULE EvmWalletProofs ----
(***************************************************************************)
(* What the send lock guarantees, for any number of callers and wallets.   *)
(***************************************************************************)
EXTENDS EvmWallet, SequenceTheorems, TLAPS

(***************************************************************************)
(* A caller that has a nonce has the lock of its wallet.                   *)
(***************************************************************************)
HasNonce(t) == pc[t] \in {"priced", "signed"}

Holding == \A t \in Tasks : HasNonce(t) => Holds(t)

\* The lock admits one caller of a wallet at a time.
LEMMA OneHolder ==
  ASSUME NEW s \in Tasks, NEW t \in Tasks, WalletOf[s] = WalletOf[t],
         Holds(s), Holds(t)
  PROVE  s = t
BY DEF Holds, Queue

\* A caller that returns takes the lock from no one who has a nonce.
LEMMA ReturnKeepsHolding ==
  ASSUME TypeOK, Holding, NEW t \in Tasks, Holds(t), Return(t)
  PROVE  Holding'
<1> SUFFICES ASSUME NEW s \in Tasks, HasNonce(s)' PROVE Holds(s)'
  BY DEF Holding
<1>1. s # t /\ HasNonce(s) /\ Holds(s)
  BY DEF Return, HasNonce, TypeOK, Holding
<1>2. WalletOf[s] # WalletOf[t]
  BY <1>1, OneHolder
<1> QED
  BY <1>1, <1>2 DEF Return, Holds, Queue, TypeOK, Wallets

\* Nor does a caller that joins the queue.
LEMMA BeginKeepsHolding ==
  ASSUME TypeOK, Holding, NEW t \in Tasks, Begin(t)
  PROVE  Holding'
<1> SUFFICES ASSUME NEW s \in Tasks, HasNonce(s)' PROVE Holds(s)'
  BY DEF Holding
<1>1. HasNonce(s) /\ Holds(s)
  BY DEF Begin, HasNonce, TypeOK, Holding
<1>2. Queue(s) \in Seq(Tasks) /\ Queue(s) # <<>> /\ Head(Queue(s)) = s
  BY <1>1 DEF Queue, TypeOK, Wallets, Holds
<1>3. \A x \in Tasks : /\ Append(Queue(s), x) # <<>>
                       /\ Head(Append(Queue(s), x)) = Head(Queue(s))
  BY <1>2, HeadTailProperties, AppendProperties
<1>4. Queue(s)' = Queue(s) \/ Queue(s)' = Append(Queue(s), t)
  BY DEF Begin, Queue, TypeOK, Wallets
<1> QED
  BY <1>2, <1>3, <1>4 DEF Holds

\* A caller that returns leaves well-typed variables.
LEMMA ReturnTypes ==
  ASSUME TypeOK, NEW t \in Tasks, Holds(t), Return(t)
  PROVE  /\ pc' \in [Tasks -> PCs] /\ nonce' \in [Tasks -> Nat]
         /\ queue' \in [Wallets -> Seq(Tasks)]
<1>1. WalletOf[t] \in Wallets /\ Queue(t) \in Seq(Tasks) /\ Queue(t) # <<>>
  BY DEF Wallets, Queue, TypeOK, Holds
<1>2. Tail(Queue(t)) \in Seq(Tasks)
  BY <1>1, HeadTailProperties
<1>3. queue' = [queue EXCEPT ![WalletOf[t]] = Tail(Queue(t))]
  BY DEF Return, Queue
<1> QED
  BY <1>1, <1>2, <1>3 DEF Return, TypeOK, PCs

\* What the node does to its pool.
LEMMA PoolTypes ==
  ASSUME TypeOK, NEW c \in CallSet, NEW n \in Nat, Accepted(c, n)
  PROVE  /\ pool' \in Seq(CallSet) /\ Len(pool') >= Len(pool)
         /\ n < Len(pool') /\ pool'[n + 1] = c
         /\ \A i \in 1 .. Len(pool) : i # n + 1 => pool'[i] = pool[i]
<1>1. CASE n = Len(pool) /\ pool' = Append(pool, c)
  BY <1>1, AppendProperties DEF TypeOK
<1>2. CASE n < Len(pool) /\ pool' = [pool EXCEPT ![n + 1] = c]
  <2>1. n + 1 \in 1 .. Len(pool) /\ Len(pool) \in Nat /\ pool \in Seq(CallSet)
    BY <1>2 DEF TypeOK
  <2>2. pool' \in Seq(CallSet) /\ Len(pool') = Len(pool)
    BY <1>2, <2>1, ExceptSeq
  <2>3. \A i \in 1 .. Len(pool) : pool'[i] = IF i = n + 1 THEN c ELSE pool[i]
    BY <1>2, <2>1, ExceptSeq
  <2> QED
    BY <1>2, <2>1, <2>2, <2>3
<1> QED
  BY <1>1, <1>2 DEF Accepted

\* Every variable has its type, and whoever has a nonce has the lock.
THEOREM TypeCorrect == Spec => [](TypeOK /\ Holding)
<1> USE WalletAssumption
<1>1. Init => TypeOK /\ Holding
  BY DEF Init, TypeOK, PCs, Wallets, Holding, HasNonce
<1>2. TypeOK /\ Holding /\ [Next]_vars => TypeOK' /\ Holding'
  <2> SUFFICES ASSUME TypeOK, Holding, [Next]_vars PROVE TypeOK' /\ Holding'
    OBVIOUS
  <2>0. \A t \in Tasks : /\ WalletOf[t] \in Wallets
                         /\ Call(t) \in CallSet
                         /\ Queue(t) \in Seq(Tasks)
    BY DEF Wallets, Call, CallSet, Queue, TypeOK
  <2>1. ASSUME NEW t \in Tasks, Begin(t) PROVE TypeOK' /\ Holding'
    <3>1. TypeOK'
      BY <2>0, <2>1 DEF Begin, TypeOK, PCs, Queue
    <3> QED
      BY <2>1, <3>1, BeginKeepsHolding
  <2>2. ASSUME NEW t \in Tasks, GetNonce(t) PROVE TypeOK' /\ Holding'
    BY <2>2 DEF GetNonce, TypeOK, PCs, Holding, HasNonce, Holds, Queue
  <2>3. ASSUME NEW t \in Tasks, PriceAndSign(t) PROVE TypeOK' /\ Holding'
    BY <2>3 DEF PriceAndSign, TypeOK, PCs, Holding, HasNonce, Holds, Queue
  <2>4. ASSUME NEW t \in Tasks, FailEarly(t) PROVE TypeOK' /\ Holding'
    <3>1. Holds(t)
      BY <2>4 DEF FailEarly, Holding, HasNonce
    <3>2. TypeOK'
      BY <2>4, <3>1, ReturnTypes DEF FailEarly, TypeOK
    <3> QED
      BY <2>4, <3>1, <3>2, ReturnKeepsHolding DEF FailEarly
  <2>5. ASSUME NEW t \in Tasks, SendRaw(t) PROVE TypeOK' /\ Holding'
    <3>1. Holds(t)
      BY <2>5 DEF SendRaw, Holding, HasNonce
    <3>2. pool' \in Seq(CallSet) /\ Len(pool') >= Len(pool)
      BY <2>0, <2>5, PoolTypes DEF SendRaw, Rejected, TypeOK
    <3>3. mined' \in Nat /\ mined' <= Len(pool')
      BY <2>5, <3>2 DEF SendRaw, TypeOK
    <3>4. calls' \in [Tasks -> Nat] /\ hashes' \subseteq (CallSet \X Nat)
      BY <2>0, <2>5 DEF SendRaw, TypeOK
    <3>5. TypeOK'
      BY <2>5, <3>1, <3>2, <3>3, <3>4, ReturnTypes DEF SendRaw, TypeOK
    <3> QED
      BY <2>5, <3>1, <3>5, ReturnKeepsHolding DEF SendRaw
  <2>6. CASE Mine
    BY <2>6 DEF Mine, TypeOK, Holding, HasNonce, Holds, Queue
  <2>7. CASE UNCHANGED vars
    BY <2>7 DEF vars, TypeOK, Holding, HasNonce, Holds, Queue
  <2> QED
    BY <2>1, <2>2, <2>3, <2>4, <2>5, <2>6, <2>7 DEF Next, Work
<1> QED
  BY <1>1, <1>2, PTL DEF Spec

----
(***************************************************************************)
(* The strengthening: a nonce in hand is above every one that the wallet   *)
(* was answered a hash for.                                                *)
(***************************************************************************)
NonceAbove == \A t \in Tasks, h \in hashes :
                HasNonce(t) /\ WalletOf[t] = WalletOf[h[1][1]] => h[2] < nonce[t]

LockInv == NonceAbove /\ LockProtects

\* A transaction accepted for a caller that has the lock displaces none whose
\* hash another caller of the same wallet was given.
LEMMA AcceptedProtects ==
  ASSUME TypeOK, LockInv, NEW t \in Tasks, HasNonce(t),
         Accepted(Call(t), nonce[t])
  PROVE  \A h \in hashes :
           /\ h[2] < Len(pool')
           /\ \/ pool'[h[2] + 1] = h[1]
              \/ WalletOf[pool'[h[2] + 1][1]] # WalletOf[h[1][1]]
<1> SUFFICES ASSUME NEW h \in hashes
             PROVE  /\ h[2] < Len(pool')
                    /\ \/ pool'[h[2] + 1] = h[1]
                       \/ WalletOf[pool'[h[2] + 1][1]] # WalletOf[h[1][1]]
  OBVIOUS
<1>1. /\ h[1] \in CallSet /\ h[2] \in Nat /\ h[2] < Len(pool)
      /\ pool \in Seq(CallSet) /\ nonce[t] \in Nat /\ mined \in Nat
      /\ Call(t)[1] = t /\ Call(t) \in CallSet
  BY DEF TypeOK, LockInv, LockProtects, Call, CallSet
<1>2. CASE nonce[t] = h[2]
  <2>1. WalletOf[t] # WalletOf[h[1][1]]
    BY <1>1, <1>2 DEF LockInv, NonceAbove
  <2>2. h[2] < Len(pool') /\ pool'[h[2] + 1] = Call(t)
    BY <1>1, <1>2, PoolTypes
  <2> QED
    BY <1>1, <2>1, <2>2
<1>3. CASE nonce[t] # h[2]
  <2>1. Len(pool') >= Len(pool) /\ pool'[h[2] + 1] = pool[h[2] + 1]
    BY <1>1, <1>3, PoolTypes
  <2>2. Len(pool) \in Nat /\ Len(pool') \in Nat
    BY <1>1, PoolTypes
  <2> QED
    BY <1>1, <2>1, <2>2 DEF LockInv, LockProtects
<1> QED
  BY <1>2, <1>3

\* No caller displaces a transaction of its own wallet that was reported sent.
THEOREM LockIsEnough == Spec => []LockProtects
<1>1. Init => LockInv
  BY DEF Init, LockInv, NonceAbove, LockProtects, HasNonce
<1>2. TypeOK /\ TypeOK' /\ Holding /\ LockInv /\ [Next]_vars => LockInv'
  <2> SUFFICES ASSUME TypeOK, TypeOK', Holding, LockInv, [Next]_vars
               PROVE  LockInv'
    OBVIOUS
  <2>1. ASSUME NEW t \in Tasks, Begin(t) PROVE LockInv'
    <3>1. \A s \in Tasks : HasNonce(s)' => HasNonce(s)
      BY <2>1 DEF Begin, HasNonce, TypeOK
    <3> QED
      BY <2>1, <3>1 DEF Begin, LockInv, NonceAbove, LockProtects
  <2>2. ASSUME NEW t \in Tasks, GetNonce(t) PROVE LockInv'
    <3>1. \A s \in Tasks : HasNonce(s)' => \/ HasNonce(s) /\ nonce'[s] = nonce[s]
                                           \/ nonce'[s] = Len(pool)
      BY <2>2 DEF GetNonce, HasNonce, TypeOK
    <3> QED
      BY <2>2, <3>1 DEF GetNonce, LockInv, NonceAbove, LockProtects
  <2>3. ASSUME NEW t \in Tasks, PriceAndSign(t) PROVE LockInv'
    <3>1. \A s \in Tasks : HasNonce(s)' = HasNonce(s)
      BY <2>3 DEF PriceAndSign, HasNonce, TypeOK
    <3> QED
      BY <2>3, <3>1 DEF PriceAndSign, LockInv, NonceAbove, LockProtects
  <2>4. ASSUME NEW t \in Tasks, FailEarly(t) PROVE LockInv'
    <3>1. \A s \in Tasks : HasNonce(s)' => HasNonce(s) /\ nonce'[s] = nonce[s]
      BY <2>4 DEF FailEarly, Return, HasNonce, TypeOK
    <3> QED
      BY <2>4, <3>1 DEF FailEarly, LockInv, NonceAbove, LockProtects
  <2>5. ASSUME NEW t \in Tasks, SendRaw(t) PROVE LockInv'
    <3>1. HasNonce(t) /\ Holds(t)
      BY <2>5 DEF SendRaw, Holding, HasNonce
    <3>2. \A s \in Tasks : HasNonce(s)' => /\ s # t /\ HasNonce(s)
                                           /\ nonce'[s] = nonce[s]
      BY <2>5 DEF SendRaw, Return, HasNonce, TypeOK
    <3>3. \A s \in Tasks : HasNonce(s)' => WalletOf[s] # WalletOf[t]
      BY <3>1, <3>2, OneHolder DEF Holding
    <3>4. CASE Accepted(Call(t), nonce[t])
                 /\ hashes' \in {hashes, hashes \cup {<<Call(t), nonce[t]>>}}
      <4> DEFINE hash == <<Call(t), nonce[t]>>
      <4>1. \A h \in hashes' : h \in hashes \/ h = hash
        BY <3>4
      <4>2. hash[1][1] = t /\ hash[2] = nonce[t] /\ nonce[t] \in Nat
        BY DEF Call, TypeOK
      <4>3. NonceAbove'
        BY <3>2, <3>3, <4>1, <4>2 DEF LockInv, NonceAbove
      <4>4. nonce[t] < Len(pool') /\ pool'[nonce[t] + 1] = Call(t)
        BY <3>4, <4>2, PoolTypes DEF Call, CallSet, TypeOK
      <4>5. LockProtects'
        BY <3>1, <3>4, <4>1, <4>2, <4>4, AcceptedProtects DEF LockProtects
      <4> QED
        BY <4>3, <4>5 DEF LockInv
    <3>5. CASE Rejected(nonce[t]) /\ UNCHANGED hashes
      BY <3>2, <3>5 DEF Rejected, LockInv, NonceAbove, LockProtects
    <3> QED
      BY <2>5, <3>4, <3>5 DEF SendRaw
  <2>6. ASSUME UNCHANGED <<pc, nonce, queue, pool, calls, hashes>> PROVE LockInv'
    BY <2>6 DEF LockInv, NonceAbove, LockProtects, HasNonce
  <2>7. CASE Mine \/ UNCHANGED vars
    BY <2>6, <2>7 DEF Mine, vars
  <2> QED
    BY <2>1, <2>2, <2>3, <2>4, <2>5, <2>7 DEF Next, Work
<1>3. LockInv => LockProtects
  BY DEF LockInv
<1> QED
  BY <1>1, <1>2, <1>3, TypeCorrect, PTL DEF Spec

====
