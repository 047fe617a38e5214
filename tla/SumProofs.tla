---- MODULE SumProofs ----
(***************************************************************************)
(* The bounds on sums over all orders: what a lost process repeats, what   *)
(* the exchange may be given in a window, and what it accepts within the   *)
(* daily volume cap.                                                       *)
(*                                                                         *)
(* A sum is a fold of the community modules, a recursive function over   *)
(* the subsets of a finite set.  Instead of an induction theorem, which    *)
(* takes a predicate, the lemmas on it use least elements: of the subsets  *)
(* for which a claim fails, none is minimal.                               *)
(***************************************************************************)
EXTENDS CustodyProofs, DailyVolume, WellFoundedInduction

(***************************************************************************)
(* Sums.                                                                   *)
(***************************************************************************)
\* Among subsets of a finite set one is minimal.
LEMMA MinimalSubset ==
  ASSUME NEW S, IsFiniteSet(S), NEW T \in SUBSET (SUBSET S), T # {}
  PROVE  \E U \in T : \A V \in T : V \subseteq U => V = U
<1>1. FiniteSubsetsOf(S) = SUBSET S
  BY FS_FiniteSubsetsOfFinite
<1>2. IsWellFoundedOn(StrictSubsetOrdering(S), SUBSET S)
  BY <1>1, FS_StrictSubsetOrderingWellFounded
<1>3. \E U \in T : \A V \in T : ~(<<V, U>> \in StrictSubsetOrdering(S))
  BY <1>2, WFMin
<1> QED
  BY <1>3 DEF StrictSubsetOrdering

\* g gives the total of f over every subset of S, whichever element is taken
\* away first.
Totals(f, S, g) ==
  /\ g \in [SUBSET S -> Nat] /\ g[{}] = 0
  /\ \A s \in SUBSET S : \A x \in s : g[s] = f[x] + g[s \ {x}]

\* Every finite set has totals.
LEMMA TotalsExist ==
  ASSUME NEW S, IsFiniteSet(S), NEW f, \A x \in S : f[x] \in Nat
  PROVE  \E g : Totals(f, S, g)
<1> DEFINE T == {U \in SUBSET S : ~\E g : Totals(f, U, g)}
<1> SUFFICES ASSUME T # {} PROVE FALSE
  OBVIOUS
<1>0. T \in SUBSET (SUBSET S)
  OBVIOUS
<1>1. PICK U \in T : \A V \in T : V \subseteq U => V = U
  <2> HIDE DEF T
  <2> QED
    BY <1>0, MinimalSubset
<1>2. CASE U = {}
  <2>1. Totals(f, U, [s \in SUBSET U |-> 0])
    BY <1>2 DEF Totals
  <2> QED
    BY <2>1
<1>3. CASE U # {}
  <2>1. PICK x \in U : TRUE
    BY <1>3
  <2> DEFINE V == U \ {x}
  <2>2. PICK h : Totals(f, V, h)
    BY <1>1
  <2> DEFINE g == [s \in SUBSET U |-> IF x \in s THEN f[x] + h[s \ {x}] ELSE h[s]]
  <2>3. /\ h \in [SUBSET V -> Nat] /\ h[{}] = 0 /\ f[x] \in Nat
        /\ \A s \in SUBSET V : \A y \in s : h[s] = f[y] + h[s \ {y}] /\ f[y] \in Nat
    BY <2>2 DEF Totals
  <2>4. \A s \in SUBSET U : s \ {x} \in SUBSET V /\ (x \notin s => s \in SUBSET V)
    OBVIOUS
  <2>5. g \in [SUBSET U -> Nat] /\ g[{}] = 0
    BY <2>3, <2>4
  <2>6. ASSUME NEW s \in SUBSET U, NEW y \in s
        PROVE  g[s] = f[y] + g[s \ {y}]
    <3>1. s \ {y} \in SUBSET U
      OBVIOUS
    <3>2. CASE x \notin s
      <4>1. s \in SUBSET V /\ x \notin s \ {y}
        BY <3>2
      <4> QED
        BY <2>3, <3>1, <3>2, <4>1
    <3>3. CASE x = y
      BY <3>1, <3>3
    <3>4. CASE x \in s /\ x # y
      <4>1. /\ s \ {x} \in SUBSET V /\ y \in s \ {x} /\ x \in s \ {y}
            /\ (s \ {x}) \ {y} = (s \ {y}) \ {x} /\ (s \ {y}) \ {x} \in SUBSET V
        BY <3>4
      <4>2. h[s \ {x}] = f[y] + h[(s \ {y}) \ {x}] /\ f[y] \in Nat
        <5>1. h[s \ {x}] = f[y] + h[(s \ {x}) \ {y}] /\ f[y] \in Nat
          BY <2>3, <4>1
        <5> QED
          BY <4>1, <5>1
      <4>3. g[s] = f[x] + h[s \ {x}] /\ g[s \ {y}] = f[x] + h[(s \ {y}) \ {x}]
        BY <3>1, <3>4, <4>1
      <4>4. h[(s \ {y}) \ {x}] \in Nat /\ f[x] \in Nat
        BY <2>3, <4>1
      <4> QED
        BY <4>2, <4>3, <4>4
    <3> QED
      BY <3>2, <3>3, <3>4
  <2>7. Totals(f, U, g)
    <3> HIDE DEF g
    <3> QED
      BY <2>5, <2>6 DEF Totals
  <2> QED
    BY <2>7
<1> QED
  BY <1>2, <1>3

\* The recursive function of the fold, for one f and S.
SumStep(f, S, g) ==
  g = [s \in SUBSET S |->
         IF s = {} THEN 0 ELSE f[CHOOSE x \in s : TRUE] + g[s \ {CHOOSE x \in s : TRUE}]]

\* The sum is the total over the whole set.
LEMMA SumIsTotal ==
  ASSUME NEW S, IsFiniteSet(S), NEW f, NEW g, Totals(f, S, g)
  PROVE  SumFunctionOnSet(f, S) = g[S]
<1> DEFINE h == CHOOSE h : SumStep(f, S, h)
<1>1. SumFunctionOnSet(f, S) = h[S]
  BY DEF SumFunctionOnSet, FoldFunctionOnSet, MapThenFoldSet, SumStep
<1>2. \A s \in SUBSET S : s # {} => (CHOOSE x \in s : TRUE) \in s
  OBVIOUS
<1>3. SumStep(f, S, g)
  <2>1. g = [s \in SUBSET S |-> g[s]]
    BY DEF Totals
  <2>2. \A s \in SUBSET S :
          g[s] = IF s = {} THEN 0
                 ELSE f[CHOOSE x \in s : TRUE] + g[s \ {CHOOSE x \in s : TRUE}]
    BY <1>2 DEF Totals
  <2> QED
    BY <2>1, <2>2 DEF SumStep
<1>4. SumStep(f, S, h)
  BY <1>3
<1> HIDE DEF h
<1> DEFINE T == {s \in SUBSET S : h[s] # g[s]}
<1>5. T = {}
  <2> SUFFICES ASSUME T # {} PROVE FALSE
    OBVIOUS
  <2>0. T \in SUBSET (SUBSET S)
    OBVIOUS
  <2>1. PICK U \in T : \A V \in T : V \subseteq U => V = U
    <3> HIDE DEF T
    <3> QED
      BY <2>0, MinimalSubset
  <2> DEFINE c == CHOOSE x \in U : TRUE
  <2>2. U # {}
    BY <1>4 DEF SumStep, Totals
  <2>3. c \in U
    BY <2>2
  <2>4. /\ h[U] = f[c] + h[U \ {c}]
        /\ g[U] = f[c] + g[U \ {c}]
    BY <1>3, <1>4, <2>2 DEF SumStep
  <2>5. U \ {c} \notin T /\ U \ {c} \in SUBSET S
    BY <2>1, <2>3
  <2> QED
    BY <2>4, <2>5
<1> QED
  BY <1>1, <1>5

\* What a sum needs of its terms.
Summable(f, S) == IsFiniteSet(S) /\ \A x \in S : f[x] \in Nat

\* The sum over a subset is a total too.
LEMMA SumOfSubset ==
  ASSUME NEW S, IsFiniteSet(S), NEW f, NEW g, Totals(f, S, g), NEW U \in SUBSET S
  PROVE  SumFunctionOnSet(f, U) = g[U]
<1> DEFINE h == [s \in SUBSET U |-> g[s]]
<1>1. Totals(f, U, h)
  BY DEF Totals
<1>2. IsFiniteSet(U)
  BY FS_Subset
<1> HIDE DEF h
<1>3. SumFunctionOnSet(f, U) = h[U]
  BY <1>1, <1>2, SumIsTotal
<1> QED
  BY <1>3 DEF h

\* Nothing, one more, and less.
LEMMA SumOfNothing ==
  ASSUME NEW f
  PROVE  SumFunctionOnSet(f, {}) = 0
<1>1. IsFiniteSet({})
  BY FS_EmptySet
<1>2. PICK g : Totals(f, {}, g)
  BY <1>1, TotalsExist
<1> QED
  BY <1>1, <1>2, SumIsTotal DEF Totals

\* A new element adds its term.
LEMMA SumOfOneMore ==
  ASSUME NEW S, NEW x, x \notin S, NEW f, Summable(f, S \cup {x})
  PROVE  /\ SumFunctionOnSet(f, S \cup {x}) = f[x] + SumFunctionOnSet(f, S)
         /\ SumFunctionOnSet(f, S) \in Nat
<1>1. PICK g : Totals(f, S \cup {x}, g)
  BY TotalsExist DEF Summable
<1>2. /\ SumFunctionOnSet(f, S \cup {x}) = g[S \cup {x}]
      /\ SumFunctionOnSet(f, S) = g[S]
  BY <1>1, SumOfSubset DEF Summable
<1>3. (S \cup {x}) \ {x} = S
  OBVIOUS
<1> QED
  BY <1>1, <1>2, <1>3 DEF Totals

\* A sum is a natural number, and depends on the terms only.
LEMMA SumOfTheSame ==
  ASSUME NEW S, NEW f, NEW g, Summable(f, S), \A x \in S : f[x] = g[x]
  PROVE  /\ SumFunctionOnSet(f, S) = SumFunctionOnSet(g, S)
         /\ SumFunctionOnSet(f, S) \in Nat
<1>1. PICK h : Totals(f, S, h)
  BY TotalsExist DEF Summable
<1>2. Totals(g, S, h)
  BY <1>1 DEF Totals
<1>3. SumFunctionOnSet(f, S) = h[S] /\ SumFunctionOnSet(g, S) = h[S]
  BY <1>1, <1>2, SumIsTotal DEF Summable
<1> QED
  BY <1>1, <1>3 DEF Totals

\* A subset sums up to no more.
LEMMA SumOfLess ==
  ASSUME NEW S, NEW f, Summable(f, S), NEW U \in SUBSET S
  PROVE  SumFunctionOnSet(f, U) <= SumFunctionOnSet(f, S)
<1>1. PICK g : Totals(f, S, g)
  BY TotalsExist DEF Summable
<1>2. SumFunctionOnSet(f, U) = g[U] /\ SumFunctionOnSet(f, S) = g[S]
  BY <1>1, SumOfSubset DEF Summable
<1> DEFINE T == {V \in SUBSET S : U \subseteq V /\ ~(g[U] <= g[V])}
<1>3. T = {}
  <2> SUFFICES ASSUME T # {} PROVE FALSE
    OBVIOUS
  <2>0. T \in SUBSET (SUBSET S) /\ IsFiniteSet(S)
    BY DEF Summable
  <2>1. PICK V \in T : \A W \in T : W \subseteq V => W = V
    <3> HIDE DEF T
    <3> QED
      BY <2>0, MinimalSubset
  <2>2. g[U] \in Nat /\ g[V] \in Nat
    BY <1>1 DEF Totals
  <2>3. U # V
    BY <2>2
  <2>4. PICK x \in V : x \notin U
    BY <2>3
  <2>5. V \ {x} \notin T /\ V \ {x} \in SUBSET S /\ U \subseteq V \ {x}
    BY <2>1, <2>4
  <2>6. g[U] <= g[V \ {x}] /\ g[V] = f[x] + g[V \ {x}] /\ f[x] \in Nat /\ g[V \ {x}] \in Nat
    BY <1>1, <2>5 DEF Totals, Summable
  <2> QED
    BY <2>2, <2>6
<1> QED
  BY <1>2, <1>3

\* Fewer and smaller terms sum up to no more.
LEMMA SumOfSmaller ==
  ASSUME NEW S, NEW g, Summable(g, S), NEW U \in SUBSET S, NEW f,
         \A x \in U : f[x] \in Nat /\ f[x] <= g[x]
  PROVE  SumFunctionOnSet(f, U) <= SumFunctionOnSet(g, S)
<1>1. Summable(f, U) /\ Summable(g, U) /\ IsFiniteSet(U)
  BY FS_Subset DEF Summable
<1>2. PICK h : Totals(f, U, h)
  BY <1>1, TotalsExist DEF Summable
<1>3. PICK k : Totals(g, U, k)
  BY <1>1, TotalsExist DEF Summable
<1>4. SumFunctionOnSet(f, U) = h[U] /\ SumFunctionOnSet(g, U) = k[U]
  BY <1>1, <1>2, <1>3, SumIsTotal
<1>5. SumFunctionOnSet(g, U) <= SumFunctionOnSet(g, S)
  BY SumOfLess
<1>6. SumFunctionOnSet(g, S) \in Nat
  BY SumOfTheSame
<1> DEFINE T == {V \in SUBSET U : ~(h[V] <= k[V])}
<1>7. T = {}
  <2> SUFFICES ASSUME T # {} PROVE FALSE
    OBVIOUS
  <2>0. T \in SUBSET (SUBSET U)
    OBVIOUS
  <2>1. PICK V \in T : \A W \in T : W \subseteq V => W = V
    <3> HIDE DEF T
    <3> QED
      BY <1>1, <2>0, MinimalSubset
  <2>2. V # {} /\ V \in SUBSET U
    <3>1. V \in SUBSET U /\ ~(h[V] <= k[V])
      OBVIOUS
    <3>2. h[{}] = 0 /\ k[{}] = 0
      BY <1>2, <1>3 DEF Totals
    <3> HIDE DEF T
    <3> QED
      BY <3>1, <3>2
  <2>3. PICK x \in V : TRUE
    BY <2>2
  <2>4. V \ {x} \notin T /\ V \ {x} \in SUBSET U /\ x \in U
    BY <2>1, <2>2, <2>3
  <2>5. /\ h[V] = f[x] + h[V \ {x}] /\ k[V] = g[x] + k[V \ {x}]
        /\ h[V \ {x}] \in Nat /\ k[V \ {x}] \in Nat
    BY <1>2, <1>3, <2>2, <2>3, <2>4 DEF Totals
  <2>6. f[x] \in Nat /\ g[x] \in Nat /\ f[x] <= g[x] /\ h[V \ {x}] <= k[V \ {x}]
    BY <1>1, <2>4 DEF Summable
  <2> QED
    BY <2>1, <2>5, <2>6
<1>8. h[U] <= k[U] /\ h[U] \in Nat /\ k[U] \in Nat
  BY <1>2, <1>3, <1>7 DEF Totals
<1> QED
  BY <1>4, <1>5, <1>6, <1>8

\* Raising one term by one raises the sum by no more than one.
LEMMA SumOfOneRaised ==
  ASSUME NEW S, NEW f, Summable(f, S), NEW x, NEW g,
         \A y \in S \cup {x} : g[y] \in Nat,
         \A y \in S \ {x} : g[y] = f[y],
         IF x \in S THEN g[x] <= f[x] + 1 ELSE g[x] <= 1
  PROVE  SumFunctionOnSet(g, S \cup {x}) <= SumFunctionOnSet(f, S) + 1
<1> DEFINE R == S \ {x}
<1>1. IsFiniteSet(R) /\ x \notin R /\ R \cup {x} = S \cup {x} /\ IsFiniteSet(R \cup {x})
  BY FS_Subset, FS_AddElement DEF Summable
<1>2. Summable(g, R \cup {x}) /\ Summable(f, R)
  BY <1>1 DEF Summable
<1>3. /\ SumFunctionOnSet(g, R \cup {x}) = g[x] + SumFunctionOnSet(g, R)
      /\ SumFunctionOnSet(g, R) \in Nat
  <2> HIDE DEF R
  <2> QED
    BY <1>1, <1>2, SumOfOneMore
<1>4. SumFunctionOnSet(f, R) = SumFunctionOnSet(g, R) /\ SumFunctionOnSet(f, R) \in Nat
  <2>1. \A y \in R : f[y] = g[y]
    OBVIOUS
  <2> HIDE DEF R
  <2> QED
    BY <1>2, <2>1, SumOfTheSame
<1>5. g[x] \in Nat
  OBVIOUS
<1>6. CASE x \in S
  <2>1. R \cup {x} = S /\ f[x] \in Nat /\ g[x] <= f[x] + 1
    BY <1>6 DEF Summable
  <2>2. SumFunctionOnSet(f, R \cup {x}) = f[x] + SumFunctionOnSet(f, R)
    <3>1. Summable(f, R \cup {x})
      BY <2>1
    <3> HIDE DEF R
    <3> QED
      BY <1>1, <3>1, SumOfOneMore
  <2> HIDE DEF R
  <2> QED
    BY <1>1, <1>3, <1>4, <1>5, <2>1, <2>2
<1>7. CASE x \notin S
  <2>1. R = S /\ g[x] <= 1
    BY <1>7
  <2> HIDE DEF R
  <2> QED
    BY <1>1, <1>3, <1>4, <1>5, <2>1
<1> QED
  BY <1>6, <1>7

----
(***************************************************************************)
(* What a lost process repeats.  An effect of the stage the file names is  *)
(* made again after a restart, unless the call that made it is about to    *)
(* store another stage.  So every effect is charged what was repeated of   *)
(* it, and one more while its order stands where it is made.  A step only  *)
(* ever lowers these charges: the one it makes is charged when the process *)
(* is lost before its status is stored.                                    *)
(***************************************************************************)
Pairs == Orders \X (Effects \ SecondCalls)

\* The call in flight is about to take its order off the stage it stands in.
Leaves(o) == /\ o = cur
             /\ \/ phase \in {"burn", "payout"}
                \/ phase = "commit" /\ ret.stage # memory[cur].stage

MadeAgain(o, e) == disk[o].stage = SentIn(e) /\ ~Leaves(o)

Charge(n, again) == IF n = 0 \/ again THEN n ELSE n - 1

Charges == [x \in Pairs |-> Charge(sent[x[1]][x[2]], MadeAgain(x[1], x[2]))]

Charged == {x \in Pairs : Charges[x] > 0}

ChargesArePaid == IsFiniteSet(Charged) /\ SumFunctionOnSet(Charges, Charged) <= crashes

\* Charges are natural numbers.
LEMMA ChargeTypes ==
  ASSUME NEW n \in Nat, NEW a
  PROVE  Charge(n, a) \in Nat
BY DEF Charge

LEMMA ChargesTypes ==
  ASSUME sent \in [Orders -> [Effects -> Nat]]
  PROVE  \A x \in Pairs : Charges[x] \in Nat
<1> SUFFICES ASSUME NEW x \in Pairs PROVE Charges[x] \in Nat
  OBVIOUS
<1>1. sent[x[1]][x[2]] \in Nat
  BY DEF Pairs
<1> HIDE DEF Pairs
<1> QED
  BY <1>1, ChargeTypes DEF Charges

\* Lower charges stay paid.
LEMMA LowerIsPaid ==
  ASSUME ChargesArePaid, crashes \in Nat, crashes' \in Nat, crashes <= crashes',
         sent \in [Orders -> [Effects -> Nat]], (sent \in [Orders -> [Effects -> Nat]])',
         \A x \in Pairs : Charges'[x] <= Charges[x]
  PROVE  ChargesArePaid'
<1>1. \A x \in Pairs : Charges[x] \in Nat /\ Charges'[x] \in Nat
  <2>1. (\A x \in Pairs : Charges[x] \in Nat)'
    BY ChargesTypes, PTL
  <2> QED
    BY <2>1, ChargesTypes DEF Pairs
<1>2. Charged' \in SUBSET Charged
  <2>1. \A x \in Pairs : Charges'[x] > 0 => Charges[x] > 0
    BY <1>1
  <2> HIDE DEF Charges
  <2> QED
    BY <2>1 DEF Charged, Pairs
<1>3. Charged \subseteq Pairs
  BY DEF Charged
<1> HIDE DEF Charges, Charged, Pairs
<1>4. Summable(Charges, Charged)
  BY <1>1, <1>3 DEF Summable, ChargesArePaid
<1>5. \A x \in Charged' : Charges'[x] \in Nat /\ Charges'[x] <= Charges[x]
  BY <1>1, <1>2, <1>3
<1>6. SumFunctionOnSet(Charges', Charged') <= SumFunctionOnSet(Charges, Charged)
  BY <1>2, <1>4, <1>5, SumOfSmaller
<1>7. SumFunctionOnSet(Charges', Charged') \in Nat /\ SumFunctionOnSet(Charges, Charged) \in Nat
  <2>1. IsFiniteSet(Charged')
    BY <1>2, <1>4, FS_Subset DEF Summable
  <2>2. Summable(Charges', Charged')
    BY <1>5, <2>1 DEF Summable
  <2> QED
    BY <1>4, <2>2, SumOfTheSame
<1>8. IsFiniteSet(Charged')
  BY <1>2, <1>4, FS_Subset DEF Summable
<1> QED
  BY <1>6, <1>7, <1>8 DEF ChargesArePaid

\* A charge stays what it is, or falls, with what it is made of.
LEMMA ChargeFalls ==
  ASSUME NEW n \in Nat, NEW m \in Nat, NEW a, NEW b,
         \/ m = n /\ (b => a)
         \/ m <= n + 1 /\ a /\ ~b
         \/ m = 0
  PROVE  Charge(m, b) <= Charge(n, a)
BY DEF Charge

\* The charges of all orders fall with those of each.
LEMMA ChargesFall ==
  ASSUME TypeOK, TypeOK',
         \A o \in Orders, e \in Effects \ SecondCalls :
           \/ sent'[o][e] = sent[o][e] /\ (MadeAgain(o, e)' => MadeAgain(o, e))
           \/ sent'[o][e] <= sent[o][e] + 1 /\ MadeAgain(o, e) /\ ~MadeAgain(o, e)'
           \/ sent'[o][e] = 0
  PROVE  \A x \in Pairs : Charges'[x] <= Charges[x]
<1> SUFFICES ASSUME NEW x \in Pairs PROVE Charges'[x] <= Charges[x]
  OBVIOUS
<1> DEFINE o == x[1]  e == x[2]
<1>1. o \in Orders /\ e \in Effects \ SecondCalls /\ e \in Effects
  BY DEF Pairs
<1>2. sent[o][e] \in Nat /\ sent'[o][e] \in Nat
  BY <1>1 DEF TypeOK
<1>3. /\ Charges[x] = Charge(sent[o][e], MadeAgain(o, e))
      /\ Charges'[x] = Charge(sent'[o][e], MadeAgain(o, e)')
  BY DEF Charges, Pairs
<1> HIDE DEF o, e
<1>4. Charge(sent'[o][e], MadeAgain(o, e)') <= Charge(sent[o][e], MadeAgain(o, e))
  BY <1>1, <1>2, ChargeFalls
<1> QED
  BY <1>3, <1>4

\* A step makes only what its order would be made again anyway, and leaves the
\* stage it was made in.
LEMMA StepLowers ==
  ASSUME TypeOK, CallOK, NoneAhead, TypeOK', Step
  PROVE  \A x \in Pairs : Charges'[x] <= Charges[x]
<1> USE StagesDiffer
<1>1. StepShape
  BY StepHasShape
<1>2. /\ memory' = memory /\ disk' = disk /\ memory = disk /\ cur' = cur /\ cur \in Orders
      /\ memory[cur].stage \in 1 .. 12 /\ phase \in {"step", "burn", "payout"}
  BY <1>1 DEF StepShape, StepUnchanged, storeVars, NoneAhead, IsActive, Waits, Fails, Moves,
     Halves, Return, Goto
<1>3. sent' = sent \/ \E d \in Effects : Makes(d)
  BY <1>1, CallPairs DEF StepShape, Waits, Fails, Moves, Halves, Needed
<1>4. \/ phase' \in {"burn", "payout"}
      \/ phase' = "commit" /\ ret'.stage # memory[cur].stage
      \/ Waits
  BY <1>1, <1>2, CallPairs DEF StepShape, Fails, Moves, Halves, Return, Goto, FailedIn
<1>5. ASSUME NEW o \in Orders, NEW e \in Effects \ SecondCalls
      PROVE  \/ sent'[o][e] = sent[o][e] /\ (MadeAgain(o, e)' => MadeAgain(o, e))
             \/ sent'[o][e] <= sent[o][e] + 1 /\ MadeAgain(o, e) /\ ~MadeAgain(o, e)'
  <2>1. CASE o # cur
    <3>1. sent'[o][e] = sent[o][e]
      BY <1>3, <2>1 DEF Makes, Broadcast, TypeOK
    <3>2. MadeAgain(o, e)' => MadeAgain(o, e)
      BY <1>2, <2>1 DEF MadeAgain, Leaves
    <3> QED
      BY <3>1, <3>2
  <2>2. CASE o = cur /\ Waits
    <3>1. sent' = sent /\ phase = "step"
      BY <2>2 DEF Waits
    <3>2. MadeAgain(o, e)' => MadeAgain(o, e)
      BY <1>2, <3>1 DEF MadeAgain, Leaves
    <3> QED
      BY <3>1, <3>2
  <2>3. CASE o = cur /\ ~Waits
    <3>1. ~MadeAgain(o, e)'
      BY <1>2, <1>4, <2>3 DEF MadeAgain, Leaves
    <3>2. CASE sent'[o][e] = sent[o][e]
      BY <3>1, <3>2
    <3>3. CASE sent'[o][e] # sent[o][e]
      <4>1. PICK d \in Effects : Makes(d)
        BY <1>3, <3>3
      <4>2. e = d /\ sent'[o][e] = sent[o][e] + 1
        BY <2>3, <3>3, <4>1 DEF Makes, Broadcast, TypeOK
      <4>3. SentIn(e) = disk[cur].stage /\ phase = "step"
        BY <1>2, <4>1, <4>2 DEF Makes
      <4>4. MadeAgain(o, e)
        BY <2>3, <4>3 DEF MadeAgain, Leaves
      <4>5. sent[o][e] \in Nat
        BY DEF TypeOK
      <4> QED
        BY <3>1, <4>2, <4>4, <4>5
    <3> QED
      BY <3>2, <3>3
  <2> QED
    BY <2>1, <2>2, <2>3
<1> QED
  BY <1>5, ChargesFall

\* Storing a status makes nothing again that was made before.
LEMMA WriteLowers ==
  ASSUME TypeOK, CallOK, NoneAhead, TypeOK', Persistent, ~IoErrors, Insert \/ Finish
  PROVE  \A x \in Pairs : Charges'[x] <= Charges[x]
<1> USE StagesDiffer
<1>1. /\ up /\ cur \in Orders /\ phase' = "idle" /\ sent' = sent
      /\ \A o \in Orders : disk'[o] = IF o = cur THEN ret ELSE disk[o]
      /\ memory = disk
  BY DEF Insert, Finish, EndCall, Put, FlushOk, FlushFails, TypeOK, StoreTypeOK, CallOK,
     NoneAhead
<1>2. disk[cur].stage \in 0 .. 12
  BY <1>1, StageNumbers DEF CallOK, Insert, Finish, IsActive
<1>3. Reached(disk[cur]) = disk[cur].stage
  BY <1>2 DEF Reached
<1>4. ASSUME NEW o \in Orders, NEW e \in Effects \ SecondCalls
      PROVE  \/ sent'[o][e] = sent[o][e] /\ (MadeAgain(o, e)' => MadeAgain(o, e))
             \/ sent'[o][e] = 0
  <2>1. CASE o # cur
    BY <1>1, <2>1 DEF MadeAgain, Leaves
  <2>2. CASE o = cur /\ ret.stage = disk[cur].stage
    <3>1. MadeAgain(o, e)' => MadeAgain(o, e)
      BY <1>1, <2>2 DEF MadeAgain, Leaves, Insert, Finish
    <3> QED
      BY <1>1, <3>1
  <2>3. CASE o = cur /\ ret.stage # disk[cur].stage
    <3>1. SentIn(e) \in 1 .. 12
      BY SentInActive
    <3>2. CASE SentIn(e) = ret.stage
      <4>1. ret.stage = disk[cur].stage + 1
        BY <1>1, <1>2, <2>3, <3>1, <3>2, EdgeCases DEF CallOK, Insert, Finish, At
      <4>2. sent[cur][e] = 0
        BY <1>1, <1>2, <1>3, <3>2, <4>1 DEF NoneAhead, NotAhead
      <4> QED
        BY <1>1, <2>3, <4>2
    <3>3. CASE SentIn(e) # ret.stage
      BY <1>1, <2>3, <3>3 DEF MadeAgain
    <3> QED
      BY <3>2, <3>3
  <2> QED
    BY <2>1, <2>2, <2>3
<1> QED
  BY <1>4, ChargesFall

\* Two effects that are not second calls belong to two stages.
LEMMA OnePerStage ==
  \A d, e \in Effects \ SecondCalls : SentIn(d) = SentIn(e) => d = e
BY OneEffect DEF SecondCalls, FirstCall

\* Losing the process raises one charge, by one.
LEMMA CrashIsPaid ==
  ASSUME TypeOK, CallOK, TypeOK', ChargesArePaid, Crash
  PROVE  ChargesArePaid'
<1>1. /\ sent' = sent /\ disk' = disk /\ crashes' = crashes + 1 /\ phase' = "idle"
      /\ crashes \in Nat
  BY DEF Crash, StoreCrash, EndCall, TypeOK
<1>2. \A x \in Pairs : Charges[x] \in Nat /\ Charges'[x] \in Nat
  <2>1. (\A x \in Pairs : Charges[x] \in Nat)'
    BY ChargesTypes, PTL DEF TypeOK
  <2> QED
    BY <2>1, ChargesTypes DEF Pairs, TypeOK
<1> DEFINE Hit == {x \in Pairs : x[1] = cur /\ SentIn(x[2]) = disk[cur].stage}
<1>3. \A x \in Pairs \ Hit : Charges'[x] = Charges[x]
  <2> SUFFICES ASSUME NEW x \in Pairs \ Hit PROVE Charges'[x] = Charges[x]
    OBVIOUS
  <2>1. MadeAgain(x[1], x[2])' <=> MadeAgain(x[1], x[2])
    BY <1>1 DEF MadeAgain, Leaves
  <2> QED
    BY <1>1, <2>1 DEF Charges, Charge, Pairs
<1>4. \A x \in Pairs : Charges'[x] <= Charges[x] + 1
  <2> SUFFICES ASSUME NEW x \in Pairs PROVE Charges'[x] <= Charges[x] + 1
    OBVIOUS
  <2>1. sent[x[1]][x[2]] \in Nat
    BY DEF Pairs, TypeOK
  <2> QED
    BY <1>1, <2>1 DEF Charges, Charge, Pairs
<1>5. \A x, y \in Hit : x = y
  BY OnePerStage DEF Pairs
<1>6. IsFiniteSet(Charged) /\ Charged \subseteq Pairs /\ Charged' \subseteq Pairs
      /\ \A x \in Pairs \ Charged : Charges[x] = 0
      /\ \A y \in Charged' : Charges'[y] > 0
  <2>1. \A x \in Pairs \ Charged : Charges[x] = 0
    BY <1>2 DEF Charged
  <2> QED
    BY <2>1 DEF ChargesArePaid, Charged, Pairs
<1> HIDE DEF Hit, Pairs, Charges, Charged
<1>7. Summable(Charges, Charged)
  BY <1>2, <1>6 DEF Summable
<1>8. SumFunctionOnSet(Charges, Charged) \in Nat /\ SumFunctionOnSet(Charges, Charged) <= crashes
  BY <1>7, SumOfTheSame DEF ChargesArePaid
<1>9. CASE \A x \in Pairs : Charges'[x] <= Charges[x]
  BY <1>1, <1>9, LowerIsPaid DEF TypeOK
<1>10. CASE \E x \in Pairs : ~(Charges'[x] <= Charges[x])
  <2>1. PICK x \in Pairs : ~(Charges'[x] <= Charges[x])
    BY <1>10
  <2>2. x \in Hit
    BY <1>2, <1>3, <2>1
  <2>3. \A y \in Pairs \ {x} : Charges'[y] = Charges[y]
    BY <1>3, <1>5, <2>2
  <2> DEFINE More == Charged \cup {x}
  <2>4. Charged' \in SUBSET More
    BY <1>6, <2>3
  <2>5. /\ \A y \in More : Charges'[y] \in Nat
        /\ \A y \in Charged \ {x} : Charges'[y] = Charges[y]
    BY <1>2, <1>6, <2>1, <2>3
  <2>6. IF x \in Charged THEN Charges'[x] <= Charges[x] + 1 ELSE Charges'[x] <= 1
    BY <1>2, <1>4, <1>6, <2>1
  <2>7. SumFunctionOnSet(Charges', More) <= SumFunctionOnSet(Charges, Charged) + 1
    BY <1>7, <2>5, <2>6, SumOfOneRaised
  <2>8. IsFiniteSet(More)
    BY <1>6, FS_AddElement
  <2>9. Summable(Charges', More)
    BY <2>5, <2>8 DEF Summable
  <2> HIDE DEF More
  <2>10. SumFunctionOnSet(Charges', Charged') <= SumFunctionOnSet(Charges', More)
    BY <2>4, <2>9, SumOfLess
  <2>11. IsFiniteSet(Charged') /\ Summable(Charges', Charged')
    BY <2>4, <2>8, <2>9, FS_Subset DEF Summable
  <2>12. SumFunctionOnSet(Charges', Charged') \in Nat /\ SumFunctionOnSet(Charges', More) \in Nat
    BY <2>9, <2>11, SumOfTheSame
  <2> QED
    BY <1>1, <1>8, <2>7, <2>10, <2>11, <2>12 DEF ChargesArePaid
<1> QED
  BY <1>9, <1>10

\* ChargesArePaid holds wherever a file is kept whose writes succeed.
LEMMA AlwaysPaid ==
  ASSUME Persistent, ~IoErrors
  PROVE  Spec => []ChargesArePaid
<1>1. Init => ChargesArePaid
  <2> SUFFICES ASSUME Init PROVE ChargesArePaid
    OBVIOUS
  <2>1. \A x \in Pairs : Charges[x] = 0
    BY DEF Init, Pairs, Charges, Charge
  <2>2. Charged = {} /\ crashes = 0
    BY <2>1 DEF Charged, Init
  <2> QED
    BY <2>2, SumOfNothing, FS_EmptySet DEF ChargesArePaid
<1>2. TypeOK /\ CallOK /\ NoneAhead /\ TypeOK' /\ ChargesArePaid /\ [Next]_vars => ChargesArePaid'
  <2> SUFFICES ASSUME TypeOK, CallOK, NoneAhead, TypeOK', ChargesArePaid, [Next]_vars
               PROVE  ChargesArePaid'
    OBVIOUS
  <2>1. CASE Crash
    BY <2>1, CrashIsPaid
  <2>2. CASE Step
    <3>1. crashes' = crashes
      BY <2>2, StepHasShape DEF StepShape, StepUnchanged, envVars
    <3> QED
      BY <2>2, <3>1, StepLowers, LowerIsPaid DEF TypeOK
  <2>3. CASE Insert \/ Finish
    <3>1. crashes' = crashes
      BY <2>3 DEF Insert, Finish, envVars
    <3> QED
      BY <2>3, <3>1, WriteLowers, LowerIsPaid DEF TypeOK
  <2>4. CASE ~Crash /\ ~Step /\ ~Insert /\ ~Finish
    <3>1. disk' = disk /\ sent' = sent /\ crashes' = crashes
      BY <2>4 DEF Next, Submit, Advance, DeadlinePasses, StartOnce, StartLoop, EndPass,
         Restart, WithPersistence, WindowElapses, vars, storeVars, envVars
    <3>2. \A o \in Orders : Leaves(o) => Leaves(o)'
      BY <2>4 DEF Leaves, CallOK, Next, Submit, Advance, DeadlinePasses, StartOnce,
         StartLoop, EndPass, Restart, WithPersistence, WindowElapses, vars, storeVars,
         callVars
    <3>3. \A o \in Orders, e \in Effects \ SecondCalls :
            sent'[o][e] = sent[o][e] /\ (MadeAgain(o, e)' => MadeAgain(o, e))
      BY <3>1, <3>2 DEF MadeAgain
    <3>4. \A x \in Pairs : Charges'[x] <= Charges[x]
      BY <3>3, ChargesFall
    <3> QED
      BY <3>1, <3>4, LowerIsPaid DEF TypeOK
  <2> QED
    BY <2>1, <2>2, <2>3, <2>4
<1> QED
  BY <1>1, <1>2, TypeCorrect, NeverAhead, PTL DEF Spec

\* A second call is never made more often than the first one of its step, and
\* between the two once less.
SecondsFollow ==
  \A e \in SecondCalls :
    /\ \A o \in Orders : sent[o][e] <= sent[o][FirstCall(e)]
    /\ phase = SecondPhase(e) => sent[cur][e] < sent[cur][FirstCall(e)]

LEMMA SecondsAlwaysFollow == Spec => []SecondsFollow
<1>1. Init => SecondsFollow
  BY CallPairs DEF Init, NoCall, SecondsFollow
<1>2. TypeOK /\ CallOK /\ SecondsFollow /\ [Next]_vars => SecondsFollow'
  <2> SUFFICES ASSUME TypeOK, CallOK, SecondsFollow, [Next]_vars, NEW e \in SecondCalls
               PROVE  /\ \A o \in Orders : sent'[o][e] <= sent'[o][FirstCall(e)]
                      /\ phase' = SecondPhase(e) => sent'[cur'][e] < sent'[cur'][FirstCall(e)]
    BY DEF SecondsFollow
  <2> DEFINE d == FirstCall(e)
  <2>0. /\ e \in Effects /\ d \in Effects /\ d # e /\ d \notin SecondCalls
        /\ SentIn(d) = SentIn(e) /\ SecondPhase(e) # "step" /\ SecondPhase(e) # "commit"
        /\ \A o \in Orders : sent[o][e] \in Nat /\ sent[o][d] \in Nat
        /\ \A o \in Orders : sent[o][e] <= sent[o][d]
        /\ phase = SecondPhase(e) => sent[cur][e] < sent[cur][d]
    BY CallPairs DEF TypeOK, SecondsFollow
  <2>1. CASE Step
    <3>1. StepShape
      BY <2>1, StepHasShape
    <3>2. /\ cur \in Orders /\ cur' = cur
          /\ sent' = sent \/ \E c \in Effects : Makes(c)
      BY <3>1, CallPairs DEF StepShape, Waits, Fails, Moves, Halves, Return, Goto, Needed
    <3>3. \A c \in Effects : Makes(c) =>
            /\ \A o \in Orders \ {cur} : sent'[o] = sent[o]
            /\ \A x \in Effects : sent'[cur][x] = IF x = c THEN sent[cur][x] + 1 ELSE sent[cur][x]
      BY <3>2 DEF Makes, Broadcast, TypeOK
    <3>4. CASE phase = "step"
      <4>1. \A o \in Orders : /\ sent'[o][e] = sent[o][e]
                               /\ sent'[o][d] \in Nat /\ sent'[o][d] >= sent[o][d]
        <5>1. ~Makes(e)
          BY <3>4 DEF Makes
        <5> HIDE DEF d
        <5> QED
          BY <2>0, <3>2, <3>3, <5>1
      <4>2. phase' = SecondPhase(e) => Makes(d)
        <5>1. SUFFICES ASSUME phase' = SecondPhase(e) PROVE Makes(d)
          OBVIOUS
        <5>2. Halves
          BY <2>0, <3>1, <5>1 DEF StepShape, Waits, Fails, Moves, Return, Goto
        <5>3. PICK c \in SecondCalls : Goto(SecondPhase(c), cur, ret) /\ Makes(FirstCall(c))
          BY <5>2 DEF Halves
        <5>4. c = e
          BY <5>1, <5>3, CallPairs DEF Goto
        <5> QED
          BY <5>3, <5>4
      <4>3. phase' = SecondPhase(e) => sent'[cur][d] = sent[cur][d] + 1
        <5> HIDE DEF d
        <5> QED
          BY <2>0, <3>3, <4>2
      <4> HIDE DEF d
      <4>4. \A o \in Orders : sent'[o][e] <= sent'[o][d]
        BY <2>0, <4>1
      <4>5. phase' = SecondPhase(e) => sent'[cur'][e] < sent'[cur'][d]
        BY <2>0, <3>2, <4>1, <4>3
      <4> QED
        BY <4>4, <4>5 DEF d
    <3>5. CASE phase # "step"
      <4>1. phase' = "commit"
        BY <3>1, <3>5 DEF StepShape, Waits, Fails, Moves, Halves, Return, Goto
      <4>2. ~Makes(d)
        BY <2>0, <3>5 DEF Makes
      <4>3. Makes(e) => phase = SecondPhase(e)
        BY <3>5 DEF Makes
      <4> HIDE DEF d
      <4>4. \A o \in Orders : /\ sent'[o][d] = sent[o][d]
                               /\ \/ sent'[o][e] = sent[o][e]
                                  \/ /\ o = cur /\ phase = SecondPhase(e)
                                     /\ sent'[o][e] = sent[o][e] + 1
        BY <2>0, <3>2, <3>3, <4>2, <4>3
      <4>5. \A o \in Orders : sent'[o][e] <= sent'[o][d]
        BY <2>0, <3>2, <4>4
      <4> QED
        BY <2>0, <4>1, <4>5 DEF d
    <3> QED
      BY <3>4, <3>5
  <2>2. CASE ~Step
    <3>1. sent' = sent
      BY <2>2 DEF Next, Submit, Insert, Advance, Finish, Crash, DeadlinePasses, StartOnce,
         StartLoop, EndPass, Restart, WindowElapses, vars
    <3>2. phase' \in {"burn", "payout"} => phase = phase' /\ cur' = cur
      BY <2>2 DEF Next, Submit, Insert, Advance, Finish, Crash, DeadlinePasses, StartOnce,
         StartLoop, EndPass, Restart, WindowElapses, vars, callVars, Goto, EndCall
    <3> QED
      BY <2>0, <3>1, <3>2, CallPairs
  <2> QED
    BY <2>1, <2>2
<1> QED
  BY <1>1, <1>2, TypeCorrect, PTL DEF Spec

\* As long as the file keeps up with the map, losing the process costs at most
\* one repeated step over all orders, and never a second call (a burn, a
\* payout) without the first one of its step (an approval, a swap).
THEOREM OneRepeatForEachCrash ==
  ASSUME Persistent, ~IoErrors
  PROVE  Spec => []OneRepeatPerCrash
<1>1. TypeOK /\ ChargesArePaid /\ SecondsFollow => OneRepeatPerCrash
  <2> SUFFICES ASSUME TypeOK, ChargesArePaid, SecondsFollow
               PROVE  SumFunctionOnSet(Repeats, Repeated) <= crashes
    BY DEF OneRepeatPerCrash, SecondsFollow
  <2>1. \A x \in Pairs : Charges[x] \in Nat
    BY ChargesTypes DEF TypeOK
  <2>2. ASSUME NEW x \in Repeated
        PROVE  /\ x \in Pairs /\ x \in Charged
               /\ Repeats[x] \in Nat /\ Repeats[x] <= Charges[x]
    <3>1. x \in Pairs /\ sent[x[1]][x[2]] \in Nat /\ sent[x[1]][x[2]] > 1
      BY DEF Repeated, Pairs, TypeOK
    <3>2. Repeats[x] = sent[x[1]][x[2]] - 1
      BY DEF Repeats
    <3>3. Charges[x] \in {sent[x[1]][x[2]], sent[x[1]][x[2]] - 1}
      BY <3>1 DEF Charges, Charge
    <3> QED
      BY <3>1, <3>2, <3>3 DEF Charged
  <2>3. Summable(Charges, Charged)
    BY <2>1 DEF Summable, Charged, ChargesArePaid
  <2>4. Repeated \in SUBSET Charged
    BY <2>2
  <2> HIDE DEF Charges, Charged, Repeats, Repeated, Pairs
  <2>5. SumFunctionOnSet(Repeats, Repeated) <= SumFunctionOnSet(Charges, Charged)
    BY <2>2, <2>3, <2>4, SumOfSmaller
  <2>6. IsFiniteSet(Repeated) /\ Summable(Repeats, Repeated)
    BY <2>2, <2>3, <2>4, FS_Subset DEF Summable
  <2>7. SumFunctionOnSet(Repeats, Repeated) \in Nat /\ SumFunctionOnSet(Charges, Charged) \in Nat
    BY <2>3, <2>6, SumOfTheSame
  <2> QED
    BY <2>5, <2>7 DEF ChargesArePaid, TypeOK
<1> QED
  BY <1>1, TypeCorrect, AlwaysPaid, SecondsAlwaysFollow, PTL

----
(***************************************************************************)
(* What the exchange may have been given in a window.                      *)
(***************************************************************************)
Behind == /\ posted \in Nat /\ slips \in Nat
          /\ Cap > 0 => posted <= Cap * slips + volume

\* Without an effect nothing is posted.
LEMMA NothingPosted ==
  ASSUME TypeOK, sent' = sent
  PROVE  ~Posting
<1>1. "post" \in Effects
  BY DEF Effects
<1>2. cur # NoId => sent[cur]["post"] \in Nat
  BY <1>1 DEF TypeOK
<1> QED
  BY <1>2 DEF Posting

\* A step other than that of BridgeComplete posts and counts nothing.
LEMMA OnlyPostsCount ==
  ASSUME TypeOK, CallOK, Step, ~StepBridgeComplete
  PROVE  volume' = volume /\ ~Posting
<1>1. volume' = volume
  BY DEF Step, StepPending, StepSolanaSwapInProgress, StepSolanaSwapComplete,
     StepBridgePending, StepBridgeRelaying, StepPolyOrderPosted, StepPolymarketFilled,
     StepAwaitingResolution, StepRedeeming, ReturnBurn, StepSettlementBridging,
     StepSettlementSwapping, TransferSol
<1>2. memory[cur].stage # BridgeComplete
  BY StagesDiffer DEF Step, StepPending, StepSolanaSwapInProgress, StepSolanaSwapComplete,
     StepBridgePending, StepBridgeRelaying, StepPolyOrderPosted, StepPolymarketFilled,
     StepAwaitingResolution, StepRedeeming, ReturnBurn, StepSettlementBridging,
     StepSettlementSwapping, TransferSol, Stepping, CallOK
<1>3. "post" \in Effects /\ SentIn("post") = BridgeComplete
  BY DEF Effects, SentIn
<1>4. cur \in Orders /\ sent \in [Orders -> [Effects -> Nat]]
  BY StepFrame
<1>5. sent'[cur]["post"] = sent[cur]["post"]
  BY <1>2, <1>3, <1>4, OnlyOwnEffect
<1> QED
  BY <1>1, <1>3, <1>4, <1>5 DEF Posting

\* A post is within what the cap leaves, and is counted or slips.
LEMMA PostFallsBehind ==
  ASSUME TypeOK, CallOK, Behind, StepBridgeComplete, Record
  PROVE  Behind'
<1>1. Step
  BY DEF Step
<1>2. /\ cur \in Orders /\ memory[cur].usdc \in Nat /\ cur # NoId
      /\ sent \in [Orders -> [Effects -> Nat]] /\ "post" \in Effects
      /\ volume \in Nat /\ Cap \in Nat
  BY <1>1, StepFrame, ExecutorAssumption DEF TypeOK, Effects
<1>3. mode' = mode /\ crashes' = crashes /\ crashes \in Nat
  BY DEF StepBridgeComplete, StepUnchanged, envVars, TypeOK
<1>4. ~NewWindow
  BY <1>3 DEF NewWindow
<1>5. CASE ~Posting
  <2>1. volume' = volume
    <3>1. Broadcast("post") => Posting
      BY <1>2 DEF Broadcast, Posting
    <3> QED
      BY <1>5, <3>1 DEF StepBridgeComplete, CallOut, Fail, Return, Goto, FailedIn
  <2>2. posted' = posted /\ slips' = slips
    BY <1>3, <1>4, <1>5 DEF Record, Slip
  <2> QED
    BY <2>1, <2>2 DEF Behind
<1>6. CASE Posting /\ ret'.stage = Failed
  <2>1. /\ volume' = volume
        /\ Cap > 0 => volume + memory[cur].usdc <= Cap
    <3>1. sent' # sent
      BY <1>2, <1>6 DEF Posting
    <3> QED
      BY <1>2, <1>6, <3>1 DEF StepBridgeComplete, OverCap
  <2>2. posted' = posted + memory[cur].usdc /\ slips' = slips + 1
    BY <1>4, <1>6 DEF Record, Slip
  <2>3. Cap * (slips + 1) = Cap * slips + Cap /\ Cap * slips \in Nat
    BY <1>2, OneMore DEF Behind
  <2> QED
    BY <1>2, <2>1, <2>2, <2>3 DEF Behind
<1>7. CASE Posting /\ ret'.stage # Failed
  <2>1. volume' = volume + memory[cur].usdc
    <3>1. sent' # sent
      BY <1>2, <1>7 DEF Posting
    <3> QED
      BY <1>7, <3>1 DEF StepBridgeComplete
  <2>2. posted' = posted + memory[cur].usdc /\ slips' = slips
    BY <1>3, <1>4, <1>7 DEF Record, Slip
  <2>3. Cap * slips \in Nat
    BY <1>2, OneMore DEF Behind
  <2> QED
    BY <1>2, <2>1, <2>2, <2>3 DEF Behind
<1> QED
  BY <1>5, <1>6, <1>7

\* Losing the process loses the counter, which is within the cap.
LEMMA CrashFallsBehind ==
  ASSUME TypeOK, VolumeWithinCap, Behind, Crash, Record
  PROVE  Behind'
<1>1. /\ volume' = 0 /\ volume \in Nat /\ Cap \in Nat /\ crashes' > crashes
      /\ mode' = "none" /\ ~Posting
  BY NothingPosted, ExecutorAssumption DEF Crash, TypeOK
<1>2. posted' = posted /\ slips' = slips + 1
  BY <1>1 DEF Record, NewWindow, Slip
<1>3. Cap * (slips + 1) = Cap * slips + Cap /\ Cap * slips \in Nat
  BY <1>1, OneMore DEF Behind
<1> QED
  BY <1>1, <1>2, <1>3 DEF Behind, VolumeWithinCap

\* Behind is an invariant.
LEMMA BehindStays ==
  ASSUME TypeOK, CallOK, VolumeWithinCap, Behind, [VolumeNext]_<<vars, ledger>>
  PROVE  Behind'
<1>1. CASE UNCHANGED <<vars, ledger>>
  BY <1>1 DEF Behind, vars, ledger
<1>2. CASE VolumeNext
  <2>1. Next /\ Record
    BY <1>2 DEF VolumeNext
  <2>2. CASE StepBridgeComplete
    BY <2>1, <2>2, PostFallsBehind
  <2>3. CASE Step /\ ~StepBridgeComplete
    <3>1. volume' = volume /\ ~Posting
      BY <2>3, OnlyPostsCount
    <3>2. mode' = mode /\ crashes' = crashes /\ crashes \in Nat
      BY <2>3, StepHasShape DEF StepShape, StepUnchanged, envVars, TypeOK
    <3>3. posted' = posted /\ slips' = slips
      BY <2>1, <3>1, <3>2 DEF Record, NewWindow, Slip
    <3> QED
      BY <3>1, <3>3 DEF Behind
  <2>4. CASE Crash
    BY <2>1, <2>4, CrashFallsBehind
  <2>5. CASE StartOnce
    <3>1. /\ mode = "none" /\ mode' = "once" /\ sent' = sent /\ crashes' = crashes
          /\ crashes \in Nat /\ volume' = IF windowOver THEN 0 ELSE volume
      BY <2>5 DEF StartOnce, TypeOK
    <3>2. ~Posting /\ ~Slip
      BY <3>1, NothingPosted DEF Slip
    <3>3. CASE windowOver
      <4>1. posted' = 0 /\ slips' = 0 /\ volume' = 0 /\ Cap \in Nat
        BY <2>1, <3>1, <3>2, <3>3, ExecutorAssumption DEF Record, NewWindow
      <4>2. Cap * 0 = 0
        BY <4>1
      <4> QED
        BY <4>1, <4>2 DEF Behind
    <3>4. CASE ~windowOver
      <4>1. posted' = posted /\ slips' = slips /\ volume' = volume
        BY <2>1, <3>1, <3>2, <3>4 DEF Record, NewWindow
      <4> QED
        BY <4>1 DEF Behind
    <3> QED
      BY <3>3, <3>4
  <2>6. CASE ~Step /\ ~Crash /\ ~StartOnce
    <3>1. /\ volume' = volume /\ sent' = sent /\ crashes' = crashes /\ crashes \in Nat
          /\ ~(mode = "none" /\ mode' = "once")
      BY <2>1, <2>6 DEF Next, Submit, Insert, Advance, Finish, DeadlinePasses, StartLoop,
         EndPass, Restart, WindowElapses, envVars, TypeOK
    <3>2. posted' = posted /\ slips' = slips
      BY <2>1, <3>1, NothingPosted DEF Record, NewWindow, Slip
    <3> QED
      BY <3>1, <3>2 DEF Behind
  <2> QED
    BY <2>2, <2>3, <2>4, <2>5, <2>6
<1> QED
  BY <1>1, <1>2

\* Whatever is lost or left unanswered, the exchange is given no more in one
\* window than the cap, and the cap once again for every crash and for every
\* post whose answer is lost: it is not only the counter that the cap bounds.
THEOREM PostedStaysPerSlip == VolumeSpec => []PostedPerSlip
<1>1. VolumeSpec => Spec
  <2>1. VolumeInit => Init
    BY DEF VolumeInit
  <2>2. [VolumeNext]_<<vars, ledger>> => [Next]_vars
    BY DEF VolumeNext
  <2> QED
    BY <2>1, <2>2, PTL DEF VolumeSpec, Spec
<1>2. VolumeInit => Behind
  BY ExecutorAssumption DEF VolumeInit, Init, Behind
<1>3. TypeOK /\ VolumeWithinCap /\ Behind => PostedPerSlip
  <2> SUFFICES ASSUME TypeOK, VolumeWithinCap, Behind, Cap > 0
               PROVE  posted <= Cap * (1 + slips)
    BY DEF PostedPerSlip
  <2>1. /\ posted \in Nat /\ slips \in Nat /\ volume \in Nat /\ Cap \in Nat
        /\ posted <= Cap * slips + volume /\ volume <= Cap
    BY ExecutorAssumption DEF Behind, VolumeWithinCap, TypeOK
  <2>2. Cap * (slips + 1) = Cap * slips + Cap /\ Cap * slips \in Nat /\ 1 + slips = slips + 1
    BY <2>1, OneMore
  <2> QED
    BY <2>1, <2>2
<1> QED
  BY <1>1, <1>2, <1>3, BehindStays, TypeCorrect, VolumeStaysWithinCap, PTL DEF VolumeSpec

----
(***************************************************************************)
(* What the router counted.                                                *)
(***************************************************************************)
\* The status of an order, or the one its call is about to store.
Seen == [o \in Orders |-> IF phase = "commit" /\ cur = o THEN ret ELSE memory[o]]

\* Orders on the book, those past their post, and those whose post failed.
Posted == {o \in Orders : book[o].state # "none"}
Past   == {o \in Orders : memory[o].stage >= BridgeComplete /\ Seen[o].stage > BridgeComplete}
Lost   == {o \in Orders : Seen[o].stage = Failed /\ Seen[o].failedAt = BridgeComplete}

\* Counted, with the order whose acceptance is about to be stored.
Taken == Posted \ Lost

Size == [o \in Orders |-> book[o].size]

\* The counter is the sum of what was accepted.  It is so because nothing is
\* counted twice and no counted order leaves the sum: neither by failing later
\* nor by being cancelled.
VolumeIsPosted ==
  /\ Posted \subseteq Past
  /\ IsFiniteSet(Taken) /\ SumFunctionOnSet(Size, Taken) = volume

\* What the exchange fills or cancels stays counted, and so does whatever else
\* becomes of an order that was posted.
LEMMA StaysCounted ==
  ASSUME VolumeIsPosted, volume' = volume, Posted' = Posted, Size' = Size,
         \A o \in Posted : o \in Past' /\ (o \in Lost' <=> o \in Lost)
  PROVE  VolumeIsPosted'
<1>1. Taken' = Taken
  BY DEF Taken
<1> QED
  BY <1>1 DEF VolumeIsPosted

\* A step other than the post leaves a posted order counted.
LEMMA OtherStepsCount ==
  ASSUME TypeOK, CallOK, MoneyTypes, VolumeIsPosted, RouterStepOfCustody, ~PostOrder
  PROVE  VolumeIsPosted'
<1> USE StagesDiffer
<1>1. Step
  BY CustodyStepIsStep
<1>2. /\ cur \in Orders /\ cur' = cur /\ memory' = memory
      /\ memory[cur].stage \in 1 .. 12
      /\ phase \in {"step", "burn", "payout"} /\ phase' \in {"burn", "payout", "commit"}
  BY <1>1, StepFrame
<1>3. memory[cur].stage # BridgeComplete
  BY <1>2 DEF RouterStepOfCustody, SwapDeposit,
     SeeSwap, BurnOnSolana, RelayToPolygon, SeeMint, AwaitFill, HoldPosition,
     RedeemPosition, ApproveBalance, BurnFails, AwaitBurn, RelayToSolana, SwapBack, PayUser,
     StepPending, StepSolanaSwapInProgress, StepSolanaSwapComplete, StepBridgePending,
     StepBridgeRelaying, StepPolyOrderPosted, StepPolymarketFilled, StepAwaitingResolution,
     StepRedeeming, ReturnBurn, StepSettlementBridging, StepSettlementSwapping, TransferSol,
     Stepping, CallOK
<1>4. volume' = volume
  BY DEF RouterStepOfCustody, SwapDeposit,
     SeeSwap, BurnOnSolana, RelayToPolygon, SeeMint, AwaitFill, HoldPosition,
     RedeemPosition, ApproveBalance, BurnFails, AwaitBurn, RelayToSolana, SwapBack, PayUser,
     StepPending, StepSolanaSwapInProgress, StepSolanaSwapComplete, StepBridgePending,
     StepBridgeRelaying, StepPolyOrderPosted, StepPolymarketFilled, StepAwaitingResolution,
     StepRedeeming, ReturnBurn, StepSettlementBridging, StepSettlementSwapping, TransferSol
<1>5. book' = book \/ (book[cur].state = "live" /\ book' = [book EXCEPT ![cur].state = "cancelled"])
  BY DEF RouterStepOfCustody, SwapDeposit,
     SeeSwap, BurnOnSolana, RelayToPolygon, SeeMint, AwaitFill, HoldPosition,
     RedeemPosition, ApproveBalance, BurnFails, AwaitBurn, RelayToSolana, SwapBack, PayUser,
     money, chain
<1>6. Posted' = Posted /\ Size' = Size
  <2>1. book \in [Orders -> [state : {"none", "live", "filled", "cancelled"},
                             size : Nat, filled : Nat]]
    BY DEF MoneyTypes
  <2> QED
    BY <1>2, <1>5, <2>1 DEF Posted, Size
<1>7. ASSUME NEW o \in Posted
      PROVE  o \in Past' /\ (o \in Lost' <=> o \in Lost)
  <2>1. /\ o \in Orders /\ Seen[o] = memory[o]
        /\ memory[o].stage >= BridgeComplete /\ Seen[o].stage > BridgeComplete
    BY <1>2, <1>7 DEF Seen, VolumeIsPosted, Posted, Past
  <2>2. CASE o # cur
    BY <1>2, <2>1, <2>2 DEF Seen, Past, Lost
  <2>3. CASE o = cur
    <3>1. Waits \/ Fails \/ Moves \/ Halves
      BY <1>1, StepHasShape DEF StepShape
    <3>2. memory[cur].stage \in 7 .. 12
      BY <1>2, <1>3, <2>1, <2>3
    <3>3. Seen'[o] = memory[cur] \/ Seen'[o] = ret'
      BY <1>2, <2>3 DEF Seen
    <3>4. CASE phase' = "commit"
      <4>1. \/ ret' = memory[cur]
            \/ ret'.stage = Failed /\ ret'.failedAt = memory[cur].stage
            \/ ret'.stage = memory[cur].stage + 1
        BY <3>1, <3>4, CallPairs DEF Waits, Fails, Moves, Halves, Return, Goto, FailedIn
      <4> QED
        BY <1>2, <2>1, <2>3, <3>2, <3>3, <4>1 DEF Past, Lost
    <3>5. CASE phase' # "commit"
      BY <1>2, <2>1, <3>5 DEF Seen, Past, Lost
    <3> QED
      BY <3>4, <3>5
  <2> QED
    BY <2>2, <2>3
<1> QED
  BY <1>4, <1>6, <1>7, StaysCounted

\* The post adds what it posts to both, or to neither.
LEMMA PostCounts ==
  ASSUME TypeOK, CallOK, MoneyTypes, VolumeIsPosted, PostOrder
  PROVE  VolumeIsPosted'
<1> USE StagesDiffer
<1>1. Step
  BY CustodyStepIsStep DEF RouterStepOfCustody
<1>2. /\ cur \in Orders /\ cur' = cur /\ memory' = memory /\ memory[cur].usdc \in Nat
      /\ phase = "step" /\ memory[cur].stage = BridgeComplete
      /\ sent \in [Orders -> [Effects -> Nat]] /\ volume \in Nat
  BY <1>1, StepFrame DEF PostOrder, StepBridgeComplete, Stepping, TypeOK
<1>3. book[cur].state = "none"
  BY <1>2 DEF VolumeIsPosted, Posted, Past, Seen
<1>4. /\ phase' = "commit"
      /\ \/ ret'.stage = Failed /\ ret'.failedAt = BridgeComplete /\ volume' = volume
         \/ /\ ret' = At(PolymarketOrderPosted) /\ Broadcast("post")
            /\ volume' = volume + memory[cur].usdc
  BY <1>2 DEF PostOrder, StepBridgeComplete, CallOut, Fail, Return, Goto, FailedIn, At
<1>5. Broadcast("post") => Made("post")
  BY <1>2 DEF Broadcast, Made, Effects
<1>6. book \in [Orders -> [state : {"none", "live", "filled", "cancelled"},
                           size : Nat, filled : Nat]]
  BY DEF MoneyTypes
<1>7. /\ \A o \in Orders \ {cur} : book'[o] = book[o] /\ Seen'[o] = Seen[o]
      /\ Seen'[cur] = ret' /\ Seen[cur] = memory[cur]
  <2>1. book' = book \/ \E b : book' = [book EXCEPT ![cur] = b]
    BY DEF PostOrder
  <2> QED
    BY <1>2, <1>4, <1>6, <2>1 DEF Seen
<1>8. cur \notin Taken /\ IsFiniteSet(Taken) /\ Taken \subseteq Orders
  BY <1>3 DEF Taken, Posted, VolumeIsPosted
<1>9. \A o \in Taken : Size[o] \in Nat /\ Size'[o] = Size[o]
  BY <1>6, <1>7, <1>8 DEF Size
<1>10. SumFunctionOnSet(Size', Taken) = volume
  <2>1. Summable(Size, Taken)
    BY <1>8, <1>9 DEF Summable
  <2> HIDE DEF Summable
  <2>2. SumFunctionOnSet(Size, Taken) = SumFunctionOnSet(Size', Taken)
    BY <1>9, <2>1, SumOfTheSame
  <2> QED
    BY <2>2 DEF VolumeIsPosted
<1>11. ret'.stage > BridgeComplete
  BY <1>4 DEF At
<1>12. Posted' \subseteq Past'
  BY <1>2, <1>7, <1>11 DEF VolumeIsPosted, Posted, Past
<1>13. CASE ret'.stage = Failed /\ ret'.failedAt = BridgeComplete /\ volume' = volume
  <2>1. Taken' = Taken
    BY <1>2, <1>7, <1>8, <1>13 DEF Taken, Posted, Lost
  <2> QED
    BY <1>8, <1>10, <1>12, <1>13, <2>1 DEF VolumeIsPosted
<1>14. CASE /\ ret' = At(PolymarketOrderPosted) /\ Broadcast("post")
            /\ volume' = volume + memory[cur].usdc
  <2>1. book'[cur].state = "live" /\ book'[cur].size = memory[cur].usdc
    BY <1>2, <1>5, <1>6, <1>14 DEF PostOrder
  <2>2. ret'.stage # Failed
    BY <1>14 DEF At
  <2>3. Taken' = Taken \cup {cur}
    BY <1>2, <1>7, <1>8, <2>1, <2>2 DEF Taken, Posted, Lost
  <2>4. Size'[cur] = memory[cur].usdc
    BY <1>2, <2>1 DEF Size
  <2>5. IsFiniteSet(Taken \cup {cur})
    BY <1>8, FS_AddElement
  <2>6. Summable(Size', Taken \cup {cur})
    BY <1>2, <1>9, <2>4, <2>5 DEF Summable
  <2>7. SumFunctionOnSet(Size', Taken \cup {cur}) = Size'[cur] + SumFunctionOnSet(Size', Taken)
    BY <1>8, <2>6, SumOfOneMore
  <2>8. SumFunctionOnSet(Size', Taken') = volume'
    BY <1>2, <1>10, <1>14, <2>3, <2>4, <2>7
  <2> QED
    BY <1>12, <2>3, <2>5, <2>8 DEF VolumeIsPosted
<1> QED
  BY <1>4, <1>13, <1>14

\* What is not a step of the router counts nothing and forgets nothing.
LEMMA OthersCount ==
  ASSUME TypeOK, CallOK, MoneyTypes, VolumeIsPosted, [CustodyNext]_<<vars, money>>,
         ~RouterStepOfCustody
  PROVE  VolumeIsPosted'
<1> USE StagesDiffer
<1>1. book \in [Orders -> [state : {"none", "live", "filled", "cancelled"},
                           size : Nat, filled : Nat]]
  BY DEF MoneyTypes
<1>2. \A o \in Posted : /\ o \in Orders /\ memory[o].stage >= BridgeComplete
                         /\ Seen[o].stage > BridgeComplete
  BY DEF VolumeIsPosted, Posted, Past
<1>3. CASE CustodyInsert \/ Idle
  <2>1. book' = book /\ volume' = volume
    BY <1>3 DEF CustodyInsert, Insert, chain, Idle, Submit, Advance, DeadlinePasses, Finish,
       envVars, money
  <2>2. ASSUME NEW o \in Posted
        PROVE  o \in Past' /\ (o \in Lost' <=> o \in Lost)
    <3>1. CASE CustodyInsert
      <4>1. /\ phase = "insert" /\ phase' = "idle" /\ cur \in Orders
            /\ memory[cur].stage = NoOrder /\ memory' = [memory EXCEPT ![cur] = ret]
        BY <3>1, ExecutorAssumption DEF CustodyInsert, Insert, Put, EndCall, TypeOK, CallOK
      <4>2. o # cur
        BY <1>2, <2>2, <4>1 DEF Past, Lost
      <4> QED
        BY <1>2, <2>2, <4>1, <4>2 DEF Seen, Past, Lost
    <3>2. CASE Finish
      <4>1. /\ phase = "commit" /\ phase' = "idle" /\ cur \in Orders
            /\ memory' = [memory EXCEPT ![cur] = ret]
        BY <3>2, ExecutorAssumption DEF Finish, Put, EndCall, TypeOK, CallOK
      <4>2. Seen'[o] = Seen[o] /\ memory'[o] = Seen[o]
        BY <4>1 DEF Seen, TypeOK, StoreTypeOK
      <4>3. o \in Orders /\ Seen[o].stage > BridgeComplete
        BY <1>2, <2>2
      <4>4. Seen[o].stage \in Nat
        <5>1. Seen[o] \in StatusSet(Nat)
          BY <4>3 DEF Seen, TypeOK, StoreTypeOK
        <5> QED
          BY <5>1 DEF StatusSet, Stages
      <4>5. o \in Past'
        BY <4>2, <4>3, <4>4 DEF Past
      <4>6. o \in Lost' <=> o \in Lost
        BY <4>2, <4>3 DEF Lost
      <4> QED
        BY <4>5, <4>6
    <3>3. CASE \E p \in Orders : Submit(p) \/ DeadlinePasses(p)
      <4>1. memory' = memory /\ Seen'[o] = Seen[o]
        BY <3>3 DEF Submit, DeadlinePasses, Goto, storeVars, callVars, Seen
      <4> QED
        BY <1>2, <2>2, <4>1 DEF Past, Lost
    <3>4. CASE \E p \in Orders : Advance(p)
      <4>1. PICK p \in Orders : Advance(p)
        BY <3>4
      <4>2. /\ memory' = memory /\ phase = "idle" /\ IsActive(memory[p].stage)
            /\ \/ UNCHANGED callVars
               \/ Goto("commit", p, At(Cancelled)) \/ Goto("step", p, At(NoOrder))
        BY <4>1 DEF Advance, storeVars
      <4>3. Seen[o] = memory[o]
        BY <1>2, <2>2, <4>2 DEF Seen
      <4>4. Seen'[o] = memory[o] \/ (o = p /\ Seen'[o] = At(Cancelled))
        BY <1>2, <2>2, <4>2 DEF Seen, Goto, callVars
      <4> QED
        BY <1>2, <2>2, <4>2, <4>3, <4>4 DEF At, IsActive, Past, Lost
    <3> QED
      BY <1>3, <3>1, <3>2, <3>3, <3>4 DEF Idle
  <2>3. Posted' = Posted /\ Size' = Size
    BY <2>1 DEF Posted, Size
  <2> QED
    BY <2>1, <2>2, <2>3, StaysCounted
<1>4. CASE SendBurn \/ Mine \/ (\E o \in Orders : Fill(o)) \/ Resolve
           \/ UNCHANGED <<vars, money>>
  <2>1. vars' = vars
    BY <1>4 DEF SendBurn, Mine, Fill, Resolve
  <2>2. volume' = volume /\ memory' = memory /\ Seen' = Seen
    BY <2>1 DEF vars, Seen
  <2>3. Posted' = Posted /\ Size' = Size
    <3>1. CASE \E o \in Orders : Fill(o)
      BY <1>1, <3>1 DEF Fill, Posted, Size
    <3>2. CASE SendBurn \/ Mine \/ Resolve \/ UNCHANGED <<vars, money>>
      BY <1>1, <3>2 DEF SendBurn, Mine, Resolve, money, chain, Posted, Size
    <3> QED
      BY <1>4, <3>1, <3>2
  <2>4. \A o \in Posted : o \in Past' /\ (o \in Lost' <=> o \in Lost)
    BY <1>2, <2>2 DEF Past, Lost
  <2> QED
    BY <2>2, <2>3, <2>4, StaysCounted
<1> QED
  BY <1>3, <1>4 DEF CustodyNext, CustodyStep, RouterStepOfCustody

\* The cap bounds what the exchange accepted of all orders, and not only the
\* router's counter: what it counts is the sum of what was posted, whether it
\* was filled, cancelled or failed since.
THEOREM PostedStaysWithinCap == CustodySpec => []PostedWithinCap
<1>1. CustodyInit => VolumeIsPosted
  <2> SUFFICES ASSUME CustodyInit PROVE VolumeIsPosted
    OBVIOUS
  <2>1. \A o \in Orders : book[o].state = "none"
    BY DEF CustodyInit, NotOnBook
  <2>2. Posted = {} /\ Taken = {} /\ volume = 0
    BY <2>1 DEF Taken, Posted, CustodyInit, Init
  <2> QED
    BY <2>2, SumOfNothing, FS_EmptySet DEF VolumeIsPosted
<1>2. TypeOK /\ CallOK /\ CustodyTypeOK /\ VolumeIsPosted /\ [CustodyNext]_<<vars, money>>
        => VolumeIsPosted'
  BY CustodyTypeOKParts, OtherStepsCount, PostCounts, OthersCount
<1>3. TypeOK /\ CallOK /\ CustodyTypeOK /\ VolumeWithinCap /\ VolumeIsPosted
        => PostedWithinCap
  <2> SUFFICES ASSUME TypeOK, CallOK, CustodyTypeOK, VolumeWithinCap, VolumeIsPosted, Cap > 0
               PROVE  SumFunctionOnSet([o \in Orders |-> book[o].size], Counted) <= Cap
    BY DEF PostedWithinCap
  <2> USE StagesDiffer
  <2>1. MoneyTypes
    BY CustodyTypeOKParts
  <2>2. ASSUME NEW o \in Counted PROVE o \in Taken
    <3>1. /\ o \in Orders /\ book[o].state # "none"
          /\ memory[o].stage # BridgeComplete /\ memory[o].failedAt # BridgeComplete
      BY <2>2 DEF Counted
    <3>2. memory[o].stage >= BridgeComplete
      BY <3>1 DEF VolumeIsPosted, Posted, Past
    <3>3. CASE phase = "commit" /\ cur = o
      BY <3>1, <3>3 DEF Taken, Posted, Lost, Seen, CallOK
    <3>4. CASE ~(phase = "commit" /\ cur = o)
      BY <3>1, <3>4 DEF Taken, Posted, Lost, Seen
    <3> QED
      BY <3>3, <3>4
  <2>3. Summable(Size, Taken)
    BY <2>1 DEF Summable, VolumeIsPosted, Taken, Posted, Size, MoneyTypes
  <2>4. SumFunctionOnSet(Size, Counted) <= SumFunctionOnSet(Size, Taken)
    BY <2>2, <2>3, SumOfLess
  <2>5. SumFunctionOnSet(Size, Taken) \in Nat
    BY <2>3, SumOfTheSame
  <2>6. SumFunctionOnSet(Size, Counted) \in Nat
    <3>1. Summable(Size, Counted)
      BY <2>2, <2>3, FS_Subset DEF Summable
    <3> QED
      BY <3>1, SumOfTheSame
  <2>7. volume <= Cap /\ volume \in Nat /\ Cap \in Nat
    BY ExecutorAssumption DEF VolumeWithinCap, TypeOK
  <2> QED
    BY <2>4, <2>5, <2>6, <2>7 DEF VolumeIsPosted, Size
<1> QED
  BY <1>1, <1>2, <1>3, ImplementsExecutor, TypeCorrect, CustodyTypeCorrect,
     VolumeStaysWithinCap, PTL DEF CustodySpec

====
