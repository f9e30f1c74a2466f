------------------------ MODULE StakingPowerProofs -------------------------
(***************************************************************************)
(* The power of a pool and the sum of its stakes: the power covers the     *)
(* stakes, and differs from them only after an auto-stake without room,    *)
(* for any accounts, capacities, inputs and width of a u64.                *)
(***************************************************************************)
EXTENDS StakingTokensProofs

\* A leaf goes to the SMT solver, for a minute at most, unless it names Zenon.
USE SMTT(60)

\* The three outcomes of an insertion; what replaces a least entry is no less than it.
LEMMA InsertOutcomes ==
    ASSUME NEW h, NEW ks, NEW cap, NEW k, NEW p, NEW r \in InsertExtract(h, ks, cap, k, p)
    PROVE  \/ r = [ok |-> TRUE, heap |-> [h EXCEPT ![k] = p], replaced |-> None]
           \/ \E m \in ks : /\ p >= h[m]
                            /\ r = [ok |-> TRUE, heap |-> [h EXCEPT ![k] = p, ![m] = None],
                                    replaced |-> h[m]]
           \/ r = [ok |-> FALSE, heap |-> h, replaced |-> None]
  BY ZenonT(60) DEF InsertExtract

\* What increase_stake_power does to the sum of the stakes: it grows by what is added to the
\* power, unless the stake saturates or the insertion has failed.
LEMMA OutcomeTotal ==
    ASSUME TypeOK, NEW op \in Operators, NEW own \in Accounts, pools[op] # None,
           NEW increase \in U64, NEW r \in StakeOutcomes(op, own, increase),
           r.stakes \in [Accounts -> U64OrNone]
    PROVE  \/ Total(r.stakes) = Total(pools[op].stakes) + r.added
           \/ /\ Total(r.stakes) <= Total(pools[op].stakes) + r.added
              /\ r.added = increase
              /\ Val(pools[op].stakes[own]) + increase > MaxU64
           \/ /\ ~ r.ok
              /\ r.stakes = pools[op].stakes
              /\ r.added = increase
              /\ pools[op].stakes[own] = None
<1> DEFINE stakes == pools[op].stakes
<1>1. stakes \in [Accounts -> U64OrNone]
  BY PoolFields
<1>2. increase \in Nat /\ increase # None
  BY U64Ops, U64NotNone
<1>3. Val(stakes[own]) \in Nat /\ Total(stakes) \in Nat
  BY <1>1, TotalType, ZenonT(60)
<1> HIDE DEF stakes
<1>4. CASE own = op \/ stakes[own] # None
  <2> DEFINE sum == saturating_add(Val(stakes[own]), increase)
  <2>1. r = [ok |-> TRUE, stakes |-> [stakes EXCEPT ![own] = sum], added |-> increase]
    BY <1>4, ZenonT(60) DEF StakeOutcomes, stakes
  <2>2. /\ sum \in Nat /\ sum <= Val(stakes[own]) + increase
        /\ sum = Val(stakes[own]) + increase \/ Val(stakes[own]) + increase > MaxU64
    BY <1>2, <1>3, U64Assumption DEF saturating_add, saturate, U64
  <2> HIDE DEF sum
  <2>3. /\ r.stakes[own] = sum /\ r.added = increase
        /\ \A o \in Accounts \ {own} : r.stakes[o] = stakes[o]
    BY <1>1, <2>1
  <2>4. Val(r.stakes[own]) = sum
    BY <2>2, <2>3, NoneAssumption DEF Val
  <2>5. Total(r.stakes) = Total(stakes) + (sum - Val(stakes[own]))
    BY <1>1, <2>3, <2>4, TotalChange
  <2> QED BY <1>2, <1>3, <2>2, <2>3, <2>5 DEF stakes
<1>5. CASE own # op /\ stakes[own] = None
  <2> DEFINE ks == Delegated(op, stakes)
  <2>1. PICK q \in InsertExtract(stakes, ks, MaxStakes, own, increase) :
           r = [ok |-> q.ok, stakes |-> q.heap,
                added |-> saturating_sub(increase, Val(q.replaced))]
    BY <1>5, ZenonT(60) DEF StakeOutcomes, stakes
  <2>2. own \notin ks /\ \A m \in ks : m \in Accounts /\ stakes[m] # None
    BY <1>1, <1>5, ZenonT(60) DEF Delegated, Keys
  <2> HIDE DEF ks
  <2>3. Val(None) = 0 /\ Val(increase) = increase /\ Val(stakes[own]) = 0
        /\ saturating_sub(increase, 0) = increase
    BY <1>2, <1>5 DEF Val, saturating_sub
  <2>4. CASE q = [ok |-> TRUE, heap |-> [stakes EXCEPT ![own] = increase], replaced |-> None]
    <3>1. r.stakes = [stakes EXCEPT ![own] = increase] /\ r.added = increase
      BY <2>1, <2>3, <2>4, ZenonT(60)
    <3>2. r.stakes[own] = increase /\ \A o \in Accounts \ {own} : r.stakes[o] = stakes[o]
      BY <1>1, <3>1, ZenonT(60)
    <3>3. Total(r.stakes) = Total(stakes) + (increase - 0)
      BY <1>1, <2>3, <3>2, TotalChange
    <3> QED BY <1>2, <3>1, <3>3 DEF stakes
  <2>5. ASSUME NEW m \in ks, increase >= stakes[m],
               q = [ok |-> TRUE, heap |-> [stakes EXCEPT ![own] = increase, ![m] = None],
                    replaced |-> stakes[m]]
        PROVE  Total(r.stakes) = Total(stakes) + r.added
    <3> DEFINE mid == [stakes EXCEPT ![own] = increase]
    <3>1. m \in Accounts /\ m # own /\ Val(stakes[m]) = stakes[m] /\ Val(stakes[m]) \in Nat
      BY <1>1, <2>2, <2>5, TotalType DEF Val
    <3>2. mid \in [Accounts -> U64OrNone] /\ mid[own] = increase
          /\ \A o \in Accounts \ {own} : mid[o] = stakes[o]
      BY <1>1, ZenonT(60) DEF U64OrNone
    <3>3. r.stakes = [mid EXCEPT ![m] = None]
      BY <2>1, <2>5
    <3> HIDE DEF mid
    <3>4. r.stakes[m] = None /\ \A o \in Accounts \ {m} : r.stakes[o] = mid[o]
      BY <3>1, <3>2, <3>3
    <3>5. Total(mid) = Total(stakes) + (increase - 0)
      BY <1>1, <2>3, <3>2, TotalChange
    <3>6. Total(r.stakes) = Total(mid) + (0 - Val(mid[m]))
      BY <2>3, <3>1, <3>2, <3>4, TotalChange
    <3>7. mid[m] = stakes[m]
      BY <3>1, <3>2, ZenonT(60)
    <3>8. r.added = saturating_sub(increase, Val(stakes[m]))
      BY <2>1, <2>5, ZenonT(60)
    <3>9. r.added = increase - Val(stakes[m])
      BY <1>2, <2>5, <3>1, <3>8, ZenonT(60) DEF saturating_sub
    <3> QED BY <1>2, <1>3, <3>1, <3>5, <3>6, <3>7, <3>9
  <2>6. CASE q = [ok |-> FALSE, heap |-> stakes, replaced |-> None]
    <3>1. ~ r.ok /\ r.stakes = stakes /\ r.added = increase
      BY <2>1, <2>3, <2>6, ZenonT(60)
    <3> QED BY <1>5, <3>1, ZenonT(60) DEF stakes
  <2>7. \/ q = [ok |-> TRUE, heap |-> [stakes EXCEPT ![own] = increase], replaced |-> None]
        \/ \E m \in ks : /\ increase >= stakes[m]
                         /\ q = [ok |-> TRUE, heap |-> [stakes EXCEPT ![own] = increase, ![m] = None],
                                 replaced |-> stakes[m]]
        \/ q = [ok |-> FALSE, heap |-> stakes, replaced |-> None]
    BY <2>1, InsertOutcomes
  <2> QED BY <2>4, <2>5, <2>6, <2>7, ZenonT(60) DEF stakes
<1> QED BY <1>4, <1>5 DEF stakes

-----------------------------------------------------------------------------
(***************************************************************************)
(* The power of a pool and the sum of its stakes.                          *)
(***************************************************************************)

\* The stakes of a pool p and its power fall by u.
Reduced(p, q, u) ==
    /\ u <= Total(p.stakes)
    /\ Total(q.stakes) = Total(p.stakes) - u
    /\ q.power = saturating_sub(p.power, u)

\* The power of the pool of op rises by added, and so do its stakes; or a stake is cut off
\* at the width of a u64; or the reward of own, that next_epoch was to stake, finds no place.
Raised(op, q, own, added) ==
    /\ q.power = saturating_add(pools[op].power, added)
    /\ \/ Total(q.stakes) = Total(pools[op].stakes) + added
       \/ /\ Total(q.stakes) <= Total(pools[op].stakes) + added
          /\ Val(pools[op].stakes[own]) + added > MaxU64
       \/ /\ q.stakes = pools[op].stakes
          /\ pools[op].stakes[own] = None
          /\ auto_stakes[op][own] = added
          /\ auto_stakes'[op][own] = None

\* What a step does to the pool of op.
PoolChange(op) ==
    \/ pools'[op] \in {None, pools[op]}
    \/ pools[op] = None /\ pools'[op].power = 0 /\ Total(pools'[op].stakes) = 0
    \/ /\ pools[op] # None
       /\ \/ /\ pools'[op].power = pools[op].power
             /\ pools'[op].stakes = pools[op].stakes
          \/ \E u \in Nat : Reduced(pools[op], pools'[op], u)
          \/ \E own \in Accounts, added \in U64 : Raised(op, pools'[op], own, added)

\* reduce_stake_power lowers stakes and power by the same amount.
LEMMA ReduceChanges ==
    ASSUME IInv, NEW op \in Operators, NEW own \in Accounts, NEW amount \in U64,
           pools[op] # None, pools[op].stakes[own] # None, ReduceStakePower(op, own, amount)
    PROVE  \A o \in Operators : PoolChange(o)
<1> DEFINE pool == pools[op]
           stake == pool.stakes[own]
           u == min(stake, amount)
           power == saturating_sub(pool.power, u)
           left == IF stake <= amount THEN None ELSE stake - amount
           stakes == [pool.stakes EXCEPT ![own] = left]
           rec == [commission_rate |-> pool.commission_rate, power |-> power, stakes |-> stakes]
<1>1. pool.stakes \in [Accounts -> U64OrNone] /\ stake \in U64 /\ Val(stake) = stake
  BY PoolFields, ZenonT(60) DEF IInv, U64OrNone, Val
<1>2. pools' = [pools EXCEPT ![op] = rec]
  BY ZenonT(60) DEF ReduceStakePower
<1>3. pools \in [Operators -> PoolOrNone]
  BY ZenonT(60) DEF IInv, TypeOK
<1>4. pools'[op] = rec /\ \A o \in Operators \ {op} : pools'[o] = pools[o]
  BY <1>2, <1>3, ZenonT(60)
<1> HIDE DEF pool
<1>5. stake \in Nat /\ amount \in Nat /\ stake <= Total(pool.stakes) /\ Total(pool.stakes) \in Nat
  BY <1>1, U64Ops, TotalType, ZenonT(60)
<1> HIDE DEF stake
<1>6. u \in Nat /\ u <= stake /\ u <= Total(pool.stakes)
  BY <1>5 DEF min
<1>7. left \in U64OrNone /\ Val(left) = stake - u
  <2>1. CASE stake <= amount
    BY <1>5, <2>1 DEF U64OrNone, Val, min
  <2>2. CASE ~ (stake <= amount)
    <3>1. stake - amount \in U64 /\ stake - amount # None /\ left = stake - amount /\ u = amount
      BY <1>1, <1>5, <2>2, NoneAssumption, U64Assumption DEF U64, min
    <3> QED BY <3>1, ZenonT(60) DEF U64OrNone, Val
  <2> QED BY <2>1, <2>2, ZenonT(60)
<1> HIDE DEF u, left, power
<1>8. stakes \in [Accounts -> U64OrNone] /\ stakes[own] = left
      /\ \A o \in Accounts \ {own} : stakes[o] = pool.stakes[o]
  BY <1>1, <1>7, ZenonT(60)
<1> HIDE DEF stakes
<1>9. Total(stakes) = Total(pool.stakes) + ((stake - u) - stake)
  <2>1. Total(stakes) = Total(pool.stakes) + (Val(stakes[own]) - Val(pool.stakes[own]))
    BY <1>1, <1>8, TotalChange, ZenonT(60)
  <2> QED BY <1>1, <1>7, <1>8, <2>1, ZenonT(60) DEF stake
<1>10. Total(stakes) = Total(pool.stakes) - u
  BY <1>5, <1>6, <1>9
<1>11. rec.power = power /\ rec.stakes = stakes
  BY ZenonT(60)
<1> HIDE DEF rec
<1>12. Reduced(pools[op], pools'[op], u)
  BY <1>4, <1>6, <1>10, <1>11 DEF Reduced, pool, power
<1> QED BY <1>4, <1>6, <1>12, ZenonT(60) DEF PoolChange

\* increase_stake_power raises them by the same amount, but for the exceptions of Raised.
LEMMA ApplyChanges ==
    ASSUME IInv, NEW op \in Operators, NEW own \in Accounts, pools[op] # None,
           NEW increase \in U64, NEW r \in StakeOutcomes(op, own, increase), ApplyStake(op, r),
           r.ok \/ (auto_stakes[op][own] = increase /\ auto_stakes'[op][own] = None)
    PROVE  \A o \in Operators : PoolChange(o)
<1> DEFINE power == saturating_add(pools[op].power, r.added)
           rec == [commission_rate |-> pools[op].commission_rate,
                   power |-> power, stakes |-> r.stakes]
<1>1. TypeOK /\ CapacitiesKept
  BY ZenonT(60) DEF IInv
<1>2. r.added \in U64 /\ r.stakes \in [Accounts -> U64OrNone]
  BY <1>1, StakeOutcome, ZenonT(60) DEF StakesAfter
<1>3. pools' = [pools EXCEPT ![op] = rec] /\ pools \in [Operators -> PoolOrNone]
  BY <1>1, ZenonT(60) DEF ApplyStake, TypeOK
<1>4. rec.power = power /\ rec.stakes = r.stakes
  BY ZenonT(60)
<1> HIDE DEF rec
<1>5. pools'[op] = rec /\ \A o \in Operators \ {op} : pools'[o] = pools[o]
  BY <1>3, ZenonT(60)
<1>6. \/ Total(r.stakes) = Total(pools[op].stakes) + r.added
      \/ /\ Total(r.stakes) <= Total(pools[op].stakes) + r.added
         /\ r.added = increase
         /\ Val(pools[op].stakes[own]) + increase > MaxU64
      \/ /\ ~ r.ok
         /\ r.stakes = pools[op].stakes
         /\ r.added = increase
         /\ pools[op].stakes[own] = None
  BY <1>1, <1>2, OutcomeTotal, ZenonT(60)
<1>7. Raised(op, pools'[op], own, r.added)
  BY <1>4, <1>5, <1>6, ZenonT(60) DEF Raised
<1> QED BY <1>2, <1>5, <1>7, ZenonT(60) DEF PoolChange

\* Every step changes the pools in one of these ways.
LEMMA StepsOfPools ==
    ASSUME IInv, [Next]_vars, NEW o \in Operators
    PROVE  PoolChange(o)
<1>1. CASE UNCHANGED pools
  BY <1>1, ZenonT(60) DEF PoolChange
<1>2. ASSUME NEW op \in Operators, NEW rate \in Rates, CreatePool(op, rate) PROVE PoolChange(o)
  <2> DEFINE rec == [commission_rate |-> rate, power |-> 0, stakes |-> NoStakes]
  <2>1. UNCHANGED pools \/ (pools[op] = None /\ pools' = [pools EXCEPT ![op] = rec])
    BY <1>2, ZenonT(60) DEF CreatePool, Abort, ledger
  <2>2. rec.power = 0 /\ Total(rec.stakes) = 0
    <3>1. \A own \in Accounts : Vals(NoStakes)[own] = 0 * Vals(NoStakes)[own]
                                /\ Vals(NoStakes)[own] \in Int
      BY DEF Vals, NoStakes, Val
    <3>2. SumFunctionOnSet(Vals(NoStakes), Accounts) = 0 * SumFunctionOnSet(Vals(NoStakes), Accounts)
      BY <3>1, StakingAssumption, SumScale
    <3>3. NoStakes \in [Accounts -> U64OrNone]
      BY ZenonT(60) DEF NoStakes, U64OrNone
    <3>4. Total(NoStakes) = 0
      BY <3>2, <3>3, TotalType
    <3> QED BY <3>4, ZenonT(60)
  <2> HIDE DEF rec
  <2>3. CASE pools[op] = None /\ pools' = [pools EXCEPT ![op] = rec]
    <3>1. pools'[op] = rec /\ \A x \in Operators \ {op} : pools'[x] = pools[x]
      BY <2>3, ZenonT(60) DEF IInv, TypeOK
    <3> QED BY <2>2, <2>3, <3>1, ZenonT(60) DEF PoolChange
  <2> QED BY <1>1, <2>1, <2>3
<1>3. ASSUME NEW op \in Operators, NEW rate \in Rates, SetPoolSettings(op, rate)
      PROVE  PoolChange(o)
  <2> DEFINE rec == [commission_rate |-> rate, power |-> pools[op].power, stakes |-> pools[op].stakes]
  <2>1. UNCHANGED pools \/ (pools[op] # None /\ pools' = [pools EXCEPT ![op] = rec])
    BY <1>3, ZenonT(60) DEF SetPoolSettings, Abort, ledger
  <2>2. rec.power = pools[op].power /\ rec.stakes = pools[op].stakes
    BY ZenonT(60)
  <2> HIDE DEF rec
  <2>3. CASE pools[op] # None /\ pools' = [pools EXCEPT ![op] = rec]
    <3>1. pools'[op] = rec /\ \A x \in Operators \ {op} : pools'[x] = pools[x]
      BY <2>3, ZenonT(60) DEF IInv, TypeOK
    <3> QED BY <2>2, <2>3, <3>1, ZenonT(60) DEF PoolChange
  <2> QED BY <1>1, <2>1, <2>3, ZenonT(60)
<1>4. ASSUME NEW op \in Operators, DeletePool(op) PROVE PoolChange(o)
  <2>1. UNCHANGED pools \/ pools' = [pools EXCEPT ![op] = None]
    BY <1>4, ZenonT(60) DEF DeletePool, Abort, ledger
  <2>2. CASE pools' = [pools EXCEPT ![op] = None]
    BY <2>2, ZenonT(60) DEF PoolChange, IInv, TypeOK
  <2> QED BY <1>1, <2>1, <2>2, ZenonT(60)
<1>5. ASSUME NEW op \in Operators, NEW own \in Accounts, NEW amount \in Amounts,
             WithdrawDeposit(own, op, amount)
      PROVE  PoolChange(o)
  <2> DEFINE dep == deposit[op][own]
             left == saturating_sub(dep, min(amount, saturating_sub(dep, Locked(op, own))))
             stake == stake_of_pool(pools, op, own)
  <2>1. UNCHANGED pools \/ (dep # None /\ CapStake(op, own, left))
    BY <1>5, ZenonT(60) DEF WithdrawDeposit, Abort, ledger
  <2>2. CASE dep # None /\ CapStake(op, own, left)
    <3>1. UNCHANGED pools
          \/ (stake # None /\ left < Val(stake) /\ ReduceStakePower(op, own, stake - left))
      BY <2>2, ZenonT(60) DEF CapStake
    <3>2. CASE stake # None /\ left < Val(stake) /\ ReduceStakePower(op, own, stake - left)
      <4>1. stake \in U64 /\ Val(stake) = stake /\ pools[op] # None /\ stake = pools[op].stakes[own]
        <5>1. stake \in U64OrNone
          BY StakeType, ZenonT(60) DEF IInv, TypeOK
        <5> QED BY <3>2, <5>1 DEF U64OrNone, Val, stake_of_pool
      <4>2. left \in U64
        <5>1. dep \in U64
          BY <2>2 DEF IInv, TypeOK, U64OrNone
        <5>2. vp \in [Operators -> PoolOrNone] /\ pvp \in [Operators -> PoolOrNone]
          BY ZenonT(60) DEF IInv, TypeOK
        <5>3. Locked(op, own) \in U64
          BY <5>2, StakeType, ValType, U64Ops, ZenonT(60) DEF Locked
        <5>4. amount \in U64
          BY StakingAssumption, ZenonT(60)
        <5> HIDE DEF dep
        <5> QED BY <5>1, <5>3, <5>4, U64Ops, ZenonT(60)
      <4> HIDE DEF left, stake
      <4>3. stake - left \in U64
        BY <3>2, <4>1, <4>2, U64Assumption DEF U64
      <4> QED BY <3>2, <4>1, <4>3, ReduceChanges
    <3> QED BY <1>1, <3>1, <3>2, ZenonT(60)
  <2> QED BY <1>1, <2>1, <2>2, ZenonT(60)
<1>6. ASSUME NEW op \in Operators, NEW own \in Accounts, NEW amount \in Amounts,
             UnstakeDeposit(own, op, amount)
      PROVE  PoolChange(o)
  <2>1. UNCHANGED pools \/ (pools[op] # None /\ pools[op].stakes[own] # None
                            /\ ReduceStakePower(op, own, amount))
    BY <1>6, ZenonT(60) DEF UnstakeDeposit, Abort, ledger
  <2>2. amount \in U64
    BY StakingAssumption, ZenonT(60)
  <2> QED BY <1>1, <2>1, <2>2, ReduceChanges
<1>7. ASSUME NEW op \in Operators, NEW own \in Accounts, NEW amount \in Amounts,
             StakeDeposit(own, op, amount)
      PROVE  PoolChange(o)
  <2> DEFINE dep == deposit[op][own]
             increase == min(amount, saturating_sub(dep, Val(pools[op].stakes[own])))
  <2>1. UNCHANGED pools \/ (dep # None /\ pools[op] # None
                            /\ \E r \in StakeOutcomes(op, own, increase) : r.ok /\ ApplyStake(op, r))
    BY <1>7, ZenonT(60) DEF StakeDeposit, Abort, ledger
  <2>2. CASE dep # None /\ pools[op] # None
             /\ \E r \in StakeOutcomes(op, own, increase) : r.ok /\ ApplyStake(op, r)
    <3>1. increase \in U64
      <4>1. dep \in U64 /\ amount \in U64
        BY <2>2, StakingAssumption DEF IInv, TypeOK, U64OrNone
      <4>2. Val(pools[op].stakes[own]) \in U64
        BY <2>2, PoolFields, TotalType, ZenonT(60) DEF IInv
      <4> HIDE DEF dep
      <4> QED BY <4>1, <4>2, U64Ops, ZenonT(60)
    <3> HIDE DEF increase
    <3> QED BY <2>2, <3>1, ApplyChanges, ZenonT(60)
  <2> QED BY <1>1, <2>1, <2>2, ZenonT(60)
<1>8. ASSUME NEW op \in Operators, NEW own \in Accounts, AutoStake(op, own) PROVE PoolChange(o)
  <2>1. /\ auto_stakes[op][own] \in U64
        /\ auto_stakes'[op][own] = None
    BY <1>8 DEF AutoStake, IInv, TypeOK, U64OrNone
  <2>2. UNCHANGED pools \/ (pools[op] # None
            /\ \E r \in StakeOutcomes(op, own, auto_stakes[op][own]) : ApplyStake(op, r))
    BY <1>8, ZenonT(60) DEF AutoStake
  <2> QED BY <1>1, <2>1, <2>2, ApplyChanges
<1>9. ASSUME NEW op \in Operators, NEW own \in Accounts, DepositCommand(own, op)
      PROVE  PoolChange(o)
  <2>1. ASSUME NEW amount \in Amounts, NEW flag \in BOOLEAN, CreateDeposit(own, op, amount, flag)
        PROVE  UNCHANGED pools
    BY <2>1, ZenonT(60) DEF CreateDeposit, Abort, ledger
  <2>2. ASSUME NEW flag \in BOOLEAN, SetDepositSettings(own, op, flag) PROVE UNCHANGED pools
    BY <2>2, ZenonT(60) DEF SetDepositSettings, Abort, ledger
  <2>3. ASSUME NEW amount \in Amounts, TopUpDeposit(own, op, amount) PROVE UNCHANGED pools
    BY <2>3, ZenonT(60) DEF TopUpDeposit, Abort, ledger
  <2> QED BY <1>1, <1>5, <1>6, <1>7, <1>9, <2>1, <2>2, <2>3, ZenonT(60) DEF DepositCommand
<1>10. CASE NextEpoch
  <2>1. ASSUME NEW blocks \in [Keys(vp) -> BlockCounts], RewardStakes(blocks) PROVE UNCHANGED pools
    BY <2>1, ZenonT(60) DEF RewardStakes
  <2>2. RotateValidators => UNCHANGED pools
    BY ZenonT(60) DEF RotateValidators, ledger
  <2> QED BY <1>1, <1>8, <1>10, <2>1, <2>2, ZenonT(60) DEF NextEpoch
<1>11. GasExhausted \/ UNCHANGED vars => UNCHANGED pools
  BY ZenonT(60) DEF GasExhausted, Abort, vars, ledger
<1>12. ASSUME NEW op \in Operators, PoolCommand(op) PROVE PoolChange(o)
  BY <1>2, <1>3, <1>4, <1>12, ZenonT(60) DEF PoolCommand
<1> QED BY <1>1, <1>9, <1>10, <1>11, <1>12, ZenonT(60) DEF Next

\* The power of a pool is below the limit of a u64, or its stakes are.
PoolsFit == \A op \in Keys(pools) : pools[op].power < MaxU64 \/ SumOfStakes(pools[op]) <= MaxU64

\* The pools that exist.
LEMMA PoolKeys ==
    ASSUME TypeOK
    PROVE  Keys(pools) = {op \in Operators : pools[op] # None}
  BY ZenonT(60) DEF TypeOK, Keys

\* The numbers of a pool.
LEMMA PoolNumbers ==
    ASSUME TypeOK, NEW op \in Operators, pools[op] # None
    PROVE  /\ pools[op].power \in Nat /\ pools[op].power <= MaxU64
           /\ pools[op].stakes \in [Accounts -> U64OrNone]
           /\ Total(pools[op].stakes) \in Nat
           /\ SumOfStakes(pools[op]) = Total(pools[op].stakes)
           /\ \A own \in Accounts : Val(pools[op].stakes[own]) \in Nat
                                    /\ Val(pools[op].stakes[own]) <= Total(pools[op].stakes)
<1>1. pools[op].power \in U64 /\ pools[op].stakes \in [Accounts -> U64OrNone]
  BY PoolFields
<1>2. \A n \in U64 : n \in Nat /\ n <= MaxU64
  BY U64Assumption DEF U64
<1> QED BY <1>1, <1>2, TotalType, TotalIsSum, ZenonT(60)

\* No step makes the stakes exceed the power.
LEMMA CoversStep ==
    ASSUME IInv, IInv', PoolsFit', PowerCoversStakes, [Next]_vars
    PROVE  PowerCoversStakes'
<1>1. TypeOK /\ TypeOK'
  BY ZenonT(60) DEF IInv
<1> SUFFICES ASSUME NEW op \in Operators, pools'[op] # None
             PROVE  pools'[op].power >= Total(pools'[op].stakes)
  <2>1. Keys(pools)' = {op \in Operators : pools'[op] # None}
    BY <1>1, ZenonT(60) DEF TypeOK, Keys
  <2> QED BY <2>1, TotalIsSum DEF PowerCoversStakes, SumOfStakes, Total, Vals
<1> DEFINE q == pools'[op]
<1>2. q.power \in Nat /\ q.power <= MaxU64 /\ Total(q.stakes) \in Nat
  <2>1. q \in Pool
    BY <1>1, ZenonT(60) DEF TypeOK, PoolOrNone
  <2>2. q.power \in U64 /\ q.stakes \in [Accounts -> U64OrNone]
    BY <2>1, ZenonT(60) DEF Pool
  <2>3. Total(q.stakes) \in Nat
    BY <2>2, TotalType, ZenonT(60)
  <2> QED BY <2>2, <2>3, U64Assumption DEF U64
<1>3. q.power < MaxU64 \/ Total(q.stakes) <= MaxU64
  <2>1. op \in Keys(pools')
    BY <1>1, ZenonT(60) DEF TypeOK, Keys
  <2> QED BY <2>1, TotalIsSum DEF PoolsFit, Keys, SumOfStakes, Total, Vals
<1>4. ASSUME pools[op] # None
      PROVE  /\ pools[op].power \in Nat /\ Total(pools[op].stakes) \in Nat
             /\ pools[op].power >= Total(pools[op].stakes)
             /\ \A own \in Accounts : Val(pools[op].stakes[own]) \in Nat
                                      /\ Val(pools[op].stakes[own]) <= Total(pools[op].stakes)
  <2>1. op \in Keys(pools)
    BY <1>1, <1>4, PoolKeys, ZenonT(60)
  <2> QED BY <1>1, <1>4, <2>1, PoolNumbers DEF PowerCoversStakes
<1>5. CASE q = pools[op]
  BY <1>4, <1>5
<1>6. CASE q.power = 0 /\ Total(q.stakes) = 0
  BY <1>6
<1>7. CASE pools[op] # None /\ q.power = pools[op].power /\ q.stakes = pools[op].stakes
  BY <1>4, <1>7, ZenonT(60)
<1>8. ASSUME pools[op] # None, NEW u \in Nat, Reduced(pools[op], q, u)
      PROVE  q.power >= Total(q.stakes)
  <2>1. /\ Total(q.stakes) = Total(pools[op].stakes) - u
        /\ q.power = saturating_sub(pools[op].power, u)
    BY <1>8, ZenonT(60) DEF Reduced
  <2> HIDE DEF q
  <2> QED BY <1>2, <1>4, <1>8, <2>1 DEF saturating_sub
<1>9. ASSUME pools[op] # None, NEW own \in Accounts, NEW added \in U64, Raised(op, q, own, added)
      PROVE  q.power >= Total(q.stakes)
  <2>1. q.power = saturating_add(pools[op].power, added)
    BY <1>9 DEF Raised
  <2>2. added \in Nat
    BY U64Ops, ZenonT(60)
  <2>3. Total(q.stakes) <= Total(pools[op].stakes) + added
    <3>1. \/ Total(q.stakes) = Total(pools[op].stakes) + added
          \/ Total(q.stakes) <= Total(pools[op].stakes) + added
          \/ q.stakes = pools[op].stakes
      BY <1>9, ZenonT(60) DEF Raised
    <3> HIDE DEF q
    <3> QED BY <1>2, <1>4, <1>9, <2>2, <3>1
  <2>4. q.power = MaxU64 \/ q.power = pools[op].power + added
    BY <2>1, ZenonT(60) DEF saturating_add, saturate
  <2> HIDE DEF q
  <2> QED BY <1>2, <1>3, <1>4, <1>9, <2>2, <2>3, <2>4, U64Assumption
<1>10. PoolChange(op)
  BY StepsOfPools, ZenonT(60)
<1> HIDE DEF q
<1> QED BY <1>5, <1>6, <1>7, <1>8, <1>9, <1>10, ZenonT(60) DEF PoolChange, q

\* Power covers stakes for as long as the pools fit.
LEMMA CoveredWhilePoolsFit == Spec /\ []PoolsFit => []PowerCoversStakes
<1>1. Init => PowerCoversStakes
  BY ZenonT(60) DEF Init, PowerCoversStakes, Keys
<1>2. IInv /\ IInv' /\ PoolsFit' /\ PowerCoversStakes /\ [Next]_vars => PowerCoversStakes'
  BY CoversStep
<1> QED BY <1>1, <1>2, Invariance, PTL DEF Spec

\* The difference between a pool's power and its stakes changes only when next_epoch cannot
\* stake a reward: no command, eviction or withdrawal changes it, as long as no power reaches
\* the limit of a u64 (increase_stake_power, reduce_stake_power, next_epoch).
THEOREM PowerDrifts == Spec /\ []PowersFit => PowerDriftsOnlyWhenAutoStakeFails
<1> DEFINE Drift(p) == p.power - Total(p.stakes)
           Step == \A op \in Keys(pools) : pools'[op] \notin {None, pools[op]} =>
                LET drift == (pools[op].power - SumOfStakes(pools[op]))'
                                 - (pools[op].power - SumOfStakes(pools[op]))
                IN  \/ drift = 0
                    \/ \E own \in Accounts :
                          /\ auto_stakes[op][own] = drift
                          /\ auto_stakes'[op][own] = None
                          /\ pools'[op].stakes = pools[op].stakes
                          /\ pools[op].stakes[own] = None
<1>1. IInv /\ IInv' /\ PowerCoversStakes /\ PowersFit' /\ [Next]_vars => [Step]_vars
  <2> SUFFICES ASSUME IInv, IInv', PowerCoversStakes, PowersFit', [Next]_vars,
                      NEW op \in Keys(pools), pools'[op] \notin {None, pools[op]}
               PROVE  \/ Drift(pools'[op]) - Drift(pools[op]) = 0
                      \/ \E own \in Accounts :
                            /\ auto_stakes[op][own] = Drift(pools'[op]) - Drift(pools[op])
                            /\ auto_stakes'[op][own] = None
                            /\ pools'[op].stakes = pools[op].stakes
                            /\ pools[op].stakes[own] = None
    BY TotalIsSum, ZenonT(60) DEF SumOfStakes, Total, Vals
  <2> DEFINE p == pools[op]
             q == pools'[op]
  <2>1. TypeOK /\ TypeOK' /\ op \in Operators /\ p # None /\ q # None
    <3>1. TypeOK /\ TypeOK'
      BY ZenonT(60) DEF IInv
    <3> QED BY <3>1, PoolKeys
  <2>2. /\ p.power \in Nat /\ Total(p.stakes) \in Nat /\ p.power >= Total(p.stakes)
        /\ \A own \in Accounts : Val(p.stakes[own]) \in Nat /\ Val(p.stakes[own]) <= Total(p.stakes)
    BY <2>1, PoolNumbers, ZenonT(60) DEF PowerCoversStakes
  <2>3. q.power \in Nat /\ Total(q.stakes) \in Nat /\ q.power < MaxU64
    <3>1. q \in Pool /\ op \in Keys(pools')
      BY <2>1, ZenonT(60) DEF TypeOK, PoolOrNone, Keys
    <3>2. q.power \in U64 /\ q.stakes \in [Accounts -> U64OrNone]
      BY <3>1 DEF Pool
    <3>3. Total(q.stakes) \in Nat /\ q.power \in Nat
      BY <3>2, TotalType, U64Ops, ZenonT(60)
    <3> QED BY <3>1, <3>3 DEF PowersFit, Keys
  <2>4. PoolChange(op)
    BY <2>1, StepsOfPools, ZenonT(60)
  <2>5. CASE q.power = p.power /\ q.stakes = p.stakes
    <3> HIDE DEF p, q
    <3> QED BY <2>2, <2>3, <2>5 DEF p, q
  <2>6. ASSUME NEW u \in Nat, Reduced(p, q, u) PROVE Drift(q) - Drift(p) = 0
    <3>1. /\ u <= Total(p.stakes) /\ Total(q.stakes) = Total(p.stakes) - u
          /\ q.power = saturating_sub(p.power, u)
      BY <2>6, ZenonT(60) DEF Reduced
    <3> HIDE DEF p, q
    <3>2. q.power = p.power - u
      BY <2>2, <3>1 DEF saturating_sub
    <3> QED BY <2>2, <3>1, <3>2
  <2>7. ASSUME NEW own \in Accounts, NEW added \in U64, Raised(op, q, own, added)
        PROVE  \/ Drift(q) - Drift(p) = 0
               \/ /\ auto_stakes[op][own] = Drift(q) - Drift(p)
                  /\ auto_stakes'[op][own] = None
                  /\ q.stakes = p.stakes
                  /\ p.stakes[own] = None
    <3>1. added \in Nat
      BY U64Ops, ZenonT(60)
    <3>2. q.power = p.power + added
      <4>1. q.power = saturating_add(p.power, added)
        BY <2>7, ZenonT(60) DEF Raised
      <4> HIDE DEF p, q
      <4> QED BY <2>2, <2>3, <3>1, <4>1, U64Assumption DEF saturating_add, saturate, U64
    <3>3. CASE Total(q.stakes) = Total(p.stakes) + added
      <4> HIDE DEF p, q
      <4> QED BY <2>2, <3>1, <3>2, <3>3
    <3>4. ~ (Val(p.stakes[own]) + added > MaxU64)
      <4> HIDE DEF p, q
      <4> QED BY <2>2, <2>3, <3>1, <3>2, U64Assumption
    <3>5. CASE /\ q.stakes = p.stakes /\ p.stakes[own] = None
               /\ auto_stakes[op][own] = added /\ auto_stakes'[op][own] = None
      <4>1. Drift(q) - Drift(p) = added
        <5> HIDE DEF p, q
        <5> QED BY <2>2, <3>1, <3>2, <3>5
      <4> QED BY <3>5, <4>1
    <3> QED BY <2>7, <3>3, <3>4, <3>5, ZenonT(60) DEF Raised
  <2> HIDE DEF Drift
  <2> QED BY <2>1, <2>4, <2>5, <2>6, <2>7, ZenonT(60) DEF PoolChange
<1>2. PowersFit => PoolsFit
  BY ZenonT(60) DEF PowersFit, PoolsFit
<1>3. Spec /\ []PowersFit => [](IInv /\ PowerCoversStakes)
  BY <1>2, CoveredWhilePoolsFit, Invariance, PTL
<1>4. Spec /\ []PowersFit => [][Step]_vars
  BY <1>1, <1>3, PTL DEF Spec
<1> QED BY <1>4 DEF PowerDriftsOnlyWhenAutoStakeFails

\* A pool's power is never less than the sum of its stakes as long as all tokens together fit
\* in a u64, so that reduce_stake_power never cuts off a decrease at zero: deposits back all
\* stakes, and a power that has reached the limit of a u64 covers them as well.
THEOREM PowerCovers == Spec /\ []SupplyFits => []PowerCoversStakes
<1>1. IInv /\ SupplyFits => PoolsFit
  <2> SUFFICES ASSUME IInv, SupplyFits, NEW op \in Keys(pools)
               PROVE  SumOfStakes(pools[op]) <= MaxU64
    BY ZenonT(60) DEF PoolsFit
  <2>1. TypeOK /\ StakesBacked
    BY ZenonT(60) DEF IInv
  <2>2. op \in Operators /\ pools[op] # None
    BY <2>1, PoolKeys, ZenonT(60)
  <2>3. /\ pools[op].stakes \in [Accounts -> U64OrNone]
        /\ Total(pools[op].stakes) \in Nat
        /\ SumOfStakes(pools[op]) = Total(pools[op].stakes)
    BY <2>1, <2>2, PoolNumbers, ZenonT(60)
  <2>4. \A own \in Accounts : Val(pools[op].stakes[own]) <= Val(deposit[op][own])
    BY <2>1, <2>2, ZenonT(60) DEF StakesBacked, stake_of_pool
  <2>5. Total(pools[op].stakes) <= Wealth /\ Wealth \in Nat
    BY <2>1, <2>2, <2>3, <2>4, StakesInWealth, WealthType, ZenonT(60)
  <2> QED BY <2>3, <2>5, U64Assumption DEF SupplyFits
<1> QED BY <1>1, CoveredWhilePoolsFit, Invariance, PTL

=============================================================================
