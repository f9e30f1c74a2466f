--------------------------- MODULE StakingProofs ---------------------------
(***************************************************************************)
(* Proofs about Staking: for any accounts, capacities, inputs and width of *)
(* a u64, deposits back every stake, the next validator set lists existing *)
(* pools with their own power, and no set outgrows its capacity.           *)
(***************************************************************************)
EXTENDS Staking, FiniteSetTheorems, TLAPS

\* A leaf goes to the SMT solver, for a minute at most, unless it names Zenon.
USE SMTT(60)

-----------------------------------------------------------------------------
(***************************************************************************)
(* Arithmetic.                                                             *)
(***************************************************************************)

\* The saturating operations and the casts stay within a u64.
LEMMA U64Ops ==
    /\ U64 \subseteq Nat
    /\ 0 \in U64
    /\ \A x \in U64, y \in U64 : /\ saturating_add(x, y) \in U64
                                 /\ saturating_sub(x, y) \in U64
                                 /\ min(x, y) \in U64
                                 /\ max(x, y) \in U64
    /\ \A n \in Int : as_u64(n) \in U64
  BY U64Assumption DEF U64, saturate, saturating_add, saturating_sub, min, max, as_u64

\* A u64 is never the absence of a value.
LEMMA U64NotNone == \A n \in U64 : n # None
  BY NoneAssumption, U64Ops

\* The order of u64 is reflexive.
LEMMA U64Reflexive == \A n \in U64 : n <= n
  BY U64Ops

\* Anything saturated is a u64.
LEMMA SaturateType == \A n : saturate(n) \in U64
  BY U64Assumption DEF U64, saturate

\* A saturating sum is monotone and no smaller than its summands.
LEMMA SaturatingAddMonotone ==
    \A x \in U64, y \in U64, z \in U64 :
        /\ x <= saturating_add(x, z)
        /\ z <= saturating_add(x, z)
        /\ x <= y => saturating_add(x, z) <= saturating_add(y, z)
  BY U64Assumption DEF U64, saturate, saturating_add

\* pool_reward is a u64 and is defined for every number of expected blocks.
LEMMA PoolRewardType ==
    ASSUME NEW e \in 0 .. MaxEpoch, NEW power \in U64, NEW actual \in Nat, NEW expected \in Nat
    PROVE  pool_reward(e, power, actual, expected) \in U64
<1> DEFINE num == power * IssuanceRate[e]
<1>1. num \in Int /\ IssuanceDenom \in Nat /\ IssuanceDenom > 0
  BY IssuanceAssumption, U64Ops
<1>2. num \div IssuanceDenom \in Int
  <2> HIDE DEF num
  <2> QED BY <1>1
<1>3. ASSUME expected # 0 PROVE (num * actual) \div (IssuanceDenom * expected) \in Int
  <2>1. num * actual \in Int
    <3> HIDE DEF num
    <3> QED BY <1>1
  <2>2. IssuanceDenom * expected \in Int /\ IssuanceDenom * expected > 0
    BY <1>1, <1>3
  <2> DEFINE x == num * actual
             y == IssuanceDenom * expected
  <2> HIDE DEF x, y
  <2>3. x \div y \in Int
    BY <2>1, <2>2 DEF x, y
  <2> QED BY <2>3, ZenonT(60) DEF x, y
<1> QED BY <1>2, <1>3, U64Ops, ZenonT(60) DEF pool_reward, issuance

\* So are both components of stake_reward.
LEMMA StakeRewardType ==
    ASSUME NEW reward \in U64, NEW rate \in 0 .. 100, NEW stake \in U64, NEW total \in U64
    PROVE  /\ stake_reward(reward, rate, stake, total).reward \in U64
           /\ stake_reward(reward, rate, stake, total).commission \in U64
<1>1. CASE total = 0
  BY <1>1, U64Ops, ZenonT(60) DEF stake_reward
<1>2. CASE total # 0
  <2> DEFINE rs == reward * stake
             g == rs \div total
             rrs == rate * reward * stake
             f == rrs \div (100 * total)
  <2>1. rs \in Int /\ rrs \in Int
    BY U64Ops
  <2>2. total \in Nat /\ total > 0 /\ 100 * total \in Nat /\ 100 * total > 0
    BY <1>2, U64Ops
  <2>3. g \in Int /\ f \in Int
    <3> HIDE DEF rs, rrs
    <3> QED BY <2>1, <2>2
  <2>4. saturating_sub(g, f) \in Int
    <3> HIDE DEF g, f
    <3> QED BY <2>3 DEF saturating_sub
  <2>5. stake_reward(reward, rate, stake, total)
            = [reward |-> as_u64(saturating_sub(g, f)), commission |-> as_u64(f)]
    BY <1>2, ZenonT(60) DEF stake_reward
  <2> QED BY <2>3, <2>4, <2>5, U64Ops
<1> QED BY <1>1, <1>2, ZenonT(60)

-----------------------------------------------------------------------------
(***************************************************************************)
(* Index heaps.                                                            *)
(***************************************************************************)

\* The three outcomes of an insertion.
LEMMA InsertExtractCases ==
    ASSUME NEW h, NEW ks, NEW cap, NEW k, NEW p, NEW r \in InsertExtract(h, ks, cap, k, p)
    PROVE  \/ /\ Cardinality(ks) < cap
              /\ r = [ok |-> TRUE, heap |-> [h EXCEPT ![k] = p], replaced |-> None]
           \/ \E m \in ks :
                 r = [ok |-> TRUE, heap |-> [h EXCEPT ![k] = p, ![m] = None], replaced |-> h[m]]
           \/ r = [ok |-> FALSE, heap |-> h, replaced |-> None]
  BY ZenonT(60) DEF InsertExtract

\* n is h with p written at k, or h itself, and perhaps with entries dropped.
Inserted(D, h, k, p, n) ==
    /\ n \in [D -> U64OrNone]
    /\ n[k] = p \/ n = h
    /\ \A j \in D : j # k => n[j] = h[j] \/ n[j] = None

\* An insertion writes the new entry or fails, and otherwise only drops entries.
LEMMA InsertExtractEffect ==
    ASSUME NEW D, NEW h \in [D -> U64OrNone], NEW ks \in SUBSET D, NEW cap,
           NEW k \in D, k \notin ks, NEW p \in U64,
           NEW r \in InsertExtract(h, ks, cap, k, p)
    PROVE  Inserted(D, h, k, p, r.heap) /\ r.replaced \in U64OrNone
<1>1. CASE r = [ok |-> TRUE, heap |-> [h EXCEPT ![k] = p], replaced |-> None]
  BY <1>1, ZenonT(60) DEF U64OrNone, Inserted
<1>2. ASSUME NEW m \in ks,
             r = [ok |-> TRUE, heap |-> [h EXCEPT ![k] = p, ![m] = None], replaced |-> h[m]]
      PROVE  Inserted(D, h, k, p, r.heap) /\ r.replaced \in U64OrNone
  BY <1>2, ZenonT(60) DEF U64OrNone, Inserted
<1>3. CASE r = [ok |-> FALSE, heap |-> h, replaced |-> None]
  BY <1>3, ZenonT(60) DEF U64OrNone, Inserted
<1> QED BY <1>1, <1>2, <1>3, InsertExtractCases

\* After an insertion the entries among the keys ks and the new one fit the capacity.
LEMMA InsertExtractCapacity ==
    ASSUME NEW D, IsFiniteSet(D), NEW h \in [D -> U64OrNone], NEW ks \in SUBSET D,
           NEW cap \in Nat, Cardinality(ks) <= cap,
           NEW k \in D, k \notin ks, NEW p \in U64,
           NEW r \in InsertExtract(h, ks, cap, k, p)
    PROVE  \E S \in SUBSET D :
               /\ Cardinality(S) <= cap
               /\ \A j \in D : r.heap[j] # None => j \in S \/ (j \notin ks /\ h[j] # None)
<1>1. IsFiniteSet(ks) /\ Cardinality(ks) \in Nat
  BY FS_Subset, FS_CardinalityType, ZenonT(60)
<1>2. CASE Cardinality(ks) < cap /\ r.heap = [h EXCEPT ![k] = p]
  <2>2. Cardinality(ks \cup {k}) <= cap
    <3>1. Cardinality(ks \cup {k}) = Cardinality(ks) + 1
      BY <1>1, FS_AddElement, ZenonT(60)
    <3> QED BY <1>1, <1>2, <3>1
  <2>3. \A j \in D : r.heap[j] # None => j \in ks \cup {k} \/ (j \notin ks /\ h[j] # None)
    BY <1>2, ZenonT(60)
  <2> QED BY <2>2, <2>3, ZenonT(60)
<1>3. ASSUME NEW m \in ks, r.heap = [h EXCEPT ![k] = p, ![m] = None]
      PROVE  \E S \in SUBSET D :
                 /\ Cardinality(S) <= cap
                 /\ \A j \in D : r.heap[j] # None => j \in S \/ (j \notin ks /\ h[j] # None)
  <2> DEFINE S == (ks \ {m}) \cup {k}
  <2>1. /\ IsFiniteSet(ks \ {m})
        /\ Cardinality(ks \ {m}) = Cardinality(ks) - 1
    BY <1>1, FS_RemoveElement, ZenonT(60)
  <2>2. Cardinality(S) = Cardinality(ks \ {m}) + 1
    BY <2>1, FS_AddElement, ZenonT(60)
  <2>3. Cardinality(S) <= cap
    BY <1>1, <2>1, <2>2
  <2>4. \A j \in D : r.heap[j] # None => j \in S \/ (j \notin ks /\ h[j] # None)
    BY <1>3, ZenonT(60)
  <2>5. S \in SUBSET D
    BY ZenonT(60)
  <2> QED BY <2>3, <2>4, <2>5, ZenonT(60)
<1>4. CASE r.heap = h
  BY <1>4, ZenonT(60)
<1>5. CASE \E m \in ks : r.heap = [h EXCEPT ![k] = p, ![m] = None]
  BY <1>3, <1>5, ZenonT(60)
<1>6. \/ Cardinality(ks) < cap /\ r.heap = [h EXCEPT ![k] = p]
      \/ \E m \in ks : r.heap = [h EXCEPT ![k] = p, ![m] = None]
      \/ r.heap = h
  <2>1. CASE /\ Cardinality(ks) < cap
             /\ r = [ok |-> TRUE, heap |-> [h EXCEPT ![k] = p], replaced |-> None]
    BY <2>1, ZenonT(60)
  <2>2. ASSUME NEW m \in ks,
               r = [ok |-> TRUE, heap |-> [h EXCEPT ![k] = p, ![m] = None], replaced |-> h[m]]
        PROVE  r.heap = [h EXCEPT ![k] = p, ![m] = None]
    BY <2>2, ZenonT(60)
  <2>3. CASE r = [ok |-> FALSE, heap |-> h, replaced |-> None]
    BY <2>3, ZenonT(60)
  <2>4. \/ /\ Cardinality(ks) < cap
           /\ r = [ok |-> TRUE, heap |-> [h EXCEPT ![k] = p], replaced |-> None]
        \/ \E m \in ks :
              r = [ok |-> TRUE, heap |-> [h EXCEPT ![k] = p, ![m] = None], replaced |-> h[m]]
        \/ r = [ok |-> FALSE, heap |-> h, replaced |-> None]
    BY InsertExtractCases
  <2> QED BY <2>1, <2>2, <2>3, <2>4, ZenonT(60)
<1> QED BY <1>2, <1>4, <1>5, <1>6, ZenonT(60)

-----------------------------------------------------------------------------
(***************************************************************************)
(* Steps that change one pool and its place in the next validator set.     *)
(***************************************************************************)

\* n is a next validator set in which op may have the given power or none and
\* from which other pools may have been dropped.
NvpStep(op, power, n) ==
    /\ n \in [Operators -> U64OrNone]
    /\ n[op] = None \/ n[op] = power
    /\ \A o \in Operators \ {op} : n[o] = None \/ n[o] = nvp[o]
    /\ Cardinality(Keys(n)) <= MaxValidators

\* The pool of op becomes rec.
PoolStep(op, rec) ==
    /\ rec \in Pool
    /\ pools' = [pools EXCEPT ![op] = rec]
    /\ NvpStep(op, rec.power, nvp')
    /\ Cardinality(Delegated(op, rec.stakes)) <= MaxStakes

\* Keys that are among the keys of a bounded set are bounded as well.
LEMMA FewerKeys ==
    ASSUME NEW S, IsFiniteSet(S), NEW T, T \subseteq S, NEW n \in Nat, Cardinality(S) <= n
    PROVE  Cardinality(T) <= n
<1>1. /\ Cardinality(T) <= Cardinality(S)
      /\ Cardinality(T) \in Nat
      /\ Cardinality(S) \in Nat
  BY FS_Subset, FS_CardinalityType, ZenonT(60)
<1> QED BY <1>1

\* insert_extract on the next validator set.
LEMMA NvpInsert ==
    ASSUME TypeOK, CapacitiesKept, NEW op \in Operators, NEW power \in U64, nvp[op] = None,
           NEW r \in InsertExtract(nvp, Keys(nvp), MaxValidators, op, power)
    PROVE  NvpStep(op, power, r.heap)
<1> DEFINE ks == Keys(nvp)
<1>1. IsFiniteSet(Operators)
  BY StakingAssumption, FS_Subset
<1>2. nvp \in [Operators -> U64OrNone] /\ ks \in SUBSET Operators /\ op \notin ks
      /\ \A o \in Operators \ ks : nvp[o] = None
  BY ZenonT(60) DEF TypeOK, Keys
<1>3. Cardinality(ks) <= MaxValidators /\ MaxValidators \in Nat
  BY StakingAssumption, ZenonT(60) DEF CapacitiesKept
<1> HIDE DEF ks
<1>4. r \in InsertExtract(nvp, ks, MaxValidators, op, power)
  BY ZenonT(60) DEF ks
<1>5. /\ r.heap \in [Operators -> U64OrNone]
      /\ \A j \in Operators : j # op => (r.heap[j] = nvp[j] \/ r.heap[j] = None)
      /\ (r.heap[op] = power \/ r.heap[op] = None)
  <2>1. Inserted(Operators, nvp, op, power, r.heap)
    BY <1>2, <1>4, InsertExtractEffect, ZenonT(60)
  <2> QED BY <2>1, ZenonT(60) DEF Inserted
<1>6. PICK S \in SUBSET Operators :
         /\ Cardinality(S) <= MaxValidators
         /\ \A j \in Operators : r.heap[j] # None => j \in S \/ (j \notin ks /\ nvp[j] # None)
  <2>1. \E S \in SUBSET Operators :
           /\ Cardinality(S) <= MaxValidators
           /\ \A j \in Operators : r.heap[j] # None => j \in S \/ (j \notin ks /\ nvp[j] # None)
    BY <1>1, <1>2, <1>3, <1>4, InsertExtractCapacity
  <2> QED BY <2>1, ZenonT(60)
<1>7. Keys(r.heap) \subseteq S
  BY <1>2, <1>5, <1>6, ZenonT(60) DEF Keys
<1>8. Cardinality(Keys(r.heap)) <= MaxValidators
  <2>1. IsFiniteSet(S)
    BY <1>1, FS_Subset, ZenonT(60)
  <2> QED BY <1>3, <1>6, <1>7, <2>1, FewerKeys, ZenonT(60)
<1> QED BY <1>5, <1>8, ZenonT(60) DEF NvpStep

\* Changing or removing the entry of op keeps the set within its capacity.
LEMMA NvpChange ==
    ASSUME TypeOK, CapacitiesKept, NEW op \in Operators, NEW power \in U64,
           NEW v \in {None, power}, nvp[op] # None \/ v = None
    PROVE  NvpStep(op, power, [nvp EXCEPT ![op] = v])
<1>1. IsFiniteSet(Operators) /\ Keys(nvp) \subseteq Operators
  BY StakingAssumption, FS_Subset, ZenonT(60) DEF TypeOK, Keys
<1>2. IsFiniteSet(Keys(nvp))
  BY <1>1, FS_Subset, ZenonT(60)
<1>3. Keys([nvp EXCEPT ![op] = v]) \subseteq Keys(nvp)
  BY ZenonT(60) DEF TypeOK, Keys
<1>4. Cardinality(Keys([nvp EXCEPT ![op] = v])) <= MaxValidators
  BY <1>2, <1>3, FewerKeys, StakingAssumption, ZenonT(60) DEF CapacitiesKept
<1> QED BY <1>4, ZenonT(60) DEF NvpStep, TypeOK, U64OrNone

\* How increase_stake_power and reduce_stake_power update the next validator set.
LEMMA NvpAfterIncreaseStep ==
    ASSUME TypeOK, CapacitiesKept, NEW op \in Operators, NEW power \in U64,
           NEW n \in NvpAfterIncrease(op, power)
    PROVE  NvpStep(op, power, n)
  BY NvpInsert, NvpChange, ZenonT(60) DEF NvpAfterIncrease

\* The same for reduce_stake_power, which removes a pool without power.
LEMMA NvpAfterReduceStep ==
    ASSUME TypeOK, CapacitiesKept, NEW op \in Operators, NEW power \in U64,
           NEW n \in NvpAfterReduce(op, power)
    PROVE  NvpStep(op, power, n)
<1>1. CASE nvp[op] # None
  BY <1>1, NvpChange, ZenonT(60) DEF NvpAfterReduce
<1>2. CASE nvp[op] = None /\ power > 0
  BY <1>2, NvpInsert, ZenonT(60) DEF NvpAfterReduce
<1>3. CASE nvp[op] = None /\ ~(power > 0)
  <2>1. n = nvp /\ nvp = [nvp EXCEPT ![op] = None]
    BY <1>3, ZenonT(60) DEF NvpAfterReduce, TypeOK
  <2> QED BY <2>1, NvpChange, ZenonT(60)
<1> QED BY <1>1, <1>2, <1>3, ZenonT(60)

\* The fields of a pool that exists.
LEMMA PoolFields ==
    ASSUME TypeOK, NEW op \in Operators, pools[op] # None
    PROVE  /\ pools[op].commission_rate \in 0 .. 100
           /\ pools[op].power \in U64
           /\ pools[op].stakes \in [Accounts -> U64OrNone]
  BY ZenonT(60) DEF TypeOK, PoolOrNone, Pool

\* A stake, and a deposit, counts as a u64.
LEMMA ValType == \A x \in U64OrNone : Val(x) \in U64
  BY U64Ops, ZenonT(60) DEF Val, U64OrNone

\* So does a stake in any set of pools.
LEMMA StakeType ==
    \A set \in [Operators -> PoolOrNone], op \in Operators, own \in Accounts :
        stake_of_pool(set, op, own) \in U64OrNone
  BY ZenonT(60) DEF stake_of_pool, PoolOrNone, Pool, U64OrNone

\* Bounds on sums of powers are chained.
LEMMA Transitive == \A x, y, z \in Nat : x <= y /\ y <= z => x <= z
  OBVIOUS

\* The delegated stakes are bounded when none is added.
LEMMA FewerDelegated ==
    ASSUME NEW op \in Operators, NEW old \in [Accounts -> U64OrNone],
           NEW new \in [Accounts -> U64OrNone],
           \A o \in Accounts : new[o] # None => old[o] # None \/ o = op,
           Cardinality(Delegated(op, old)) <= MaxStakes
    PROVE  Cardinality(Delegated(op, new)) <= MaxStakes
<1>1. Delegated(op, old) \subseteq Accounts /\ Delegated(op, new) \subseteq Delegated(op, old)
  BY ZenonT(60) DEF Delegated, Keys
<1>2. IsFiniteSet(Delegated(op, old))
  BY <1>1, FS_Subset, StakingAssumption, ZenonT(60)
<1> QED BY <1>1, <1>2, FewerKeys, StakingAssumption, ZenonT(60)

\* reduce_stake_power changes one pool and lowers one of its stakes.
LEMMA ReduceIsPoolStep ==
    ASSUME TypeOK, CapacitiesKept, NEW op \in Operators, NEW own \in Accounts, NEW amount \in U64,
           pools[op] # None, pools[op].stakes[own] # None,
           ReduceStakePower(op, own, amount)
    PROVE  \E rec \in Pool :
               /\ PoolStep(op, rec)
               /\ Val(rec.stakes[own]) = saturating_sub(pools[op].stakes[own], amount)
               /\ \A o \in Accounts \ {own} : rec.stakes[o] = pools[op].stakes[o]
<1> DEFINE pool == pools[op]
           stake == pool.stakes[own]
           power == saturating_sub(pool.power, min(stake, amount))
           left == IF stake <= amount THEN None ELSE stake - amount
           stakes == [pool.stakes EXCEPT ![own] = left]
           rec == [commission_rate |-> pool.commission_rate, power |-> power, stakes |-> stakes]
<1>1. /\ pool.commission_rate \in 0 .. 100
      /\ pool.power \in U64
      /\ pool.stakes \in [Accounts -> U64OrNone]
      /\ stake \in U64
  BY PoolFields, ZenonT(60) DEF U64OrNone
<1>2. pools' = [pools EXCEPT ![op] = rec] /\ nvp' \in NvpAfterReduce(op, power)
  BY ZenonT(60) DEF ReduceStakePower
<1> HIDE DEF pool
<1>3. power \in U64
  BY <1>1, U64Ops, ZenonT(60)
<1>4. left \in U64OrNone /\ Val(left) = saturating_sub(stake, amount)
  <2>1. CASE stake <= amount
    <3>1. saturating_sub(stake, amount) = 0
      <4> HIDE DEF stake
      <4> QED BY <1>1, <2>1, U64Assumption DEF U64, saturating_sub
    <3> QED BY <2>1, <3>1, ZenonT(60) DEF U64OrNone, Val
  <2>2. CASE ~(stake <= amount)
    <3>1. /\ stake - amount \in U64
          /\ saturating_sub(stake, amount) = stake - amount
          /\ stake - amount # None
      <4> HIDE DEF stake
      <4> QED BY <1>1, <2>2, NoneAssumption, U64Assumption DEF U64, saturating_sub
    <3> QED BY <2>2, <3>1, ZenonT(60) DEF U64OrNone, Val
  <2> QED BY <2>1, <2>2, ZenonT(60)
<1> HIDE DEF power, left
<1>5. stakes \in [Accounts -> U64OrNone]
  BY <1>1, <1>4, ZenonT(60)
<1>6. rec \in Pool
  <2> HIDE DEF stakes
  <2> QED BY <1>1, <1>3, <1>5, ZenonT(60) DEF Pool
<1>7. NvpStep(op, rec.power, nvp')
  BY <1>2, <1>3, NvpAfterReduceStep, ZenonT(60)
<1>8. Cardinality(Delegated(op, rec.stakes)) <= MaxStakes
  <2>1. Cardinality(Delegated(op, pool.stakes)) <= MaxStakes
    BY ZenonT(60) DEF CapacitiesKept, pool
  <2>2. \A o \in Accounts : stakes[o] # None => pool.stakes[o] # None \/ o = op
    BY <1>1, ZenonT(60) DEF pool
  <2>3. Cardinality(Delegated(op, stakes)) <= MaxStakes
    <3> HIDE DEF stakes
    <3> QED BY <1>1, <1>5, <2>1, <2>2, FewerDelegated, ZenonT(60)
  <2> QED BY <2>3, ZenonT(60)
<1>9. PoolStep(op, rec)
  <2> HIDE DEF rec
  <2> QED BY <1>2, <1>6, <1>7, <1>8, ZenonT(60) DEF PoolStep
<1>10. /\ Val(rec.stakes[own]) = saturating_sub(pools[op].stakes[own], amount)
       /\ \A o \in Accounts \ {own} : rec.stakes[o] = pools[op].stakes[o]
  BY <1>1, <1>4, ZenonT(60) DEF pool
<1> HIDE DEF rec
<1> QED BY <1>6, <1>9, <1>10, ZenonT(60)

\* What increase_stake_power makes of the stakes of a pool: the stake of own
\* grows by no more than the increase, and no other one grows.
StakesAfter(op, own, increase, stakes) ==
    /\ stakes \in [Accounts -> U64OrNone]
    /\ Val(stakes[own]) <= saturating_add(Val(pools[op].stakes[own]), increase)
    /\ \A o \in Accounts \ {own} : stakes[o] = pools[op].stakes[o] \/ stakes[o] = None
    /\ Cardinality(Delegated(op, stakes)) <= MaxStakes

\* The first half of increase_stake_power, whatever insert_extract answers.
LEMMA StakeOutcome ==
    ASSUME TypeOK, CapacitiesKept, NEW op \in Operators, NEW own \in Accounts, pools[op] # None,
           NEW increase \in U64, NEW r \in StakeOutcomes(op, own, increase)
    PROVE  r.added \in U64 /\ StakesAfter(op, own, increase, r.stakes)
<1> DEFINE stakes == pools[op].stakes
<1>1. stakes \in [Accounts -> U64OrNone] /\ Cardinality(Delegated(op, stakes)) <= MaxStakes
  BY PoolFields, ZenonT(60) DEF CapacitiesKept
<1>2. stakes[own] \in U64OrNone /\ Val(stakes[own]) \in U64
  BY <1>1, ValType, ZenonT(60)
<1>3. CASE own = op \/ stakes[own] # None
  <2> DEFINE sum == saturating_add(Val(stakes[own]), increase)
             new == [stakes EXCEPT ![own] = sum]
  <2>1. r = [ok |-> TRUE, stakes |-> new, added |-> increase]
    BY <1>3, ZenonT(60) DEF StakeOutcomes
  <2>2. sum \in U64 /\ sum \in Int
    <3>1. sum \in U64
      BY <1>2, U64Ops, ZenonT(60)
    <3> HIDE DEF sum
    <3> QED BY <3>1, U64Assumption DEF U64
  <2>3. sum # None
    BY <2>2, NoneAssumption, ZenonT(60)
  <2> HIDE DEF sum
  <2>4. new \in [Accounts -> U64OrNone] /\ new[own] = sum
        /\ \A o \in Accounts \ {own} : new[o] = stakes[o]
    BY <1>1, <2>2, ZenonT(60) DEF U64OrNone
  <2>5. \A o \in Accounts : new[o] # None => stakes[o] # None \/ o = op
    BY <1>3, <2>4, ZenonT(60)
  <2> HIDE DEF new
  <2>6. Cardinality(Delegated(op, new)) <= MaxStakes
    BY <1>1, <2>4, <2>5, FewerDelegated, ZenonT(60)
  <2>7. Val(new[own]) <= sum
    BY <2>2, <2>3, <2>4 DEF Val
  <2> QED BY <2>1, <2>4, <2>6, <2>7, ZenonT(60) DEF StakesAfter, sum
<1>4. CASE own # op /\ stakes[own] = None
  <2> DEFINE ks == Delegated(op, stakes)
  <2>1. PICK q \in InsertExtract(stakes, ks, MaxStakes, own, increase) :
           r = [ok |-> q.ok, stakes |-> q.heap,
                added |-> saturating_sub(increase, Val(q.replaced))]
    BY <1>4, ZenonT(60) DEF StakeOutcomes
  <2>2. ks \in SUBSET Accounts /\ own \notin ks
        /\ \A o \in Accounts \ ks : stakes[o] = None \/ o = op
    BY <1>1, <1>4, ZenonT(60) DEF Delegated, Keys
  <2>3. IsFiniteSet(Accounts) /\ MaxStakes \in Nat /\ Cardinality(ks) <= MaxStakes
    BY <1>1, StakingAssumption, ZenonT(60)
  <2> HIDE DEF ks, stakes
  <2>4. Inserted(Accounts, stakes, own, increase, q.heap) /\ q.replaced \in U64OrNone
    BY <1>1, <2>1, <2>2, InsertExtractEffect, ZenonT(60)
  <2>5. r.added \in U64 /\ r.stakes = q.heap
    BY <2>1, <2>4, U64Ops, ValType, ZenonT(60)
  <2>6. q.heap \in [Accounts -> U64OrNone]
        /\ \A o \in Accounts \ {own} : q.heap[o] = stakes[o] \/ q.heap[o] = None
    BY <2>4, ZenonT(60) DEF Inserted
  <2>7. Val(q.heap[own]) <= saturating_add(Val(stakes[own]), increase)
    <3>1. q.heap[own] = increase \/ q.heap[own] = None
      BY <1>4, <2>4, ZenonT(60) DEF Inserted
    <3>2. Val(q.heap[own]) = increase \/ Val(q.heap[own]) = 0
      BY <3>1, ZenonT(60) DEF Val
    <3>3. /\ increase <= saturating_add(Val(stakes[own]), increase)
          /\ saturating_add(Val(stakes[own]), increase) \in Nat
      BY <1>2, SaturatingAddMonotone, U64Ops, ZenonT(60)
    <3> QED BY <3>2, <3>3
  <2>8. PICK S \in SUBSET Accounts :
           /\ Cardinality(S) <= MaxStakes
           /\ \A j \in Accounts : q.heap[j] # None => j \in S \/ (j \notin ks /\ stakes[j] # None)
    <3>1. \E S \in SUBSET Accounts :
             /\ Cardinality(S) <= MaxStakes
             /\ \A j \in Accounts : q.heap[j] # None => j \in S \/ (j \notin ks /\ stakes[j] # None)
      BY <1>1, <2>1, <2>2, <2>3, InsertExtractCapacity
    <3> QED BY <3>1, ZenonT(60)
  <2>9. Delegated(op, q.heap) \subseteq S
    BY <2>2, <2>6, <2>8, ZenonT(60) DEF Delegated, Keys
  <2>10. Cardinality(Delegated(op, q.heap)) <= MaxStakes
    <3>1. IsFiniteSet(S)
      BY <2>3, FS_Subset, ZenonT(60)
    <3> QED BY <2>3, <2>8, <2>9, <3>1, FewerKeys, ZenonT(60)
  <2> QED BY <2>5, <2>6, <2>7, <2>10, ZenonT(60) DEF StakesAfter, stakes
<1> QED BY <1>3, <1>4, ZenonT(60)

\* increase_stake_power changes one pool, and its stakes as above.
LEMMA ApplyIsPoolStep ==
    ASSUME TypeOK, CapacitiesKept, NEW op \in Operators, NEW own \in Accounts, pools[op] # None,
           NEW increase \in U64, NEW r \in StakeOutcomes(op, own, increase), ApplyStake(op, r)
    PROVE  \E rec \in Pool : PoolStep(op, rec) /\ StakesAfter(op, own, increase, rec.stakes)
<1> DEFINE power == saturating_add(pools[op].power, r.added)
           rec == [commission_rate |-> pools[op].commission_rate,
                   power |-> power, stakes |-> r.stakes]
<1>1. r.added \in U64 /\ StakesAfter(op, own, increase, r.stakes)
  BY StakeOutcome, ZenonT(60)
<1>2. power \in U64
  BY <1>1, PoolFields, U64Ops, ZenonT(60)
<1>3. pools' = [pools EXCEPT ![op] = rec] /\ nvp' \in NvpAfterIncrease(op, power)
  BY ZenonT(60) DEF ApplyStake
<1> HIDE DEF power
<1>4. rec \in Pool
  BY <1>1, <1>2, PoolFields, ZenonT(60) DEF Pool, StakesAfter
<1>5. NvpStep(op, rec.power, nvp')
  BY <1>2, <1>3, NvpAfterIncreaseStep, ZenonT(60)
<1>6. PoolStep(op, rec)
  BY <1>1, <1>3, <1>4, <1>5, ZenonT(60) DEF PoolStep, StakesAfter
<1>7. StakesAfter(op, own, increase, rec.stakes)
  BY <1>1, ZenonT(60)
<1> HIDE DEF rec
<1> QED BY <1>4, <1>6, <1>7, ZenonT(60)

-----------------------------------------------------------------------------
(***************************************************************************)
(* The commands.                                                           *)
(***************************************************************************)

\* The part of the invariant about deposits and balances, the part about pools
\* and the next validator set, and the part that ties them together.
DepositsInv ==
    /\ balance \in [Accounts -> U64]
    /\ deposit \in [Operators -> [Accounts -> U64OrNone]]
    /\ auto \in [Operators -> [Accounts -> BOOLEAN]]
    /\ \A op \in Operators : \A own \in Accounts : auto[op][own] => deposit[op][own] # None

PoolsInv ==
    /\ pools \in [Operators -> PoolOrNone]
    /\ nvp \in [Operators -> U64OrNone]
    /\ NvpTracksPools
    /\ Cardinality(Keys(nvp)) <= MaxValidators
    /\ \A op \in Operators :
           pools[op] # None => Cardinality(Delegated(op, pools[op].stakes)) <= MaxStakes

\* The invariant contains its parts.
LEMMA IInvParts == IInv => DepositsInv /\ PoolsInv
  BY ZenonT(60) DEF IInv, TypeOK, PendingStakes, CapacitiesKept, DepositsInv, PoolsInv

\* A command that keeps the parts keeps the invariant: it leaves the validator
\* sets alone, and outside of next_epoch no reward waits to be staked.
LEMMA CommandKeepsIInv ==
    ASSUME IInv, Command, DepositsInv', PoolsInv', StakesBacked'
    PROVE  IInv'
<1>1. UNCHANGED <<vp, pvp, epoch, changes, phase, auto_stakes>> /\ phase = "commands"
  BY ZenonT(60) DEF Command, validators
<1>2. TypeOK'
  BY <1>1, ZenonT(60) DEF IInv, TypeOK, DepositsInv, PoolsInv
<1>3. CapacitiesKept'
  BY <1>1, ZenonT(60) DEF IInv, CapacitiesKept, PoolsInv, Keys, Delegated
<1>4. PendingStakes'
  <2>1. \A op \in Operators : \A own \in Accounts : auto_stakes[op][own] = None
    BY <1>1, ZenonT(60) DEF IInv, PendingStakes
  <2> QED BY <1>1, <2>1, ZenonT(60) DEF DepositsInv, PendingStakes
<1> QED BY <1>2, <1>3, <1>4, ZenonT(60) DEF IInv, PoolsInv

\* A failing command changes nothing but the exit code.
LEMMA AbortKeepsIInv ==
    ASSUME IInv, Command, NEW e, Abort(e)
    PROVE  IInv'
  BY ZenonT(60) DEF Command, Abort, ledger, validators, IInv, TypeOK, StakesBacked, NvpTracksPools,
         CapacitiesKept, PendingStakes, stake_of_pool, Keys, Delegated

\* A step on one pool keeps the invariant of the pools.
LEMMA PoolStepKeepsPools ==
    ASSUME PoolsInv, NEW op \in Operators, NEW rec \in Pool, PoolStep(op, rec)
    PROVE  PoolsInv'
<1>1. /\ pools' = [pools EXCEPT ![op] = rec]
      /\ nvp' \in [Operators -> U64OrNone]
      /\ nvp'[op] = None \/ nvp'[op] = rec.power
      /\ \A o \in Operators \ {op} : nvp'[o] = None \/ nvp'[o] = nvp[o]
      /\ Cardinality(Keys(nvp')) <= MaxValidators
      /\ Cardinality(Delegated(op, rec.stakes)) <= MaxStakes
  BY ZenonT(60) DEF PoolStep, NvpStep
<1>2. pools' \in [Operators -> PoolOrNone] /\ pools'[op] = rec
      /\ \A o \in Operators \ {op} : pools'[o] = pools[o]
  BY <1>1, ZenonT(60) DEF PoolsInv, PoolOrNone
<1>3. NvpTracksPools'
  <2> SUFFICES ASSUME NEW o \in Operators, nvp'[o] # None
               PROVE  pools'[o] # None /\ nvp'[o] = pools'[o].power
    BY <1>1, ZenonT(60) DEF NvpTracksPools, Keys
  <2>1. CASE o = op
    BY <1>1, <1>2, <2>1, NoneAssumption, ZenonT(60)
  <2>2. CASE o # op
    BY <1>1, <1>2, <2>2, ZenonT(60) DEF PoolsInv, NvpTracksPools, Keys
  <2> QED BY <2>1, <2>2, ZenonT(60)
<1>4. \A o \in Operators : pools'[o] # None => Cardinality(Delegated(o, pools'[o].stakes)) <= MaxStakes
  BY <1>1, <1>2, ZenonT(60) DEF PoolsInv
<1>5. (Cardinality(Keys(nvp)) <= MaxValidators)'
  BY <1>1, ZenonT(60) DEF Keys
<1> QED BY <1>1, <1>2, <1>3, <1>4, <1>5, ZenonT(60) DEF PoolsInv, Delegated, Keys

\* It keeps the stakes backed when the stakes of the new pool are.
LEMMA PoolStepKeepsBacking ==
    ASSUME TypeOK, StakesBacked, NEW op \in Operators, NEW rec \in Pool, PoolStep(op, rec),
           UNCHANGED <<vp, pvp, deposit>>,
           \A own \in Accounts : Val(rec.stakes[own]) <= Val(deposit[op][own])
    PROVE  StakesBacked'
<1>1. pools' = [pools EXCEPT ![op] = rec] /\ rec # None
  BY NoneAssumption, ZenonT(60) DEF PoolStep
<1> SUFFICES ASSUME NEW o \in Operators, NEW own \in Accounts
             PROVE  /\ Val(stake_of_pool(pools', o, own)) <= Val(deposit'[o][own])
                    /\ Val(stake_of_pool(vp', o, own)) <= Val(deposit'[o][own])
                    /\ Val(stake_of_pool(pvp', o, own)) <= Val(deposit'[o][own])
  BY ZenonT(60) DEF StakesBacked, stake_of_pool
<1>2. Val(stake_of_pool(pools', o, own)) <= Val(deposit'[o][own])
  BY <1>1, ZenonT(60) DEF StakesBacked, stake_of_pool, TypeOK
<1> QED BY <1>2, ZenonT(60) DEF StakesBacked

\* create_pool adds an empty pool that was not in the next validator set.
LEMMA CreatePoolKeepsIInv ==
    ASSUME IInv, NEW op \in Operators, NEW rate \in Rates, CreatePool(op, rate)
    PROVE  IInv'
<1>1. CASE \E e : Abort(e)
  BY <1>1, AbortKeepsIInv, ZenonT(60) DEF CreatePool
<1>2. CASE /\ rate <= 100
           /\ pools[op] = None
           /\ pools' = [pools EXCEPT ![op] =
                           [commission_rate |-> rate, power |-> 0, stakes |-> NoStakes]]
           /\ nvp' \in {r.heap : r \in InsertExtract(nvp, Keys(nvp), MaxValidators, op, 0)}
           /\ UNCHANGED <<balance, deposit, auto>>
  <2> DEFINE rec == [commission_rate |-> rate, power |-> 0, stakes |-> NoStakes]
  <2>1. nvp[op] = None
    BY <1>2, ZenonT(60) DEF IInv, TypeOK, NvpTracksPools, Keys
  <2>2. NvpStep(op, 0, nvp')
    BY <1>2, <2>1, NvpInsert, U64Ops, ZenonT(60) DEF IInv
  <2>3. NoStakes \in [Accounts -> U64OrNone]
    BY ZenonT(60) DEF NoStakes, U64OrNone
  <2>4. rate \in 0 .. 100
    <3>1. rate \in 0 .. 255
      BY StakingAssumption, ZenonT(60)
    <3>2. rate <= 100
      BY <1>2, ZenonT(60)
    <3> QED BY <3>1, <3>2
  <2>5. rec \in Pool
    BY <2>3, <2>4, U64Ops, ZenonT(60) DEF Pool
  <2>6. Cardinality(Delegated(op, NoStakes)) <= MaxStakes
    <3>1. Delegated(op, NoStakes) = {}
      BY ZenonT(60) DEF Delegated, Keys, NoStakes
    <3>2. Cardinality(Delegated(op, NoStakes)) = 0
      BY <3>1, FS_EmptySet, ZenonT(60)
    <3> QED BY <3>2, StakingAssumption
  <2>7. PoolStep(op, rec)
    BY <1>2, <2>2, <2>5, <2>6, ZenonT(60) DEF PoolStep
  <2>8. PoolsInv'
    <3> HIDE DEF rec
    <3> QED BY <2>5, <2>7, IInvParts, PoolStepKeepsPools, ZenonT(60)
  <2>9. \A own \in Accounts : Val(rec.stakes[own]) <= Val(deposit[op][own])
    <3> SUFFICES ASSUME NEW own \in Accounts PROVE Val(rec.stakes[own]) <= Val(deposit[op][own])
      BY ZenonT(60)
    <3>1. Val(rec.stakes[own]) = 0
      BY ZenonT(60) DEF NoStakes, Val
    <3>2. Val(deposit[op][own]) \in Nat
      BY ValType, U64Ops, ZenonT(60) DEF IInv, TypeOK
    <3> QED BY <3>1, <3>2
  <2>10. Command /\ UNCHANGED <<vp, pvp>>
    BY ZenonT(60) DEF CreatePool, Command, validators
  <2>11. StakesBacked'
    <3> HIDE DEF rec
    <3> QED BY <1>2, <2>5, <2>7, <2>9, <2>10, PoolStepKeepsBacking, ZenonT(60) DEF IInv
  <2>12. DepositsInv'
    BY <1>2, IInvParts, ZenonT(60) DEF DepositsInv
  <2> QED BY <2>8, <2>10, <2>11, <2>12, CommandKeepsIInv, ZenonT(60)
<1> QED BY <1>1, <1>2, ZenonT(60) DEF CreatePool

\* set_pool_settings changes nothing but the commission rate.
LEMMA SetPoolSettingsKeepsIInv ==
    ASSUME IInv, NEW op \in Operators, NEW rate \in Rates, SetPoolSettings(op, rate)
    PROVE  IInv'
<1>1. CASE \E e : Abort(e)
  BY <1>1, AbortKeepsIInv, ZenonT(60) DEF SetPoolSettings
<1>2. CASE /\ rate <= 100
           /\ pools[op] # None
           /\ pools' = [pools EXCEPT ![op] =
                           [commission_rate |-> rate, power |-> pools[op].power,
                            stakes |-> pools[op].stakes]]
           /\ UNCHANGED <<balance, deposit, auto, nvp>>
  <2> DEFINE rec == [commission_rate |-> rate, power |-> pools[op].power,
                     stakes |-> pools[op].stakes]
  <2>1. rate \in 0 .. 100
    <3>1. rate \in 0 .. 255
      BY StakingAssumption, ZenonT(60)
    <3>2. rate <= 100
      BY <1>2, ZenonT(60)
    <3> QED BY <3>1, <3>2
  <2>2. rec \in Pool
    BY <1>2, <2>1, PoolFields, ZenonT(60) DEF Pool, IInv
  <2>3. NvpStep(op, rec.power, nvp')
    BY <1>2, ZenonT(60) DEF NvpStep, IInv, TypeOK, CapacitiesKept, NvpTracksPools, Keys
  <2>4. Cardinality(Delegated(op, rec.stakes)) <= MaxStakes
    BY <1>2, ZenonT(60) DEF IInv, CapacitiesKept
  <2>5. PoolStep(op, rec)
    BY <1>2, <2>2, <2>3, <2>4, ZenonT(60) DEF PoolStep
  <2>6. \A own \in Accounts : Val(rec.stakes[own]) <= Val(deposit[op][own])
    BY <1>2, ZenonT(60) DEF IInv, StakesBacked, stake_of_pool
  <2>7. Command /\ UNCHANGED <<vp, pvp>>
    BY ZenonT(60) DEF SetPoolSettings, Command, validators
  <2> HIDE DEF rec
  <2>8. PoolsInv' /\ StakesBacked'
    BY <1>2, <2>2, <2>5, <2>6, <2>7, IInvParts, PoolStepKeepsPools, PoolStepKeepsBacking, ZenonT(60) DEF IInv
  <2>9. DepositsInv'
    BY <1>2, IInvParts, ZenonT(60) DEF DepositsInv
  <2> QED BY <2>7, <2>8, <2>9, CommandKeepsIInv, ZenonT(60)
<1> QED BY <1>1, <1>2, ZenonT(60) DEF SetPoolSettings

\* delete_pool takes the pool out of the next validator set as well.
LEMMA DeletePoolKeepsIInv ==
    ASSUME IInv, NEW op \in Operators, DeletePool(op)
    PROVE  IInv'
<1>1. CASE \E e : Abort(e)
  BY <1>1, AbortKeepsIInv, ZenonT(60) DEF DeletePool
<1>2. CASE /\ nvp' = [nvp EXCEPT ![op] = None]
           /\ pools' = [pools EXCEPT ![op] = None]
           /\ UNCHANGED <<balance, deposit, auto>>
  <2>1. Command /\ UNCHANGED <<vp, pvp>>
    BY ZenonT(60) DEF DeletePool, Command, validators
  <2>2. NvpStep(op, 0, nvp')
    BY <1>2, NvpChange, U64Ops, ZenonT(60) DEF IInv
  <2>3. PoolsInv'
    BY <1>2, <2>2, IInvParts, ZenonT(60) DEF PoolsInv, NvpStep, NvpTracksPools, Keys, PoolOrNone, Delegated
  <2>4. StakesBacked'
    <3> SUFFICES ASSUME NEW o \in Operators, NEW own \in Accounts
                 PROVE  /\ Val(stake_of_pool(pools', o, own)) <= Val(deposit'[o][own])
                        /\ Val(stake_of_pool(vp', o, own)) <= Val(deposit'[o][own])
                        /\ Val(stake_of_pool(pvp', o, own)) <= Val(deposit'[o][own])
      BY ZenonT(60) DEF StakesBacked, stake_of_pool
    <3>1. Val(deposit[o][own]) \in Nat
      BY ValType, U64Ops, ZenonT(60) DEF IInv, TypeOK
    <3>2. Val(stake_of_pool(pools', o, own)) <= Val(deposit'[o][own])
      BY <1>2, <3>1 DEF IInv, TypeOK, StakesBacked, stake_of_pool, Val
    <3> QED BY <1>2, <2>1, <3>2, ZenonT(60) DEF IInv, StakesBacked
  <2>5. DepositsInv'
    BY <1>2, IInvParts, ZenonT(60) DEF DepositsInv
  <2> QED BY <2>1, <2>3, <2>4, <2>5, CommandKeepsIInv, ZenonT(60)
<1> QED BY <1>1, <1>2, ZenonT(60) DEF DeletePool

\* A command that changes the deposit of own with op, and no pool, keeps the
\* invariant when the deposit does not shrink.
LEMMA DepositGrows ==
    ASSUME IInv, Command, NEW op \in Operators, NEW own \in Accounts, NEW d \in U64, NEW flag \in BOOLEAN,
           Val(deposit[op][own]) <= d,
           balance' \in [Accounts -> U64],
           deposit' = [deposit EXCEPT ![op] = [@ EXCEPT ![own] = d]],
           auto' = [auto EXCEPT ![op] = [@ EXCEPT ![own] = flag]],
           UNCHANGED <<pools, nvp>>
    PROVE  IInv'
<1>1. UNCHANGED <<vp, pvp>>
  BY ZenonT(60) DEF Command, validators
<1>2. d # None /\ Val(d) = d /\ d \in Nat
  BY U64Ops, NoneAssumption DEF Val
<1>3. deposit' \in [Operators -> [Accounts -> U64OrNone]]
  BY ZenonT(60) DEF IInv, TypeOK, U64OrNone
<1>4. auto' \in [Operators -> [Accounts -> BOOLEAN]]
  BY ZenonT(60) DEF IInv, TypeOK
<1>5. deposit'[op][own] = d
      /\ \A p \in Operators : \A o \in Accounts :
             ~(p = op /\ o = own) => deposit'[p][o] = deposit[p][o] /\ auto'[p][o] = auto[p][o]
  BY ZenonT(60) DEF IInv, TypeOK
<1>6. DepositsInv'
  BY <1>2, <1>3, <1>4, <1>5, IInvParts DEF DepositsInv
<1>7. PoolsInv'
  BY IInvParts, ZenonT(60) DEF PoolsInv, NvpTracksPools, Keys, Delegated
<1>8. StakesBacked'
  <2> SUFFICES ASSUME NEW p \in Operators, NEW o \in Accounts
               PROVE  /\ Val(stake_of_pool(pools, p, o)) <= Val(deposit'[p][o])
                      /\ Val(stake_of_pool(vp, p, o)) <= Val(deposit'[p][o])
                      /\ Val(stake_of_pool(pvp, p, o)) <= Val(deposit'[p][o])
    BY <1>1, ZenonT(60) DEF StakesBacked, stake_of_pool
  <2> DEFINE old == Val(deposit[p][o])
             x == Val(stake_of_pool(pools, p, o))
             y == Val(stake_of_pool(vp, p, o))
             z == Val(stake_of_pool(pvp, p, o))
  <2>1. x <= old /\ y <= old /\ z <= old
    BY ZenonT(60) DEF IInv, StakesBacked
  <2>2. x \in Nat /\ y \in Nat /\ z \in Nat /\ old \in Nat
    <3>1. /\ stake_of_pool(pools, p, o) \in U64OrNone
          /\ stake_of_pool(vp, p, o) \in U64OrNone
          /\ stake_of_pool(pvp, p, o) \in U64OrNone
          /\ deposit[p][o] \in U64OrNone
      BY StakeType, ZenonT(60) DEF IInv, TypeOK
    <3> QED BY <3>1, ValType, U64Ops
  <2>3. CASE p = op /\ o = own
    <3>1. Val(deposit'[p][o]) = d /\ old <= d
      BY <1>2, <1>5, <2>3
    <3> HIDE DEF x, y, z, old
    <3> QED BY <1>2, <2>1, <2>2, <3>1 DEF x, y, z
  <2>4. CASE ~(p = op /\ o = own)
    BY <1>5, <2>1, <2>4, ZenonT(60)
  <2> QED BY <2>3, <2>4, ZenonT(60)
<1> QED BY <1>6, <1>7, <1>8, CommandKeepsIInv, ZenonT(60)

\* create_deposit, set_deposit_settings and topup_deposit.
LEMMA CreateDepositKeepsIInv ==
    ASSUME IInv, NEW own \in Accounts, NEW op \in Operators, NEW amount \in Amounts,
           NEW flag \in BOOLEAN, CreateDeposit(own, op, amount, flag)
    PROVE  IInv'
<1>1. CASE \E e : Abort(e)
  BY <1>1, AbortKeepsIInv, ZenonT(60) DEF CreateDeposit
<1>2. CASE /\ deposit[op][own] = None
           /\ balance[own] >= amount
           /\ balance' = [balance EXCEPT ![own] = @ - amount]
           /\ deposit' = [deposit EXCEPT ![op] = [@ EXCEPT ![own] = amount]]
           /\ auto' = [auto EXCEPT ![op] = [@ EXCEPT ![own] = flag]]
           /\ UNCHANGED <<pools, nvp>>
  <2>1. amount \in U64 /\ balance[own] \in U64 /\ balance \in [Accounts -> U64]
    BY StakingAssumption DEF IInv, TypeOK
  <2>2. balance[own] - amount \in U64 /\ 0 <= amount
    BY <1>2, <2>1, U64Assumption DEF U64
  <2>3. balance' \in [Accounts -> U64]
    BY <1>2, <2>1, <2>2, ZenonT(60)
  <2>4. Val(deposit[op][own]) <= amount
    BY <1>2, <2>2, ZenonT(60) DEF Val
  <2> QED BY <1>2, <2>1, <2>3, <2>4, DepositGrows, ZenonT(60) DEF CreateDeposit
<1> QED BY <1>1, <1>2, ZenonT(60) DEF CreateDeposit

\* Its settings say whether the rewards of an existing deposit are staked.
LEMMA SetDepositSettingsKeepsIInv ==
    ASSUME IInv, NEW own \in Accounts, NEW op \in Operators, NEW flag \in BOOLEAN,
           SetDepositSettings(own, op, flag)
    PROVE  IInv'
<1>1. CASE \E e : Abort(e)
  BY <1>1, AbortKeepsIInv, ZenonT(60) DEF SetDepositSettings
<1>2. CASE /\ deposit[op][own] # None
           /\ auto' = [auto EXCEPT ![op] = [@ EXCEPT ![own] = flag]]
           /\ UNCHANGED <<balance, deposit, pools, nvp>>
  <2> DEFINE d == deposit[op][own]
  <2>1. d \in U64 /\ balance' \in [Accounts -> U64]
    BY <1>2 DEF IInv, TypeOK, U64OrNone
  <2>2. deposit' = [deposit EXCEPT ![op] = [@ EXCEPT ![own] = d]]
    BY <1>2, ZenonT(60) DEF IInv, TypeOK
  <2>3. Val(d) <= d
    <3> HIDE DEF d
    <3> QED BY <2>1, U64Ops, NoneAssumption DEF Val
  <2> HIDE DEF d
  <2>4. Val(deposit[op][own]) <= d
    BY <2>3, ZenonT(60) DEF d
  <2> QED BY <1>2, <2>1, <2>2, <2>4, DepositGrows, ZenonT(60) DEF SetDepositSettings
<1> QED BY <1>1, <1>2, ZenonT(60) DEF SetDepositSettings

\* A top-up saturates, it never shrinks a deposit.
LEMMA TopUpDepositKeepsIInv ==
    ASSUME IInv, NEW own \in Accounts, NEW op \in Operators, NEW amount \in Amounts,
           TopUpDeposit(own, op, amount)
    PROVE  IInv'
<1>1. CASE \E e : Abort(e)
  BY <1>1, AbortKeepsIInv, ZenonT(60) DEF TopUpDeposit
<1>2. CASE /\ deposit[op][own] # None
           /\ balance[own] >= amount
           /\ balance' = [balance EXCEPT ![own] = @ - amount]
           /\ deposit' = [deposit EXCEPT ![op] =
                             [@ EXCEPT ![own] = saturating_add(deposit[op][own], amount)]]
           /\ UNCHANGED <<auto, pools, nvp>>
  <2> DEFINE d == saturating_add(deposit[op][own], amount)
  <2>1. amount \in U64 /\ balance[own] \in U64 /\ balance \in [Accounts -> U64]
        /\ deposit[op][own] \in U64
    BY <1>2, StakingAssumption DEF IInv, TypeOK, U64OrNone
  <2>2. balance[own] - amount \in U64
    BY <1>2, <2>1, U64Assumption DEF U64
  <2>3. balance' \in [Accounts -> U64]
    BY <1>2, <2>1, <2>2, ZenonT(60)
  <2>4. d \in U64 /\ Val(deposit[op][own]) <= d
    BY <1>2, <2>1, U64Ops, SaturatingAddMonotone, ZenonT(60) DEF Val
  <2>5. deposit' = [deposit EXCEPT ![op] = [@ EXCEPT ![own] = d]]
    BY <1>2, ZenonT(60)
  <2>6. auto' = [auto EXCEPT ![op] = [@ EXCEPT ![own] = auto[op][own]]]
        /\ auto[op][own] \in BOOLEAN
    BY <1>2, ZenonT(60) DEF IInv, TypeOK
  <2> HIDE DEF d
  <2> QED BY <1>2, <2>3, <2>4, <2>5, <2>6, DepositGrows, ZenonT(60) DEF TopUpDeposit
<1> QED BY <1>1, <1>2, ZenonT(60) DEF TopUpDeposit

\* stake_deposit stakes no more than the deposit leaves room for.
LEMMA StakeDepositKeepsIInv ==
    ASSUME IInv, NEW own \in Accounts, NEW op \in Operators, NEW amount \in Amounts,
           StakeDeposit(own, op, amount)
    PROVE  IInv'
<1> DEFINE dep == deposit[op][own]
           stake == Val(pools[op].stakes[own])
           increase == min(amount, saturating_sub(dep, stake))
<1>1. CASE \E e : Abort(e)
  BY <1>1, AbortKeepsIInv, ZenonT(60) DEF StakeDeposit
<1>2. ASSUME dep # None, pools[op] # None,
             NEW r \in StakeOutcomes(op, own, increase), ApplyStake(op, r),
             UNCHANGED <<balance, deposit, auto>>
      PROVE  IInv'
  <2>1. dep \in U64 /\ amount \in U64 /\ stake \in U64 /\ stake <= dep
    <3>1. dep \in U64 /\ amount \in U64
      BY <1>2, StakingAssumption DEF IInv, TypeOK, U64OrNone
    <3>2. stake \in U64
      BY <1>2, PoolFields, ValType, ZenonT(60) DEF IInv
    <3>3. stake <= Val(dep)
      BY <1>2, ZenonT(60) DEF IInv, StakesBacked, stake_of_pool
    <3> QED BY <1>2, <3>1, <3>2, <3>3, ZenonT(60) DEF Val
  <2>2. increase \in U64
    BY <2>1, U64Ops, ZenonT(60)
  <2>3. saturating_add(stake, increase) <= dep
    <3> HIDE DEF dep, stake
    <3> QED BY <2>1, U64Assumption DEF U64, saturating_add, saturate, saturating_sub, min
  <2> HIDE DEF increase
  <2>4. PICK rec \in Pool : PoolStep(op, rec) /\ StakesAfter(op, own, increase, rec.stakes)
    BY <1>2, <2>2, ApplyIsPoolStep, ZenonT(60) DEF IInv
  <2>5. \A o \in Accounts : Val(rec.stakes[o]) <= Val(deposit[op][o])
    <3> SUFFICES ASSUME NEW o \in Accounts PROVE Val(rec.stakes[o]) <= Val(deposit[op][o])
      BY ZenonT(60)
    <3>1. Val(rec.stakes[o]) \in Nat /\ Val(deposit[op][o]) \in Nat
      BY <2>4, ValType, U64Ops, ZenonT(60) DEF StakesAfter, IInv, TypeOK
    <3>2. CASE o = own
      <4>1. Val(rec.stakes[own]) <= saturating_add(stake, increase)
        BY <2>4, ZenonT(60) DEF StakesAfter
      <4>2. Val(deposit[op][o]) = dep
        BY <1>2, <3>2, ZenonT(60) DEF Val
      <4>3. saturating_add(stake, increase) \in Nat
        BY <2>1, <2>2, U64Ops, ZenonT(60)
      <4> HIDE DEF dep, stake
      <4> QED BY <2>3, <3>1, <3>2, <4>1, <4>2, <4>3
    <3>3. CASE o # own
      <4>1. Val(pools[op].stakes[o]) <= Val(deposit[op][o])
        BY <1>2, ZenonT(60) DEF IInv, StakesBacked, stake_of_pool
      <4>2. rec.stakes[o] = pools[op].stakes[o] \/ rec.stakes[o] = None
        BY <2>4, <3>3, ZenonT(60) DEF StakesAfter
      <4> QED BY <3>1, <4>1, <4>2 DEF Val
    <3> QED BY <3>2, <3>3, ZenonT(60)
  <2>6. Command /\ UNCHANGED <<vp, pvp>>
    BY ZenonT(60) DEF StakeDeposit, Command, validators
  <2>7. PoolsInv' /\ StakesBacked'
    BY <1>2, <2>4, <2>5, <2>6, IInvParts, PoolStepKeepsPools, PoolStepKeepsBacking, ZenonT(60) DEF IInv
  <2>8. DepositsInv'
    BY <1>2, IInvParts, ZenonT(60) DEF DepositsInv
  <2> QED BY <2>6, <2>7, <2>8, CommandKeepsIInv, ZenonT(60)
<1> QED BY <1>1, <1>2, ZenonT(60) DEF StakeDeposit

\* unstake_deposit only lowers a stake.
LEMMA UnstakeDepositKeepsIInv ==
    ASSUME IInv, NEW own \in Accounts, NEW op \in Operators, NEW amount \in Amounts,
           UnstakeDeposit(own, op, amount)
    PROVE  IInv'
<1>1. CASE \E e : Abort(e)
  BY <1>1, AbortKeepsIInv, ZenonT(60) DEF UnstakeDeposit
<1>2. CASE /\ pools[op] # None
           /\ pools[op].stakes[own] # None
           /\ ReduceStakePower(op, own, amount)
           /\ UNCHANGED <<balance, deposit, auto>>
  <2>1. amount \in U64 /\ pools[op].stakes[own] \in U64
    BY <1>2, PoolFields, StakingAssumption, ZenonT(60) DEF IInv, U64OrNone
  <2>2. PICK rec \in Pool :
           /\ PoolStep(op, rec)
           /\ Val(rec.stakes[own]) = saturating_sub(pools[op].stakes[own], amount)
           /\ \A o \in Accounts \ {own} : rec.stakes[o] = pools[op].stakes[o]
    BY <1>2, <2>1, ReduceIsPoolStep, ZenonT(60) DEF IInv
  <2>3. \A o \in Accounts : Val(rec.stakes[o]) <= Val(deposit[op][o])
    <3> SUFFICES ASSUME NEW o \in Accounts PROVE Val(rec.stakes[o]) <= Val(deposit[op][o])
      BY ZenonT(60)
    <3>1. Val(pools[op].stakes[o]) <= Val(deposit[op][o])
      BY <1>2, ZenonT(60) DEF IInv, StakesBacked, stake_of_pool
    <3>2. CASE o = own
      <4>1. pools[op].stakes[own] <= Val(deposit[op][own])
        BY <1>2, <3>1, <3>2 DEF Val
      <4>2. Val(deposit[op][own]) \in Nat
        BY ValType, U64Ops, ZenonT(60) DEF IInv, TypeOK
      <4>3. saturating_sub(pools[op].stakes[own], amount) <= Val(deposit[op][own])
        BY <2>1, <4>1, <4>2, U64Assumption DEF U64, saturating_sub
      <4> QED BY <2>2, <3>2, <4>3, ZenonT(60)
    <3>3. CASE o # own
      BY <2>2, <3>1, <3>3
    <3> QED BY <3>2, <3>3, ZenonT(60)
  <2>4. Command /\ UNCHANGED <<vp, pvp>>
    BY ZenonT(60) DEF UnstakeDeposit, Command, validators
  <2>5. PoolsInv' /\ StakesBacked'
    BY <1>2, <2>2, <2>3, <2>4, IInvParts, PoolStepKeepsPools, PoolStepKeepsBacking, ZenonT(60) DEF IInv
  <2>6. DepositsInv'
    BY <1>2, IInvParts DEF DepositsInv
  <2> QED BY <2>4, <2>5, <2>6, CommandKeepsIInv, ZenonT(60)
<1> QED BY <1>1, <1>2, ZenonT(60) DEF UnstakeDeposit

\* withdraw_deposit leaves at least the locked power and caps the stake of the
\* pool at what it leaves.
LEMMA WithdrawDepositKeepsIInv ==
    ASSUME IInv, NEW own \in Accounts, NEW op \in Operators, NEW amount \in Amounts,
           WithdrawDeposit(own, op, amount)
    PROVE  IInv'
<1> DEFINE dep == deposit[op][own]
           withdrawn == min(amount, saturating_sub(dep, Locked(op, own)))
           left == saturating_sub(dep, withdrawn)
           kept == IF left = 0 THEN None ELSE left
<1>1. CASE \E e : Abort(e)
  BY <1>1, AbortKeepsIInv, ZenonT(60) DEF WithdrawDeposit
<1>2. CASE /\ dep # None
           /\ deposit' = [deposit EXCEPT ![op] = [@ EXCEPT ![own] = kept]]
           /\ auto' = [auto EXCEPT ![op] = [@ EXCEPT ![own] = auto[op][own] /\ left # 0]]
           /\ balance' = [balance EXCEPT ![own] = saturating_add(@, dep - left)]
           /\ CapStake(op, own, left)
  <2>1. Command /\ UNCHANGED <<vp, pvp>>
    BY ZenonT(60) DEF WithdrawDeposit, Command, validators
  <2> DEFINE y == Val(stake_of_pool(vp, op, own))
             z == Val(stake_of_pool(pvp, op, own))
  <2>2. dep \in U64 /\ amount \in U64 /\ y \in U64 /\ z \in U64 /\ y <= dep /\ z <= dep
    <3>1. /\ stake_of_pool(vp, op, own) \in U64OrNone
          /\ stake_of_pool(pvp, op, own) \in U64OrNone
      BY StakeType, ZenonT(60) DEF IInv, TypeOK
    <3>2. dep \in U64 /\ amount \in U64 /\ Val(dep) = dep
      BY <1>2, StakingAssumption DEF IInv, TypeOK, U64OrNone, Val
    <3>3. y <= Val(dep) /\ z <= Val(dep)
      BY ZenonT(60) DEF IInv, StakesBacked
    <3> QED BY <3>1, <3>2, <3>3, ValType
  <2>3. left \in U64 /\ y <= left /\ z <= left /\ left <= dep /\ dep - left \in U64
    <3>1. Locked(op, own) = max(z, y)
      BY ZenonT(60) DEF Locked
    <3> HIDE DEF dep, y, z
    <3> QED BY <2>2, <3>1, U64Assumption DEF U64, saturating_sub, min, max
  <2> HIDE DEF left
  <2>4. kept \in U64OrNone /\ Val(kept) = left
    BY <2>3, U64Ops, NoneAssumption DEF U64OrNone, Val
  <2> HIDE DEF kept
  <2>5. /\ deposit' \in [Operators -> [Accounts -> U64OrNone]]
        /\ deposit'[op][own] = kept
        /\ \A p \in Operators : \A o \in Accounts :
               ~(p = op /\ o = own) => deposit'[p][o] = deposit[p][o]
    BY <1>2, <2>4, ZenonT(60) DEF IInv, TypeOK
  <2>6. DepositsInv'
    <3>1. balance' \in [Accounts -> U64]
      BY <1>2, <2>3, U64Ops, ZenonT(60) DEF IInv, TypeOK
    <3> DEFINE flag == auto[op][own] /\ left # 0
    <3>a. flag \in BOOLEAN
      BY ZenonT(60)
    <3>b. auto' = [auto EXCEPT ![op] = [@ EXCEPT ![own] = flag]]
      BY <1>2, ZenonT(60)
    <3> HIDE DEF flag
    <3>2. auto' \in [Operators -> [Accounts -> BOOLEAN]]
          /\ auto'[op][own] = flag
          /\ \A p \in Operators : \A o \in Accounts :
                 ~(p = op /\ o = own) => auto'[p][o] = auto[p][o]
      BY <3>a, <3>b, ZenonT(60) DEF IInv, TypeOK
    <3>3. ASSUME NEW p \in Operators, NEW o \in Accounts, auto'[p][o]
          PROVE  deposit'[p][o] # None
      <4>1. CASE p = op /\ o = own
        <5>1. flag
          BY <3>2, <3>3, <4>1, ZenonT(60)
        <5>2. left # 0
          BY <5>1, ZenonT(60) DEF flag
        <5>3. kept = left
          BY <5>2, ZenonT(60) DEF kept
        <5>4. left # None
          BY <2>3, U64NotNone, ZenonT(60)
        <5> QED BY <2>5, <4>1, <5>3, <5>4, ZenonT(60)
      <4>2. CASE ~(p = op /\ o = own)
        BY <2>5, <3>2, <3>3, <4>2, IInvParts, ZenonT(60) DEF DepositsInv
      <4> QED BY <4>1, <4>2, ZenonT(60)
    <3> QED BY <2>5, <3>1, <3>2, <3>3, ZenonT(60) DEF DepositsInv
  <2> DEFINE stake == stake_of_pool(pools, op, own)
  <2>7. stake \in U64OrNone
    BY StakeType, ZenonT(60) DEF IInv, TypeOK
  <2>8. /\ PoolsInv'
        /\ Val(stake_of_pool(pools', op, own)) <= left
        /\ \A p \in Operators : \A o \in Accounts :
               ~(p = op /\ o = own) => stake_of_pool(pools', p, o) = stake_of_pool(pools, p, o)
    <3>1. CASE stake # None /\ left < Val(stake)
      <4>1. pools[op] # None /\ stake = pools[op].stakes[own]
        BY <3>1, ZenonT(60) DEF stake_of_pool
      <4>2. stake \in U64 /\ Val(stake) = stake
        BY <2>7, <3>1, ZenonT(60) DEF U64OrNone, Val
      <4>3. stake - left \in U64 /\ saturating_sub(stake, stake - left) = left
        <5> HIDE DEF stake
        <5> QED BY <2>3, <3>1, <4>2, U64Assumption DEF U64, saturating_sub
      <4>4. ReduceStakePower(op, own, stake - left)
        BY <1>2, <3>1 DEF CapStake
      <4> HIDE DEF stake
      <4>5. PICK rec \in Pool :
               /\ PoolStep(op, rec)
               /\ Val(rec.stakes[own]) = saturating_sub(pools[op].stakes[own], stake - left)
               /\ \A o \in Accounts \ {own} : rec.stakes[o] = pools[op].stakes[o]
        BY <3>1, <4>1, <4>3, <4>4, ReduceIsPoolStep, ZenonT(60) DEF IInv
      <4>6. PoolsInv'
        BY <4>5, IInvParts, PoolStepKeepsPools, ZenonT(60)
      <4>7. pools' = [pools EXCEPT ![op] = rec] /\ rec # None
        BY <4>5, NoneAssumption DEF PoolStep
      <4>8. Val(stake_of_pool(pools', op, own)) = left
        BY <4>1, <4>3, <4>5, <4>7, ZenonT(60) DEF IInv, TypeOK, stake_of_pool
      <4>9. \A p \in Operators : \A o \in Accounts :
                ~(p = op /\ o = own) => stake_of_pool(pools', p, o) = stake_of_pool(pools, p, o)
        BY <4>1, <4>5, <4>7, ZenonT(60) DEF IInv, TypeOK, stake_of_pool
      <4>10. left <= left
        BY <2>3, U64Reflexive, ZenonT(60)
      <4> QED BY <4>6, <4>8, <4>9, <4>10, ZenonT(60)
    <3>2. CASE ~(stake # None /\ left < Val(stake))
      <4>1. UNCHANGED <<pools, nvp>>
        BY <1>2, <3>2, ZenonT(60) DEF CapStake
      <4>2. PoolsInv'
        BY <4>1, IInvParts, ZenonT(60) DEF PoolsInv, NvpTracksPools, Keys, Delegated
      <4>3. Val(stake) <= left
        <5>1. stake = None \/ ~(left < Val(stake))
          BY <3>2, ZenonT(60)
        <5>2. Val(stake) \in Nat /\ left \in Nat
          BY <2>3, <2>7, ValType, U64Ops, ZenonT(60)
        <5>3. stake = None => Val(stake) = 0
          BY ZenonT(60) DEF Val
        <5> HIDE DEF stake
        <5> QED BY <5>1, <5>2, <5>3
      <4> QED BY <4>1, <4>2, <4>3
    <3> QED BY <3>1, <3>2, ZenonT(60)
  <2>9. StakesBacked'
    <3> SUFFICES ASSUME NEW p \in Operators, NEW o \in Accounts
                 PROVE  /\ Val(stake_of_pool(pools', p, o)) <= Val(deposit'[p][o])
                        /\ Val(stake_of_pool(vp, p, o)) <= Val(deposit'[p][o])
                        /\ Val(stake_of_pool(pvp, p, o)) <= Val(deposit'[p][o])
      BY <2>1, ZenonT(60) DEF StakesBacked, stake_of_pool
    <3>1. CASE p = op /\ o = own
      BY <2>3, <2>4, <2>5, <2>8, <3>1, ZenonT(60)
    <3>2. CASE ~(p = op /\ o = own)
      BY <2>5, <2>8, <3>2 DEF IInv, StakesBacked
    <3> QED BY <3>1, <3>2, ZenonT(60)
  <2> QED BY <2>1, <2>6, <2>8, <2>9, CommandKeepsIInv, ZenonT(60)
<1> QED BY <1>1, <1>2, ZenonT(60) DEF WithdrawDeposit

-----------------------------------------------------------------------------
(***************************************************************************)
(* next_epoch.                                                             *)
(***************************************************************************)

\* A payment is a u64; the division by the number of validators is defined.
LEMMA PaymentType ==
    ASSUME TypeOK, NEW blocks \in [Keys(vp) -> BlockCounts],
           NEW op \in Operators, NEW own \in Accounts
    PROVE  Payment(op, own, blocks) \in U64OrNone
<1>1. CASE vp[op] = None
  BY <1>1, ZenonT(60) DEF Payment, U64OrNone
<1>2. CASE vp[op] # None
  <2> DEFINE reward == RewardOfPool(op, blocks)
             total == TotalStakes(vp[op])
  <2>1. /\ vp[op].commission_rate \in 0 .. 100
        /\ vp[op].power \in U64
        /\ vp[op].stakes \in [Accounts -> U64OrNone]
    BY <1>2 DEF TypeOK, PoolOrNone, Pool
  <2>2. op \in Keys(vp) /\ Keys(vp) \subseteq Operators
    BY <1>2, ZenonT(60) DEF Keys, TypeOK
  <2>3. BlocksPerEpoch \div Cardinality(Keys(vp)) \in Nat
    <3>1. IsFiniteSet(Keys(vp))
      <4>1. Keys(vp) \subseteq Accounts
        BY <2>2, StakingAssumption, ZenonT(60)
      <4> QED BY <4>1, StakingAssumption, FS_Subset, ZenonT(60)
    <3>2. Cardinality(Keys(vp)) \in Nat /\ Cardinality(Keys(vp)) # 0
      BY <2>2, <3>1, FS_CardinalityType, FS_EmptySet, ZenonT(60)
    <3> DEFINE n == Cardinality(Keys(vp))
    <3> HIDE DEF n
    <3>3. n \in Nat /\ n # 0
      BY <3>2, ZenonT(60) DEF n
    <3>4. BlocksPerEpoch \in Nat
      BY StakingAssumption, ZenonT(60)
    <3>5. BlocksPerEpoch \div n \in Nat
      BY <3>3, <3>4
    <3> QED BY <3>5, ZenonT(60) DEF n
  <2>4. blocks[op] \in Nat /\ epoch \in 0 .. MaxEpoch
    BY <2>2, StakingAssumption, ZenonT(60) DEF TypeOK
  <2>5. reward \in U64
    BY <2>1, <2>3, <2>4, PoolRewardType, ZenonT(60) DEF RewardOfPool
  <2>6. total \in U64 /\ TotalCommission(op, reward) \in U64
    BY SaturateType, ZenonT(60) DEF TotalStakes, TotalCommission
  <2>7. Val(vp[op].stakes[own]) \in U64 /\ 0 \in 0 .. 100
    BY <2>1, ValType
  <2> HIDE DEF reward, total
  <2>8. /\ stake_reward(reward, 0, Val(vp[op].stakes[own]), total).reward \in U64
        /\ stake_reward(reward, vp[op].commission_rate, Val(vp[op].stakes[own]), total).reward \in U64
    BY <2>1, <2>5, <2>6, <2>7, StakeRewardType, ZenonT(60)
  <2>9. saturating_add(stake_reward(reward, 0, Val(vp[op].stakes[own]), total).reward,
                       TotalCommission(op, reward)) \in U64
    BY <2>6, <2>8, U64Ops, ZenonT(60)
  <2>10. \/ Payment(op, own, blocks) = None
         \/ Payment(op, own, blocks)
                = saturating_add(stake_reward(reward, 0, Val(vp[op].stakes[own]), total).reward,
                                 TotalCommission(op, reward))
         \/ Payment(op, own, blocks)
                = stake_reward(reward, vp[op].commission_rate, Val(vp[op].stakes[own]), total).reward
    BY ZenonT(60) DEF Payment, reward, total
  <2> QED BY <2>8, <2>9, <2>10, ZenonT(60) DEF U64OrNone
<1> QED BY <1>1, <1>2, ZenonT(60)

\* Rewards only add to deposits, and a reward that is to be staked was deposited.
LEMMA RewardStakesKeepsIInv ==
    ASSUME IInv, NEW blocks \in [Keys(vp) -> BlockCounts], RewardStakes(blocks)
    PROVE  IInv'
<1> DEFINE pay(op, own) == Payment(op, own, blocks)
<1>1. /\ phase = "commands" /\ phase' = "auto_stakes" /\ epoch < MaxEpoch
      /\ UNCHANGED <<balance, auto, pools, nvp, vp, pvp, epoch>>
      /\ \A op \in Operators : \A own \in Accounts :
             /\ deposit'[op][own] = Credited(op, own, pay(op, own))
             /\ auto_stakes'[op][own] = IF auto[op][own] THEN pay(op, own) ELSE None
  BY ZenonT(60) DEF RewardStakes, validators
<1>2. \A op \in Operators : \A own \in Accounts : pay(op, own) \in U64OrNone
  BY PaymentType, ZenonT(60) DEF IInv
<1> HIDE DEF pay
<1>3. ASSUME NEW op \in Operators, NEW own \in Accounts
      PROVE  /\ Credited(op, own, pay(op, own)) \in U64OrNone
             /\ Val(deposit[op][own]) <= Val(Credited(op, own, pay(op, own)))
             /\ deposit[op][own] # None => Credited(op, own, pay(op, own)) # None
             /\ pay(op, own) # None /\ deposit[op][own] # None =>
                    Val(Credited(op, own, pay(op, own)))
                        = saturating_add(Val(deposit[op][own]), pay(op, own))
  <2> DEFINE d == deposit[op][own]
             sum == saturating_add(Val(d), pay(op, own))
  <2>1. d \in U64OrNone /\ Val(d) \in U64 /\ Val(d) \in Nat
    BY ValType, U64Ops, ZenonT(60) DEF IInv, TypeOK
  <2>2. CASE pay(op, own) = None \/ (own # op /\ d = None)
    <3>1. Credited(op, own, pay(op, own)) = d
      BY <2>2, ZenonT(60) DEF Credited
    <3>2. Val(d) <= Val(d)
      BY <2>1
    <3> HIDE DEF d
    <3> QED BY <2>1, <2>2, <3>1, <3>2, ZenonT(60) DEF d
  <2>3. CASE ~(pay(op, own) = None \/ (own # op /\ d = None))
    <3>1. Credited(op, own, pay(op, own)) = sum
      BY <2>3, ZenonT(60) DEF Credited
    <3>2. pay(op, own) \in U64
      BY <1>2, <2>3, ZenonT(60) DEF U64OrNone
    <3>3. sum \in U64 /\ Val(d) <= sum
      BY <2>1, <3>2, U64Ops, SaturatingAddMonotone, ZenonT(60)
    <3> HIDE DEF sum
    <3>4. sum # None /\ Val(sum) = sum /\ sum \in U64OrNone
      BY <3>3, U64Ops, NoneAssumption DEF Val, U64OrNone
    <3> QED BY <3>1, <3>3, <3>4, ZenonT(60) DEF sum
  <2> QED BY <2>2, <2>3, ZenonT(60)
<1>4. TypeOK'
  <2>1. deposit' \in [Operators -> [Accounts -> U64OrNone]]
    BY <1>1, <1>3, ZenonT(60) DEF RewardStakes, pay
  <2>2. auto_stakes' \in [Operators -> [Accounts -> U64OrNone]]
    BY <1>1, <1>2, ZenonT(60) DEF RewardStakes, pay, U64OrNone
  <2> QED BY <1>1, <2>1, <2>2, ZenonT(60) DEF IInv, TypeOK
<1>5. ASSUME NEW op \in Operators, NEW own \in Accounts
      PROVE  /\ Val(stake_of_pool(pools, op, own)) \in U64
             /\ Val(stake_of_pool(vp, op, own)) \in U64
             /\ Val(stake_of_pool(pvp, op, own)) \in U64
             /\ Val(deposit[op][own]) \in U64
             /\ Val(deposit'[op][own]) \in U64
  <2>1. /\ stake_of_pool(pools, op, own) \in U64OrNone
        /\ stake_of_pool(vp, op, own) \in U64OrNone
        /\ stake_of_pool(pvp, op, own) \in U64OrNone
    BY StakeType, ZenonT(60) DEF IInv, TypeOK
  <2>2. deposit[op][own] \in U64OrNone
    BY ZenonT(60) DEF IInv, TypeOK
  <2>3. deposit'[op][own] \in U64OrNone
    BY <1>4, ZenonT(60) DEF TypeOK
  <2> QED BY <2>1, <2>2, <2>3, ValType
<1>6. StakesBacked'
  <2> SUFFICES ASSUME NEW op \in Operators, NEW own \in Accounts
               PROVE  /\ Val(stake_of_pool(pools, op, own)) <= Val(deposit'[op][own])
                      /\ Val(stake_of_pool(vp, op, own)) <= Val(deposit'[op][own])
                      /\ Val(stake_of_pool(pvp, op, own)) <= Val(deposit'[op][own])
    BY <1>1, ZenonT(60) DEF StakesBacked, stake_of_pool
  <2> DEFINE x == Val(stake_of_pool(pools, op, own))
             y == Val(stake_of_pool(vp, op, own))
             z == Val(stake_of_pool(pvp, op, own))
             d == Val(deposit[op][own])
             e == Val(deposit'[op][own])
  <2>1. x \in Nat /\ y \in Nat /\ z \in Nat /\ d \in Nat /\ e \in Nat
    BY <1>5, U64Ops, ZenonT(60)
  <2>2. x <= d /\ y <= d /\ z <= d /\ d <= e
    BY <1>1, <1>3, ZenonT(60) DEF IInv, StakesBacked
  <2> HIDE DEF x, y, z, d, e
  <2>3. x <= e /\ y <= e /\ z <= e
    BY <2>1, <2>2
  <2> QED BY <2>3, ZenonT(60) DEF x, y, z, e
<1>7. NvpTracksPools' /\ CapacitiesKept'
  BY <1>1, ZenonT(60) DEF IInv, NvpTracksPools, CapacitiesKept, Keys, Delegated
<1>8. PendingStakes'
  <2> SUFFICES ASSUME NEW op \in Operators, NEW own \in Accounts
               PROVE  /\ auto[op][own] => deposit'[op][own] # None
                      /\ auto_stakes'[op][own] # None =>
                             saturating_add(Val(stake_of_pool(pools, op, own)), auto_stakes'[op][own])
                                 <= Val(deposit'[op][own])
    BY <1>1, ZenonT(60) DEF PendingStakes, stake_of_pool
  <2>1. auto[op][own] => deposit[op][own] # None
    BY ZenonT(60) DEF IInv, PendingStakes
  <2>2. auto[op][own] => deposit'[op][own] # None
    <3>1. deposit'[op][own] = Credited(op, own, pay(op, own))
      BY <1>1, ZenonT(60)
    <3>2. deposit[op][own] # None => Credited(op, own, pay(op, own)) # None
      BY <1>3, ZenonT(60)
    <3> QED BY <2>1, <3>1, <3>2, ZenonT(60)
  <2>3. ASSUME auto_stakes'[op][own] # None
        PROVE  saturating_add(Val(stake_of_pool(pools, op, own)), auto_stakes'[op][own])
                   <= Val(deposit'[op][own])
    <3>1. auto[op][own] /\ auto_stakes'[op][own] = pay(op, own) /\ deposit[op][own] # None
      BY <1>1, <2>1, <2>3, ZenonT(60)
    <3>2. pay(op, own) \in U64
      BY <1>2, <2>3, <3>1 DEF U64OrNone
    <3>3. Val(deposit'[op][own]) = saturating_add(Val(deposit[op][own]), pay(op, own))
      BY <1>1, <1>3, <2>3, <3>1, ZenonT(60)
    <3>4. Val(stake_of_pool(pools, op, own)) <= Val(deposit[op][own])
      BY ZenonT(60) DEF IInv, StakesBacked
    <3> QED BY <1>5, <3>1, <3>2, <3>3, <3>4, SaturatingAddMonotone, ZenonT(60)
  <2> QED BY <2>2, <2>3, ZenonT(60)
<1> QED BY <1>4, <1>6, <1>7, <1>8, ZenonT(60) DEF IInv

\* Staking one reward: the stake it goes to stays within the deposit, and so do
\* the rewards still waiting, also when the insertion evicts another stake.
LEMMA AutoStakeKeepsIInv ==
    ASSUME IInv, NEW op \in Operators, NEW own \in Accounts, AutoStake(op, own)
    PROVE  IInv'
<1> DEFINE amount == auto_stakes[op][own]
<1>1. /\ phase = "auto_stakes" /\ amount # None
      /\ auto_stakes' = [auto_stakes EXCEPT ![op] = [@ EXCEPT ![own] = None]]
      /\ UNCHANGED <<balance, deposit, auto, vp, pvp, epoch, phase>>
  BY ZenonT(60) DEF AutoStake, validators
<1>2. /\ auto_stakes' \in [Operators -> [Accounts -> U64OrNone]]
      /\ auto_stakes'[op][own] = None
      /\ \A p \in Operators : \A o \in Accounts :
             ~(p = op /\ o = own) => auto_stakes'[p][o] = auto_stakes[p][o]
  BY <1>1, ZenonT(60) DEF IInv, TypeOK, U64OrNone
<1>3. amount \in U64
  BY <1>1 DEF IInv, TypeOK, U64OrNone
<1>4. CASE UNCHANGED <<pools, nvp>>
  <2>1. TypeOK'
    BY <1>1, <1>2, <1>4, ZenonT(60) DEF IInv, TypeOK
  <2>3. StakesBacked'
    BY <1>1, <1>4 DEF IInv, StakesBacked, stake_of_pool
  <2>4. NvpTracksPools' /\ CapacitiesKept'
    BY <1>1, <1>4, ZenonT(60) DEF IInv, NvpTracksPools, CapacitiesKept, Keys, Delegated
  <2>2. PendingStakes'
    <3> SUFFICES ASSUME NEW p \in Operators, NEW o \in Accounts
                 PROVE  /\ auto[p][o] => deposit[p][o] # None
                        /\ auto_stakes'[p][o] # None =>
                               saturating_add(Val(stake_of_pool(pools, p, o)), auto_stakes'[p][o])
                                   <= Val(deposit[p][o])
      BY <1>1, <1>4, ZenonT(60) DEF PendingStakes, stake_of_pool
    <3>1. CASE p = op /\ o = own
      BY <1>2, <3>1, ZenonT(60) DEF IInv, PendingStakes
    <3>2. CASE ~(p = op /\ o = own)
      BY <1>2, <3>2, ZenonT(60) DEF IInv, PendingStakes
    <3> QED BY <3>1, <3>2, ZenonT(60)
  <2> QED BY <2>1, <2>2, <2>3, <2>4, ZenonT(60) DEF IInv
<1>5. ASSUME pools[op] # None, NEW r \in StakeOutcomes(op, own, amount), ApplyStake(op, r)
      PROVE  IInv'
  <2> HIDE DEF amount
  <2>1. PICK rec \in Pool : PoolStep(op, rec) /\ StakesAfter(op, own, amount, rec.stakes)
    BY <1>3, <1>5, ApplyIsPoolStep, ZenonT(60) DEF IInv
  <2>2. pools' = [pools EXCEPT ![op] = rec] /\ rec # None
    BY <2>1, NoneAssumption, ZenonT(60) DEF PoolStep
  <2>3. ASSUME NEW p \in Operators, NEW o \in Accounts
        PROVE  /\ Val(stake_of_pool(pools, p, o)) \in U64
               /\ Val(stake_of_pool(pools', p, o)) \in U64
               /\ Val(deposit[p][o]) \in U64
    <3>1. /\ stake_of_pool(pools, p, o) \in U64OrNone
          /\ deposit[p][o] \in U64OrNone
      BY StakeType, ZenonT(60) DEF IInv, TypeOK
    <3>2. pools' \in [Operators -> PoolOrNone]
      BY <2>2, ZenonT(60) DEF IInv, TypeOK, PoolOrNone
    <3>3. stake_of_pool(pools', p, o) \in U64OrNone
      BY <3>2, StakeType, ZenonT(60)
    <3> QED BY <3>1, <3>3, ValType, ZenonT(60)
  \* Only the stake of own may have grown, and then to no more than its deposit.
  <2>4. Val(stake_of_pool(pools', op, own)) <= Val(deposit[op][own])
    <3>1. Val(stake_of_pool(pools', op, own))
              <= saturating_add(Val(stake_of_pool(pools, op, own)), amount)
      BY <1>5, <2>1, <2>2, ZenonT(60) DEF StakesAfter, stake_of_pool, IInv, TypeOK
    <3>2. saturating_add(Val(stake_of_pool(pools, op, own)), amount) <= Val(deposit[op][own])
      BY <1>1, ZenonT(60) DEF IInv, PendingStakes, amount
    <3>3. /\ saturating_add(Val(stake_of_pool(pools, op, own)), amount) \in Nat
          /\ Val(stake_of_pool(pools', op, own)) \in Nat
          /\ Val(deposit[op][own]) \in Nat
      BY <1>3, <2>3, U64Ops, ZenonT(60)
    <3> QED BY <3>1, <3>2, <3>3
  <2>5. ASSUME NEW p \in Operators, NEW o \in Accounts, ~(p = op /\ o = own)
        PROVE  Val(stake_of_pool(pools', p, o)) <= Val(stake_of_pool(pools, p, o))
    <3>1. \/ stake_of_pool(pools', p, o) = stake_of_pool(pools, p, o)
          \/ stake_of_pool(pools', p, o) = None
      BY <1>5, <2>1, <2>2, <2>5 DEF StakesAfter, stake_of_pool, IInv, TypeOK
    <3>2. /\ Val(stake_of_pool(pools, p, o)) \in Int
          /\ Val(stake_of_pool(pools, p, o)) >= 0
      <4>1. Val(stake_of_pool(pools, p, o)) \in Nat
        BY <2>3, U64Ops, ZenonT(60)
      <4> QED BY <4>1
    <3>3. Val(None) = 0
      BY ZenonT(60) DEF Val
    <3>4. CASE stake_of_pool(pools', p, o) = stake_of_pool(pools, p, o)
      <4> DEFINE s == Val(stake_of_pool(pools, p, o))
      <4>1. s \in Int
        BY <3>2, ZenonT(60)
      <4>2. Val(stake_of_pool(pools', p, o)) = s
        BY <3>4, ZenonT(60)
      <4> HIDE DEF s
      <4> QED BY <4>1, <4>2 DEF s
    <3>5. CASE stake_of_pool(pools', p, o) = None
      BY <3>2, <3>3, <3>5, ZenonT(60)
    <3> QED BY <3>1, <3>4, <3>5, ZenonT(60)
  <2>6. PoolsInv'
    BY <2>1, IInvParts, PoolStepKeepsPools, ZenonT(60)
  <2>10. TypeOK'
    BY <1>1, <1>2, <2>6, ZenonT(60) DEF IInv, TypeOK, PoolsInv
  <2>11. NvpTracksPools'
    BY <2>6, ZenonT(60) DEF PoolsInv
  <2>12. CapacitiesKept'
    BY <1>1, <2>6, ZenonT(60) DEF IInv, CapacitiesKept, PoolsInv, Keys, Delegated
  <2>8. StakesBacked'
    <3> SUFFICES ASSUME NEW p \in Operators, NEW o \in Accounts
                 PROVE  /\ Val(stake_of_pool(pools', p, o)) <= Val(deposit[p][o])
                        /\ Val(stake_of_pool(vp, p, o)) <= Val(deposit[p][o])
                        /\ Val(stake_of_pool(pvp, p, o)) <= Val(deposit[p][o])
      BY <1>1, ZenonT(60) DEF StakesBacked, stake_of_pool
    <3>1. CASE p = op /\ o = own
      BY <2>4, <3>1, ZenonT(60) DEF IInv, StakesBacked
    <3>2. CASE ~(p = op /\ o = own)
      <4>1. Val(stake_of_pool(pools, p, o)) <= Val(deposit[p][o])
        BY ZenonT(60) DEF IInv, StakesBacked
      <4>2. /\ Val(stake_of_pool(pools, p, o)) \in Nat
            /\ Val(stake_of_pool(pools', p, o)) \in Nat
            /\ Val(deposit[p][o]) \in Nat
        BY <2>3, U64Ops, ZenonT(60)
      <4>3. Val(stake_of_pool(pools', p, o)) <= Val(deposit[p][o])
        BY <2>5, <3>2, <4>1, <4>2
      <4> QED BY <4>3, ZenonT(60) DEF IInv, StakesBacked
    <3> QED BY <3>1, <3>2, ZenonT(60)
  <2>9. PendingStakes'
    <3> SUFFICES ASSUME NEW p \in Operators, NEW o \in Accounts
                 PROVE  /\ auto[p][o] => deposit[p][o] # None
                        /\ auto_stakes'[p][o] # None =>
                               saturating_add(Val(stake_of_pool(pools', p, o)), auto_stakes'[p][o])
                                   <= Val(deposit[p][o])
      BY <1>1, ZenonT(60) DEF PendingStakes, stake_of_pool
    <3>1. auto[p][o] => deposit[p][o] # None
      BY ZenonT(60) DEF IInv, PendingStakes
    <3>2. ASSUME auto_stakes'[p][o] # None
          PROVE  saturating_add(Val(stake_of_pool(pools', p, o)), auto_stakes'[p][o])
                     <= Val(deposit[p][o])
      <4>1. ~(p = op /\ o = own) /\ auto_stakes'[p][o] = auto_stakes[p][o]
        BY <1>2, <3>2, ZenonT(60)
      <4> DEFINE w == auto_stakes[p][o]
      <4>2. w \in U64
        BY <3>2, <4>1 DEF IInv, TypeOK, U64OrNone
      <4>3. saturating_add(Val(stake_of_pool(pools, p, o)), w) <= Val(deposit[p][o])
        BY <3>2, <4>1, ZenonT(60) DEF IInv, PendingStakes
      <4>4. saturating_add(Val(stake_of_pool(pools', p, o)), w)
                <= saturating_add(Val(stake_of_pool(pools, p, o)), w)
        BY <2>3, <2>5, <4>1, <4>2, SaturatingAddMonotone, ZenonT(60)
      <4>5. /\ saturating_add(Val(stake_of_pool(pools', p, o)), w) \in Nat
            /\ saturating_add(Val(stake_of_pool(pools, p, o)), w) \in Nat
            /\ Val(deposit[p][o]) \in Nat
        BY <2>3, <4>2, U64Ops, ZenonT(60)
      <4>6. saturating_add(Val(stake_of_pool(pools', p, o)), w) <= Val(deposit[p][o])
        BY <4>3, <4>4, <4>5, Transitive, ZenonT(60)
      <4> QED BY <4>1, <4>6, ZenonT(60)
    <3> QED BY <3>1, <3>2, ZenonT(60)
  <2> QED BY <2>8, <2>9, <2>10, <2>11, <2>12, ZenonT(60) DEF IInv
<1> QED BY <1>4, <1>5, ZenonT(60) DEF AutoStake

\* The end of next_epoch: the pools of the next validator set, with the power
\* they are listed with, become the validator set.
LEMMA RotateValidatorsKeepsIInv ==
    ASSUME IInv, RotateValidators
    PROVE  IInv'
<1>1. /\ phase = "auto_stakes" /\ phase' = "commands"
      /\ pvp' = vp
      /\ vp' = [op \in Operators |-> IF nvp[op] = None THEN None ELSE pools[op]]
      /\ epoch' = epoch + 1
      /\ UNCHANGED <<balance, deposit, auto, pools, nvp, auto_stakes>>
      /\ \A op \in Operators : \A own \in Accounts : auto_stakes[op][own] = None
  BY ZenonT(60) DEF RotateValidators, ledger
<1>2. vp' \in [Operators -> PoolOrNone]
  BY <1>1, ZenonT(60) DEF IInv, TypeOK, PoolOrNone
<1>3. epoch' \in 0 .. MaxEpoch
  BY <1>1, IssuanceAssumption DEF IInv, TypeOK
<1>4. TypeOK'
  BY <1>1, <1>2, <1>3, ZenonT(60) DEF IInv, TypeOK
<1>5. StakesBacked'
  <2> SUFFICES ASSUME NEW op \in Operators, NEW own \in Accounts
               PROVE  /\ Val(stake_of_pool(pools, op, own)) <= Val(deposit[op][own])
                      /\ Val(stake_of_pool(vp', op, own)) <= Val(deposit[op][own])
                      /\ Val(stake_of_pool(vp, op, own)) <= Val(deposit[op][own])
    BY <1>1, ZenonT(60) DEF StakesBacked, stake_of_pool
  <2>1. CASE nvp[op] # None
    <3>1. stake_of_pool(vp', op, own) = stake_of_pool(pools, op, own)
      BY <1>1, <2>1, ZenonT(60) DEF stake_of_pool
    <3> QED BY <3>1, ZenonT(60) DEF IInv, StakesBacked
  <2>2. CASE nvp[op] = None
    <3>1. Val(stake_of_pool(vp', op, own)) = 0
      BY <1>1, <2>2, ZenonT(60) DEF stake_of_pool, Val
    <3>2. Val(deposit[op][own]) \in Nat
      BY ValType, U64Ops, ZenonT(60) DEF IInv, TypeOK
    <3>3. 0 <= Val(deposit[op][own])
      BY <3>2
    <3> QED BY <3>1, <3>3, ZenonT(60) DEF IInv, StakesBacked
  <2> QED BY <2>1, <2>2, ZenonT(60)
<1>6. NvpTracksPools'
  BY <1>1, ZenonT(60) DEF IInv, NvpTracksPools, Keys
<1>7. Keys(vp') = Keys(nvp)
  BY <1>1, ZenonT(60) DEF IInv, TypeOK, NvpTracksPools, Keys
<1>8. CapacitiesKept'
  <2>1. /\ Cardinality(Keys(nvp)) <= MaxValidators
        /\ Cardinality(Keys(vp')) <= MaxValidators
        /\ Cardinality(Keys(vp)) <= MaxValidators
    BY <1>7, ZenonT(60) DEF IInv, CapacitiesKept
  <2>2. ASSUME NEW op \in Operators
        PROVE  /\ pools[op] # None => Cardinality(Delegated(op, pools[op].stakes)) <= MaxStakes
               /\ vp'[op] # None => Cardinality(Delegated(op, vp'[op].stakes)) <= MaxStakes
               /\ vp[op] # None => Cardinality(Delegated(op, vp[op].stakes)) <= MaxStakes
    <3>1. vp'[op] = None \/ vp'[op] = pools[op]
      BY <1>1, ZenonT(60)
    <3> QED BY <3>1, ZenonT(60) DEF IInv, CapacitiesKept
  <2>3. CapacitiesKept' =
          (/\ Cardinality(Keys(nvp')) <= MaxValidators
           /\ Cardinality(Keys(vp')) <= MaxValidators
           /\ Cardinality(Keys(pvp')) <= MaxValidators
           /\ \A op \in Operators :
                /\ pools'[op] # None => Cardinality(Delegated(op, pools'[op].stakes)) <= MaxStakes
                /\ vp'[op] # None => Cardinality(Delegated(op, vp'[op].stakes)) <= MaxStakes
                /\ pvp'[op] # None => Cardinality(Delegated(op, pvp'[op].stakes)) <= MaxStakes)
    BY ZenonT(60) DEF CapacitiesKept, Keys, Delegated
  <2> QED BY <1>1, <2>1, <2>2, <2>3, ZenonT(60)
<1>9. PendingStakes'
  BY <1>1, ZenonT(60) DEF IInv, PendingStakes
<1> QED BY <1>4, <1>5, <1>6, <1>8, <1>9 DEF IInv

\* Nothing is deposited, staked or listed at the start.
LEMMA InitIInv == Init => IInv
<1> SUFFICES ASSUME Init PROVE IInv
  BY ZenonT(60)
<1>1. /\ Keys(nvp) = {} /\ Keys(vp) = {} /\ Keys(pvp) = {}
      /\ Cardinality({}) = 0
  BY FS_EmptySet, ZenonT(60) DEF Init, Keys
<1>2. TypeOK
  BY StakingAssumption, IssuanceAssumption DEF Init, TypeOK, NoStakes, U64OrNone, PoolOrNone
<1>3. StakesBacked
  BY DEF Init, StakesBacked, stake_of_pool, NoStakes, Val
<1>4. NvpTracksPools
  BY <1>1, ZenonT(60) DEF NvpTracksPools
<1>5. CapacitiesKept
  <2>1. \A op \in Operators : pools[op] = None /\ vp[op] = None /\ pvp[op] = None
    BY ZenonT(60) DEF Init
  <2>2. 0 <= MaxValidators
    BY StakingAssumption
  <2>3. /\ Cardinality(Keys(nvp)) = 0 /\ Cardinality(Keys(vp)) = 0 /\ Cardinality(Keys(pvp)) = 0
    BY <1>1, ZenonT(60)
  <2> QED BY <2>1, <2>2, <2>3, ZenonT(60) DEF CapacitiesKept
<1>6. PendingStakes
  BY ZenonT(60) DEF Init, PendingStakes, NoStakes
<1> QED BY <1>2, <1>3, <1>4, <1>5, <1>6, ZenonT(60) DEF IInv

\* Every step of the program keeps the invariant.
LEMMA NextIInv == IInv /\ [Next]_vars => IInv'
<1> SUFFICES ASSUME IInv, [Next]_vars PROVE IInv'
  BY ZenonT(60)
<1>1. ASSUME NEW op \in Operators, PoolCommand(op) PROVE IInv'
  <2>1. ASSUME NEW rate \in Rates, CreatePool(op, rate) PROVE IInv'
    BY <2>1, CreatePoolKeepsIInv, ZenonT(60)
  <2>2. ASSUME NEW rate \in Rates, SetPoolSettings(op, rate) PROVE IInv'
    BY <2>2, SetPoolSettingsKeepsIInv, ZenonT(60)
  <2>3. CASE DeletePool(op)
    BY <2>3, DeletePoolKeepsIInv, ZenonT(60)
  <2> QED BY <1>1, <2>1, <2>2, <2>3, ZenonT(60) DEF PoolCommand
<1>2. ASSUME NEW op \in Operators, NEW own \in Accounts, DepositCommand(own, op) PROVE IInv'
  <2>1. ASSUME NEW amount \in Amounts, NEW flag \in BOOLEAN, CreateDeposit(own, op, amount, flag)
        PROVE  IInv'
    BY <2>1, CreateDepositKeepsIInv, ZenonT(60)
  <2>2. ASSUME NEW flag \in BOOLEAN, SetDepositSettings(own, op, flag) PROVE IInv'
    BY <2>2, SetDepositSettingsKeepsIInv, ZenonT(60)
  <2>3. ASSUME NEW amount \in Amounts, TopUpDeposit(own, op, amount) PROVE IInv'
    BY <2>3, TopUpDepositKeepsIInv, ZenonT(60)
  <2>4. ASSUME NEW amount \in Amounts, WithdrawDeposit(own, op, amount) PROVE IInv'
    BY <2>4, WithdrawDepositKeepsIInv
  <2>5. ASSUME NEW amount \in Amounts, StakeDeposit(own, op, amount) PROVE IInv'
    BY <2>5, StakeDepositKeepsIInv, ZenonT(60)
  <2>6. ASSUME NEW amount \in Amounts, UnstakeDeposit(own, op, amount) PROVE IInv'
    BY <2>6, UnstakeDepositKeepsIInv, ZenonT(60)
  <2> QED BY <1>2, <2>1, <2>2, <2>3, <2>4, <2>5, <2>6, ZenonT(60) DEF DepositCommand
<1>3. CASE GasExhausted
  BY <1>3, AbortKeepsIInv, ZenonT(60) DEF GasExhausted
<1>4. CASE NextEpoch
  <2>1. ASSUME NEW blocks \in [Keys(vp) -> BlockCounts], RewardStakes(blocks) PROVE IInv'
    BY <2>1, RewardStakesKeepsIInv, ZenonT(60)
  <2>2. ASSUME NEW op \in Operators, NEW own \in Accounts, AutoStake(op, own) PROVE IInv'
    BY <2>2, AutoStakeKeepsIInv, ZenonT(60)
  <2>3. CASE RotateValidators
    BY <2>3, RotateValidatorsKeepsIInv, ZenonT(60)
  <2> QED BY <1>4, <2>1, <2>2, <2>3, ZenonT(60) DEF NextEpoch
<1>5. CASE UNCHANGED vars
  <2>1. UNCHANGED <<balance, deposit, auto, pools, nvp, vp, pvp, epoch, phase, auto_stakes>>
    BY <1>5, ZenonT(60) DEF vars, ledger, validators
  <2>2. TypeOK' /\ PendingStakes'
    BY <2>1, ZenonT(60) DEF IInv, TypeOK, PendingStakes, stake_of_pool
  <2>3. StakesBacked' /\ NvpTracksPools' /\ CapacitiesKept'
    BY <2>1, ZenonT(60) DEF IInv, StakesBacked, NvpTracksPools, CapacitiesKept, stake_of_pool, Keys, Delegated
  <2> QED BY <2>2, <2>3, ZenonT(60) DEF IInv
<1> QED BY <1>1, <1>2, <1>3, <1>4, <1>5, ZenonT(60) DEF Next

-----------------------------------------------------------------------------

\* The inductive invariant holds in every state the network account can reach,
\* for every number of accounts, operators and epochs, every capacity of pools
\* and validator sets and every width of the integers.
THEOREM Invariance == Spec => []IInv
  BY InitIInv, NextIInv, PTL DEF Spec

\* Every variable of the network account keeps its type: no step leaves u64.
THEOREM TypeCorrect == Spec => []TypeOK
<1>1. IInv => TypeOK
  BY ZenonT(60) DEF IInv
<1> QED BY <1>1, Invariance, PTL

\* No deposit ever falls below a stake it backs in the pool, the validator set or
\* the previous validator set (withdraw_deposit, stake_deposit, next_epoch).
THEOREM StakesAreBacked == Spec => []StakesBacked
<1>1. IInv => StakesBacked
  BY ZenonT(60) DEF IInv
<1> QED BY <1>1, Invariance, PTL

\* The next validator set only lists existing pools, each with its own power, so
\* that next_epoch never unwraps a missing pool.
THEOREM NvpIsSound == Spec => []NvpTracksPools
<1>1. IInv => NvpTracksPools
  BY ZenonT(60) DEF IInv
<1> QED BY <1>1, Invariance, PTL

\* No validator set and no set of delegated stakes outgrows its capacity.
THEOREM CapacitiesHold == Spec => []CapacitiesKept
<1>1. IInv => CapacitiesKept
  BY ZenonT(60) DEF IInv
<1> QED BY <1>1, Invariance, PTL

-----------------------------------------------------------------------------

\* The validators of a set with their powers.
Powers(set) == {<<op, set[op].power>> : op \in Keys(set)}

\* The changes from one set of pools to another, applied to the first, yield the second.
LEMMA ChangesApply ==
    ASSUME NEW old \in [Operators -> PoolOrNone], NEW new \in [Operators -> PoolOrNone],
           NEW ch, ch = ValidatorChanges(old, new)
    PROVE  LET touched == ch.remove_validator_set \cup {c[1] : c \in ch.new_validator_set}
           IN  Powers(new) = {p \in Powers(old) : p[1] \notin touched} \cup ch.new_validator_set
<1> DEFINE Changed == {o \in Keys(new) : old[o] = None \/ old[o].power # new[o].power}
           Fresh == {<<op, new[op].power>> : op \in Changed}
           touched == (Keys(old) \ Keys(new)) \cup {c[1] : c \in Fresh}
<1>1. ch.new_validator_set = Fresh /\ ch.remove_validator_set = Keys(old) \ Keys(new)
  BY ZenonT(60) DEF ValidatorChanges
<1>2. touched = (Keys(old) \ Keys(new)) \cup Changed
  <2> HIDE DEF Changed
  <2>1. \A o \in Changed : \E c \in Fresh : c[1] = o
    <3> TAKE o \in Changed
    <3>1. <<o, new[o].power>> \in Fresh /\ <<o, new[o].power>>[1] = o
      BY ZenonT(60)
    <3> HIDE DEF Fresh
    <3> QED BY <3>1, ZenonT(60)
  <2>2. \A c \in Fresh : c[1] \in Changed
    OBVIOUS
  <2> HIDE DEF Fresh
  <2>3. {c[1] : c \in Fresh} = Changed
    BY <2>1, <2>2, ZenonT(60)
  <2> QED BY <2>3, ZenonT(60)
<1>3. Keys(old) \subseteq Operators /\ Keys(new) \subseteq Operators
      /\ \A o \in Operators : (o \in Keys(old) <=> old[o] # None) /\ (o \in Keys(new) <=> new[o] # None)
  BY ZenonT(60) DEF Keys
<1>4. ASSUME NEW p \in Powers(new)
      PROVE  p \in {q \in Powers(old) : q[1] \notin touched} \cup Fresh
  <2>1. PICK o \in Keys(new) : p = <<o, new[o].power>>
    BY <1>4, ZenonT(60) DEF Powers
  <2>2. CASE o \in Changed
    BY <2>1, <2>2, ZenonT(60)
  <2>3. CASE o \notin Changed
    <3>1. o \in Keys(old) /\ old[o].power = new[o].power
      BY <1>3, <2>1, <2>3, ZenonT(60)
    <3>2. p \in Powers(old) /\ p[1] = o
      BY <2>1, <3>1, ZenonT(60) DEF Powers
    <3>. HIDE DEF touched, Changed, Fresh
    <3>. QED BY <1>2, <2>1, <2>3, <3>2, ZenonT(60)
  <2> QED BY <2>2, <2>3, ZenonT(60)
<1>5. ASSUME NEW p \in Powers(old), p[1] \notin touched
      PROVE  p \in Powers(new)
  <2>1. PICK o \in Keys(old) : p = <<o, old[o].power>>
    BY <1>5, ZenonT(60) DEF Powers
  <2>2. o \notin (Keys(old) \ Keys(new)) \cup Changed
    BY <1>2, <1>5, <2>1, ZenonT(60)
  <2>3. o \in Keys(new) /\ old[o].power = new[o].power
    BY <1>3, <2>1, <2>2, ZenonT(60)
  <2> QED BY <2>1, <2>3, ZenonT(60) DEF Powers
<1>6. Fresh \subseteq Powers(new)
  BY ZenonT(60) DEF Powers
<1> HIDE DEF touched, Fresh
<1>7. Powers(new) = {p \in Powers(old) : p[1] \notin touched} \cup Fresh
  BY <1>4, <1>5, <1>6, ZenonT(60)
<1> QED BY <1>1, <1>7, ZenonT(60) DEF touched

\* A client that applies the ValidatorChanges of every next_epoch follows the validator set,
\* through evictions, deletions and returns of pools.
THEOREM ClientsFollow == Spec => []ChangesYieldNewSet
<1>1. Init => ChangesYieldNewSet
  <2> SUFFICES ASSUME Init PROVE ChangesYieldNewSet
    BY ZenonT(60)
  <2>1. Keys(vp) = {} /\ Keys(pvp) = {} /\ changes.new_validator_set = {}
    BY ZenonT(60) DEF Init, Keys
  <2> QED BY <2>1, ZenonT(60) DEF ChangesYieldNewSet
<1>2. IInv /\ IInv' /\ ChangesYieldNewSet /\ [Next]_vars => ChangesYieldNewSet'
  <2> SUFFICES ASSUME IInv, IInv', ChangesYieldNewSet, [Next]_vars PROVE ChangesYieldNewSet'
    BY ZenonT(60)
  <2>1. CASE UNCHANGED <<vp, pvp, changes>>
    BY <2>1 DEF ChangesYieldNewSet, Keys
  <2>2. CASE RotateValidators
    <3>1. /\ vp \in [Operators -> PoolOrNone] /\ vp' \in [Operators -> PoolOrNone]
          /\ pvp' = vp /\ changes' = ValidatorChanges(vp, vp')
      BY <2>2, ZenonT(60) DEF IInv, TypeOK, RotateValidators
    <3>2. LET touched == changes'.remove_validator_set \cup {c[1] : c \in changes'.new_validator_set}
          IN  Powers(vp') = {p \in Powers(pvp') : p[1] \notin touched} \cup changes'.new_validator_set
      BY <3>1, ChangesApply
    <3> QED BY <3>2, ZenonT(60) DEF ChangesYieldNewSet, Powers, Keys
  <2>3. RotateValidators \/ UNCHANGED <<vp, pvp, changes>>
    <3>1. Command \/ UNCHANGED validators => UNCHANGED <<vp, pvp, changes>>
      BY ZenonT(60) DEF Command, validators
    <3>2. ASSUME NEW op \in Operators, PoolCommand(op) PROVE Command
      BY <3>2, ZenonT(60) DEF PoolCommand, CreatePool, SetPoolSettings, DeletePool
    <3>3. ASSUME NEW op \in Operators, NEW own \in Accounts, DepositCommand(own, op) PROVE Command
      BY <3>3, ZenonT(60) DEF DepositCommand, CreateDeposit, SetDepositSettings, TopUpDeposit,
             WithdrawDeposit, StakeDeposit, UnstakeDeposit
    <3>4. CASE NextEpoch
      <4>1. ASSUME NEW blocks \in [Keys(vp) -> BlockCounts], RewardStakes(blocks)
            PROVE  UNCHANGED validators
        BY <4>1, ZenonT(60) DEF RewardStakes
      <4>2. ASSUME NEW op \in Operators, NEW own \in Accounts, AutoStake(op, own)
            PROVE  UNCHANGED validators
        BY <4>2, ZenonT(60) DEF AutoStake
      <4> QED BY <3>1, <3>4, <4>1, <4>2, ZenonT(60) DEF NextEpoch
    <3>5. GasExhausted => Command
      BY ZenonT(60) DEF GasExhausted
    <3>6. UNCHANGED vars => UNCHANGED validators
      BY ZenonT(60) DEF vars
    <3> QED BY <3>1, <3>2, <3>3, <3>4, <3>5, <3>6, ZenonT(60) DEF Next
  <2> QED BY <2>1, <2>2, <2>3, ZenonT(60)
<1> QED BY <1>1, <1>2, Invariance, PTL DEF Spec

=============================================================================
