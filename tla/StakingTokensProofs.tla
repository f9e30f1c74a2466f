------------------------ MODULE StakingTokensProofs ------------------------
(***************************************************************************)
(* The tokens in balances and deposits: commands of Staking move them and  *)
(* create none, and the rewards of an epoch add at most its issuance, for  *)
(* any accounts, capacities, inputs and width of a u64.                    *)
(***************************************************************************)
EXTENDS StakingProofs, SumProofs

\* A leaf goes to the SMT solver, for a minute at most, unless it names Zenon.
USE SMTT(60)

\* The sum of the stakes of a pool, as a function of the stakes.
Vals(stakes) == [own \in Accounts |-> Val(stakes[own])]

Total(stakes) == SumFunction(Vals(stakes))

\* It is SumOfStakes.
LEMMA TotalIsSum == \A pool : SumOfStakes(pool) = Total(pool.stakes)
  BY ZenonT(60) DEF SumOfStakes, Total, Vals

\* A sum of stakes is a number, and no stake exceeds it.
LEMMA TotalType ==
    ASSUME NEW stakes \in [Accounts -> U64OrNone]
    PROVE  /\ Total(stakes) = SumFunctionOnSet(Vals(stakes), Accounts)
           /\ Total(stakes) \in Nat
           /\ \A own \in Accounts : /\ Vals(stakes)[own] = Val(stakes[own])
                                    /\ Val(stakes[own]) \in Nat
                                    /\ Val(stakes[own]) \in U64
                                    /\ Val(stakes[own]) <= Total(stakes)
<1>1. Total(stakes) = SumFunctionOnSet(Vals(stakes), Accounts)
  BY ZenonT(60) DEF Total, Vals, SumFunction
<1>2. \A own \in Accounts : /\ Vals(stakes)[own] = Val(stakes[own])
                            /\ Val(stakes[own]) \in U64
                            /\ Vals(stakes)[own] \in Nat
  <2> TAKE own \in Accounts
  <2>1. stakes[own] \in U64OrNone /\ Vals(stakes)[own] = Val(stakes[own])
    BY ZenonT(60) DEF Vals
  <2> QED BY <2>1, ValType, U64Ops, ZenonT(60)
<1>3. IsFiniteSet(Accounts)
  BY StakingAssumption, ZenonT(60)
<1>4. /\ SumFunctionOnSet(Vals(stakes), Accounts) \in Nat
      /\ \A own \in Accounts : Vals(stakes)[own] <= SumFunctionOnSet(Vals(stakes), Accounts)
  BY <1>2, <1>3, SumNat, SumBounds
<1> QED BY <1>1, <1>2, <1>4, ZenonT(60)

\* The sum after one of the stakes was changed.
LEMMA TotalChange ==
    ASSUME NEW old \in [Accounts -> U64OrNone], NEW new \in [Accounts -> U64OrNone],
           NEW own \in Accounts, \A o \in Accounts \ {own} : new[o] = old[o]
    PROVE  Total(new) = Total(old) + (Val(new[own]) - Val(old[own]))
<1>1. \A o \in Accounts : Vals(old)[o] \in Int /\ Vals(new)[o] \in Int
  BY TotalType
<1>2. \A o \in Accounts \ {own} : Vals(new)[o] = Vals(old)[o]
  BY ZenonT(60) DEF Vals
<1>3. SumFunctionOnSet(Vals(new), Accounts)
          = SumFunctionOnSet(Vals(old), Accounts) + (Vals(new)[own] - Vals(old)[own])
  BY <1>1, <1>2, StakingAssumption, SumChange
<1> QED BY <1>3, TotalType, ZenonT(60)

\* The sums of what is raised, entry by entry, by at most a payment.
LEMMA TotalGrows ==
    ASSUME NEW old \in [Accounts -> U64OrNone], NEW new \in [Accounts -> U64OrNone],
           NEW pays \in [Accounts -> U64OrNone],
           \A own \in Accounts : /\ Val(old[own]) <= Val(new[own])
                                 /\ Val(new[own]) <= Val(old[own]) + Val(pays[own])
    PROVE  Total(old) <= Total(new) /\ Total(new) <= Total(old) + Total(pays)
<1> DEFINE a == Vals(old)
           b == Vals(new)
           p == Vals(pays)
           sum == [own \in Accounts |-> a[own] + p[own]]
<1>1. \A own \in Accounts : /\ a[own] = Val(old[own]) /\ a[own] \in Nat
                            /\ b[own] = Val(new[own]) /\ b[own] \in Nat
                            /\ p[own] = Val(pays[own]) /\ p[own] \in Nat
  BY TotalType
<1>2. \A own \in Accounts : sum[own] = a[own] + p[own]
  BY ZenonT(60)
<1>3. /\ Total(old) = SumFunctionOnSet(a, Accounts) /\ Total(new) = SumFunctionOnSet(b, Accounts)
      /\ Total(pays) = SumFunctionOnSet(p, Accounts)
  BY TotalType
<1> HIDE DEF a, b, p, sum
<1>4. \A own \in Accounts : /\ a[own] \in Int /\ b[own] \in Int /\ p[own] \in Int /\ sum[own] \in Int
                            /\ a[own] <= b[own] /\ b[own] <= sum[own]
  BY <1>1, <1>2
<1>5. SumFunctionOnSet(sum, Accounts) = SumFunctionOnSet(a, Accounts) + SumFunctionOnSet(p, Accounts)
  BY <1>2, <1>4, StakingAssumption, SumPlus
<1>6. SumFunctionOnSet(a, Accounts) <= SumFunctionOnSet(b, Accounts)
  BY <1>4, StakingAssumption, SumMonotone
<1>7. SumFunctionOnSet(b, Accounts) <= SumFunctionOnSet(sum, Accounts)
  BY <1>4, StakingAssumption, SumMonotone
<1> QED BY <1>3, <1>5, <1>6, <1>7, ZenonT(60)

-----------------------------------------------------------------------------
(***************************************************************************)
(* The tokens in balances and deposits.                                    *)
(***************************************************************************)

\* The tokens in deposits.
Deposits(dep) == [op \in Operators |-> Total(dep[op])]

Deposited(dep) == SumFunction(Deposits(dep))

\* All tokens are those in balances and those in deposits.
LEMMA WealthParts == Wealth = SumFunction(balance) + Deposited(deposit)
  BY ZenonT(60) DEF Wealth, Deposited, Deposits, Total, Vals

\* The tokens in balances.
LEMMA BalancesType ==
    ASSUME NEW bal \in [Accounts -> U64]
    PROVE  /\ SumFunction(bal) = SumFunctionOnSet(bal, Accounts)
           /\ SumFunction(bal) \in Nat
           /\ \A own \in Accounts : bal[own] \in Nat /\ bal[own] <= SumFunction(bal)
<1>1. SumFunction(bal) = SumFunctionOnSet(bal, Accounts)
  BY ZenonT(60) DEF SumFunction
<1>2. \A own \in Accounts : bal[own] \in Nat
  BY U64Ops, ZenonT(60)
<1> QED BY <1>1, <1>2, StakingAssumption, SumNat, SumBounds

\* The sum after one of the balances was changed.
LEMMA BalanceChange ==
    ASSUME NEW old \in [Accounts -> U64], NEW new \in [Accounts -> U64], NEW own \in Accounts,
           \A o \in Accounts \ {own} : new[o] = old[o]
    PROVE  SumFunction(new) = SumFunction(old) + (new[own] - old[own])
<1>1. \A o \in Accounts : new[o] \in Int /\ old[o] \in Int
  BY BalancesType
<1>2. SumFunctionOnSet(new, Accounts) = SumFunctionOnSet(old, Accounts) + (new[own] - old[own])
  BY <1>1, StakingAssumption, SumChange
<1> QED BY <1>2, BalancesType

\* The tokens in deposits, of one operator and of all.
LEMMA DepositsType ==
    ASSUME NEW dep \in [Operators -> [Accounts -> U64OrNone]]
    PROVE  /\ Deposited(dep) = SumFunctionOnSet(Deposits(dep), Operators)
           /\ Deposited(dep) \in Nat
           /\ \A op \in Operators : /\ Deposits(dep)[op] = Total(dep[op])
                                    /\ Total(dep[op]) \in Nat
                                    /\ Total(dep[op]) <= Deposited(dep)
<1>1. Deposited(dep) = SumFunctionOnSet(Deposits(dep), Operators)
  BY ZenonT(60) DEF Deposited, Deposits, SumFunction
<1>2. \A op \in Operators : Deposits(dep)[op] = Total(dep[op]) /\ Total(dep[op]) \in Nat
  BY TotalType, ZenonT(60) DEF Deposits
<1>3. IsFiniteSet(Operators)
  BY StakingAssumption, FS_Subset
<1> QED BY <1>1, <1>2, <1>3, SumNat, SumBounds

\* The sum after one of the deposits was changed.
LEMMA DepositChange ==
    ASSUME NEW dep \in [Operators -> [Accounts -> U64OrNone]], NEW op \in Operators,
           NEW own \in Accounts,
           NEW new \in [Operators -> [Accounts -> U64OrNone]],
           \A o \in Operators \ {op} : new[o] = dep[o],
           \A o \in Accounts \ {own} : new[op][o] = dep[op][o]
    PROVE  Deposited(new) = Deposited(dep) + (Val(new[op][own]) - Val(dep[op][own]))
<1>2. dep[op] \in [Accounts -> U64OrNone] /\ new[op] \in [Accounts -> U64OrNone]
  BY ZenonT(60)
<1>3. Total(new[op]) = Total(dep[op]) + (Val(new[op][own]) - Val(dep[op][own]))
  BY <1>2, TotalChange, ZenonT(60)
<1>4. \A o \in Operators : Deposits(new)[o] \in Int /\ Deposits(dep)[o] \in Int
  BY DepositsType
<1>5. \A o \in Operators \ {op} : Deposits(new)[o] = Deposits(dep)[o]
  BY ZenonT(60) DEF Deposits
<1>6. IsFiniteSet(Operators)
  BY StakingAssumption, FS_Subset, ZenonT(60)
<1>7. SumFunctionOnSet(Deposits(new), Operators)
          = SumFunctionOnSet(Deposits(dep), Operators) + (Deposits(new)[op] - Deposits(dep)[op])
  BY <1>4, <1>5, <1>6, SumChange
<1>8. Deposited(new) = Deposited(dep) + (Total(new[op]) - Total(dep[op]))
  BY <1>7, DepositsType, ZenonT(60)
<1>9. Total(dep[op]) \in Nat /\ Val(new[op][own]) \in Nat /\ Val(dep[op][own]) \in Nat /\ Deposited(dep) \in Nat
  BY <1>2, TotalType, DepositsType
<1> QED BY <1>3, <1>8, <1>9

\* What is known of all tokens.
LEMMA WealthType ==
    ASSUME TypeOK
    PROVE  /\ Wealth \in Nat /\ SumFunction(balance) \in Nat /\ Deposited(deposit) \in Nat
           /\ \A op \in Operators, own \in Accounts :
                  /\ balance[own] \in Nat /\ Val(deposit[op][own]) \in Nat
                  /\ balance[own] + Val(deposit[op][own]) <= Wealth
           /\ \A op \in Operators : Total(deposit[op]) \in Nat /\ Total(deposit[op]) <= Wealth
<1>1. balance \in [Accounts -> U64] /\ deposit \in [Operators -> [Accounts -> U64OrNone]]
  BY ZenonT(60) DEF TypeOK
<1>2. /\ SumFunction(balance) \in Nat /\ Deposited(deposit) \in Nat
      /\ Wealth = SumFunction(balance) + Deposited(deposit)
  BY <1>1, BalancesType, DepositsType, WealthParts
<1>3. \A op \in Operators : Total(deposit[op]) \in Nat /\ Total(deposit[op]) <= Deposited(deposit)
  BY <1>1, DepositsType, ZenonT(60)
<1>4. ASSUME NEW op \in Operators, NEW own \in Accounts
      PROVE  /\ balance[own] \in Nat /\ Val(deposit[op][own]) \in Nat
             /\ balance[own] + Val(deposit[op][own]) <= Wealth
  <2>1. balance[own] \in Nat /\ balance[own] <= SumFunction(balance)
    BY <1>1, BalancesType, ZenonT(60)
  <2>2. deposit[op] \in [Accounts -> U64OrNone]
    BY <1>1, ZenonT(60)
  <2>3. Val(deposit[op][own]) \in Nat /\ Val(deposit[op][own]) <= Total(deposit[op])
    BY <2>2, TotalType, ZenonT(60)
  <2> QED BY <1>2, <1>3, <2>1, <2>3
<1>5. \A op \in Operators : Total(deposit[op]) \in Nat /\ Total(deposit[op]) <= Wealth
  BY <1>2, <1>3
<1> QED BY <1>2, <1>4, <1>5

\* Stakes that deposits back are a part of all tokens.
LEMMA StakesInWealth ==
    ASSUME TypeOK, NEW op \in Operators, NEW stakes \in [Accounts -> U64OrNone],
           \A own \in Accounts : Val(stakes[own]) <= Val(deposit[op][own])
    PROVE  Total(stakes) <= Wealth
<1>1. deposit[op] \in [Accounts -> U64OrNone]
  BY ZenonT(60) DEF TypeOK
<1>2. \A own \in Accounts : /\ Vals(stakes)[own] \in Int /\ Vals(deposit[op])[own] \in Int
                            /\ Vals(stakes)[own] <= Vals(deposit[op])[own]
  BY <1>1, TotalType
<1>3. Total(stakes) <= Total(deposit[op])
  BY <1>1, <1>2, StakingAssumption, SumMonotone, TotalType
<1>4. Total(stakes) \in Nat /\ Total(deposit[op]) \in Nat /\ Wealth \in Nat
      /\ Total(deposit[op]) <= Wealth
  BY <1>1, TotalType, WealthType
<1> QED BY <1>3, <1>4

\* A command moves tokens between a balance and a deposit.
LEMMA TokensMove ==
    ASSUME TypeOK, NEW op \in Operators, NEW own \in Accounts,
           balance' \in [Accounts -> U64],
           \A o \in Accounts \ {own} : balance'[o] = balance[o],
           deposit' \in [Operators -> [Accounts -> U64OrNone]],
           \A o \in Operators \ {op} : deposit'[o] = deposit[o],
           \A o \in Accounts \ {own} : deposit'[op][o] = deposit[op][o],
           balance'[own] + Val(deposit'[op][own]) = balance[own] + Val(deposit[op][own])
    PROVE  Wealth' = Wealth
<1>1. balance \in [Accounts -> U64] /\ deposit \in [Operators -> [Accounts -> U64OrNone]]
  BY ZenonT(60) DEF TypeOK
<1>2. SumFunction(balance') = SumFunction(balance) + (balance'[own] - balance[own])
  BY <1>1, BalanceChange, ZenonT(60)
<1>3. Deposited(deposit') = Deposited(deposit) + (Val(deposit'[op][own]) - Val(deposit[op][own]))
  BY <1>1, DepositChange, ZenonT(60)
<1>4. Wealth' = SumFunction(balance') + Deposited(deposit')
  BY ZenonT(60) DEF Wealth, Deposited, Deposits, Total, Vals
<1>5. /\ SumFunction(balance) \in Nat /\ Deposited(deposit) \in Nat
      /\ balance[own] \in Nat /\ Val(deposit[op][own]) \in Nat
  BY WealthType, ZenonT(60)
<1>6. balance'[own] \in Nat /\ Val(deposit'[op][own]) \in Nat
  BY ValType, U64Ops, ZenonT(60)
<1> QED BY <1>2, <1>3, <1>4, <1>5, <1>6, WealthParts

\* The same for a command that sets both.
LEMMA TokensSet ==
    ASSUME TypeOK, NEW op \in Operators, NEW own \in Accounts, NEW b \in U64, NEW d \in U64OrNone,
           b + Val(d) = balance[own] + Val(deposit[op][own]),
           balance' = [balance EXCEPT ![own] = b],
           deposit' = [deposit EXCEPT ![op] = [deposit[op] EXCEPT ![own] = d]]
    PROVE  Wealth' = Wealth
<1>1. balance \in [Accounts -> U64] /\ deposit \in [Operators -> [Accounts -> U64OrNone]]
  BY ZenonT(60) DEF TypeOK
<1>2. balance' \in [Accounts -> U64] /\ \A o \in Accounts \ {own} : balance'[o] = balance[o]
  BY <1>1, ZenonT(60)
<1>3. /\ deposit' \in [Operators -> [Accounts -> U64OrNone]]
      /\ \A o \in Operators \ {op} : deposit'[o] = deposit[o]
      /\ \A o \in Accounts \ {own} : deposit'[op][o] = deposit[op][o]
  BY <1>1, ZenonT(60)
<1>4. balance'[own] + Val(deposit'[op][own]) = balance[own] + Val(deposit[op][own])
  BY <1>1, ZenonT(60)
<1> QED BY <1>2, <1>3, <1>4, TokensMove, ZenonT(60)

\* create_deposit, top_up_deposit and withdraw_deposit conserve the tokens.
LEMMA CommandConserves ==
    ASSUME IInv, SupplyFits, NEW op \in Operators, NEW own \in Accounts, DepositCommand(own, op)
    PROVE  UNCHANGED <<balance, deposit>> \/ Wealth' = Wealth
<1> DEFINE dep == deposit[op][own]
           bal == balance[own]
<1>1. TypeOK
  BY ZenonT(60) DEF IInv
<1>2. bal \in U64 /\ bal \in Nat /\ dep \in U64OrNone /\ Val(dep) \in Nat /\ Val(dep) \in U64
  BY <1>1, ValType, U64Ops, ZenonT(60) DEF TypeOK
<1>3. bal + Val(dep) <= MaxU64
  <2>1. bal + Val(dep) <= Wealth /\ Wealth \in Nat
    BY <1>1, WealthType
  <2> HIDE DEF bal, dep
  <2> QED BY <1>2, <2>1, U64Assumption DEF SupplyFits
<1>4. ASSUME NEW amount \in U64, bal >= amount
      PROVE  /\ bal - amount \in U64
             /\ saturating_add(Val(dep), amount) = Val(dep) + amount
             /\ saturating_add(Val(dep), amount) \in U64
  <2> HIDE DEF bal, dep
  <2> QED BY <1>2, <1>3, <1>4, U64Assumption DEF U64, saturating_add, saturate
<1>5. \A amount \in Amounts : amount \in U64 /\ amount \in Nat /\ Val(amount) = amount
  <2>1. \A amount \in Amounts : amount \in U64
    BY StakingAssumption, ZenonT(60)
  <2> QED BY <2>1, U64Ops, U64NotNone, ZenonT(60) DEF Val
<1>6. ASSUME NEW amount \in Amounts, NEW flag \in BOOLEAN, CreateDeposit(own, op, amount, flag)
      PROVE  UNCHANGED <<balance, deposit>> \/ Wealth' = Wealth
  <2>1. \/ UNCHANGED <<balance, deposit>>
        \/ /\ dep = None /\ bal >= amount
           /\ balance' = [balance EXCEPT ![own] = bal - amount]
           /\ deposit' = [deposit EXCEPT ![op] = [deposit[op] EXCEPT ![own] = amount]]
    BY <1>6 DEF CreateDeposit, Abort, ledger
  <2>2. CASE /\ dep = None /\ bal >= amount
             /\ balance' = [balance EXCEPT ![own] = bal - amount]
             /\ deposit' = [deposit EXCEPT ![op] = [deposit[op] EXCEPT ![own] = amount]]
    <3>1. bal - amount \in U64 /\ Val(dep) = 0 /\ amount \in U64OrNone
      BY <1>4, <1>5, <2>2 DEF Val, U64OrNone
    <3>2. (bal - amount) + Val(amount) = bal + Val(dep)
      <4> HIDE DEF bal, dep
      <4> QED BY <1>2, <1>5, <3>1
    <3> QED BY <1>1, <2>2, <3>1, <3>2, TokensSet, ZenonT(60)
  <2> QED BY <2>1, <2>2, ZenonT(60)
<1>7. ASSUME NEW amount \in Amounts, TopUpDeposit(own, op, amount)
      PROVE  UNCHANGED <<balance, deposit>> \/ Wealth' = Wealth
  <2> DEFINE sum == saturating_add(dep, amount)
  <2>1. \/ UNCHANGED <<balance, deposit>>
        \/ /\ dep # None /\ bal >= amount
           /\ balance' = [balance EXCEPT ![own] = bal - amount]
           /\ deposit' = [deposit EXCEPT ![op] = [deposit[op] EXCEPT ![own] = sum]]
    BY <1>7, ZenonT(60) DEF TopUpDeposit, Abort, ledger
  <2>2. CASE /\ dep # None /\ bal >= amount
             /\ balance' = [balance EXCEPT ![own] = bal - amount]
             /\ deposit' = [deposit EXCEPT ![op] = [deposit[op] EXCEPT ![own] = sum]]
    <3>1. Val(dep) = dep
      BY <2>2 DEF Val
    <3>2. bal - amount \in U64 /\ sum = Val(dep) + amount /\ sum \in U64
      BY <1>4, <1>5, <2>2, <3>1
    <3> HIDE DEF sum
    <3>3. sum \in U64OrNone /\ Val(sum) = sum
      BY <3>2, U64NotNone DEF Val, U64OrNone
    <3>4. (bal - amount) + Val(sum) = bal + Val(dep)
      <4> HIDE DEF bal, dep
      <4> QED BY <1>2, <1>5, <3>2, <3>3
    <3> QED BY <1>1, <2>2, <3>2, <3>3, <3>4, TokensSet, ZenonT(60)
  <2> QED BY <2>1, <2>2, ZenonT(60)
<1>8. ASSUME NEW amount \in Amounts, WithdrawDeposit(own, op, amount)
      PROVE  UNCHANGED <<balance, deposit>> \/ Wealth' = Wealth
  <2> DEFINE withdrawn == min(amount, saturating_sub(dep, Locked(op, own)))
             left == saturating_sub(dep, withdrawn)
             d == IF left = 0 THEN None ELSE left
             b == saturating_add(bal, dep - left)
  <2>1. \/ UNCHANGED <<balance, deposit>>
        \/ /\ dep # None
           /\ balance' = [balance EXCEPT ![own] = b]
           /\ deposit' = [deposit EXCEPT ![op] = [deposit[op] EXCEPT ![own] = d]]
    BY <1>8, ZenonT(60) DEF WithdrawDeposit, Abort, ledger
  <2>2. CASE /\ dep # None
             /\ balance' = [balance EXCEPT ![own] = b]
             /\ deposit' = [deposit EXCEPT ![op] = [deposit[op] EXCEPT ![own] = d]]
    <3>1. Val(dep) = dep /\ dep \in U64 /\ dep \in Nat
      BY <1>2, <2>2 DEF Val
    <3>2. vp \in [Operators -> PoolOrNone] /\ pvp \in [Operators -> PoolOrNone]
      BY <1>1, ZenonT(60) DEF TypeOK
    <3>3. Locked(op, own) \in U64
      BY <3>2, StakeType, ValType, U64Ops, ZenonT(60) DEF Locked
    <3> HIDE DEF dep, bal
    <3>4. withdrawn \in U64 /\ withdrawn \in Nat
      BY <1>5, <3>1, <3>3, U64Ops, ZenonT(60)
    <3> HIDE DEF withdrawn
    <3>5. left \in Nat /\ left <= dep /\ left \in U64
      BY <3>1, <3>4, U64Ops DEF saturating_sub
    <3> HIDE DEF left
    <3>6. d \in U64OrNone /\ Val(d) = left
      BY <3>5, U64NotNone, ZenonT(60) DEF U64OrNone, Val
    <3>7. b = bal + (dep - left) /\ b \in U64
      BY <1>2, <1>3, <3>1, <3>5, U64Assumption DEF saturating_add, saturate, U64
    <3> HIDE DEF d, b
    <3>8. b + Val(d) = bal + Val(dep)
      BY <1>2, <3>1, <3>5, <3>6, <3>7
    <3> QED BY <1>1, <2>2, <3>6, <3>7, <3>8, TokensSet, ZenonT(60) DEF bal, dep
  <2> QED BY <2>1, <2>2, ZenonT(60)
<1>9. ASSUME NEW flag \in BOOLEAN, SetDepositSettings(own, op, flag)
      PROVE  UNCHANGED <<balance, deposit>>
  BY <1>9, ZenonT(60) DEF SetDepositSettings, Abort, ledger
<1>10. ASSUME NEW amount \in Amounts, StakeDeposit(own, op, amount)
       PROVE  UNCHANGED <<balance, deposit>>
  BY <1>10, ZenonT(60) DEF StakeDeposit, Abort, ledger
<1>11. ASSUME NEW amount \in Amounts, UnstakeDeposit(own, op, amount)
       PROVE  UNCHANGED <<balance, deposit>>
  BY <1>11, ZenonT(60) DEF UnstakeDeposit, Abort, ledger
<1> QED BY <1>6, <1>7, <1>8, <1>9, <1>10, <1>11, ZenonT(60) DEF DepositCommand

-----------------------------------------------------------------------------

\* A cast to u64 loses, and never adds.
LEMMA CastLess == \A n \in Nat : as_u64(n) \in Nat /\ as_u64(n) <= n
  BY U64Assumption DEF as_u64

\* The reward of a pool is at most its issuance, however many blocks its operator proposed.
LEMMA PoolRewardBound ==
    ASSUME NEW e \in 0 .. MaxEpoch, NEW power \in Nat, NEW actual \in Nat, NEW expected \in Nat
    PROVE  /\ (power * IssuanceRate[e]) \div IssuanceDenom \in Nat
           /\ pool_reward(e, power, actual, expected) \in Nat
           /\ pool_reward(e, power, actual, expected) <= (power * IssuanceRate[e]) \div IssuanceDenom
<1> DEFINE num == power * IssuanceRate[e]
           d == IssuanceDenom
<1>1. num \in Nat /\ d \in Nat /\ d > 0
  <2>1. IssuanceRate[e] \in Nat
    BY IssuanceAssumption
  <2> QED BY <2>1, IssuanceAssumption
<1>2. pool_reward(e, power, actual, expected) =
          IF expected = 0 THEN 0
          ELSE IF actual > expected THEN as_u64(num \div d)
          ELSE as_u64((num * actual) \div (d * expected))
  BY ZenonT(60) DEF pool_reward, issuance
<1> HIDE DEF num, d
<1>3. num \div d \in Nat
  BY <1>1, Quotient
<1>4. CASE expected = 0
  <2>1. 0 <= num \div d
    BY <1>3
  <2> QED BY <1>2, <1>3, <1>4, <2>1 DEF num, d
<1>5. CASE expected # 0 /\ actual > expected
  <2>1. as_u64(num \div d) \in Nat /\ as_u64(num \div d) <= num \div d
    BY <1>3, CastLess, ZenonT(60)
  <2> QED BY <1>2, <1>3, <1>5, <2>1, ZenonT(60) DEF num, d
<1>6. CASE expected # 0 /\ ~ (actual > expected)
  <2> DEFINE q == (num * actual) \div (d * expected)
  <2>1. num * actual \in Nat /\ d * expected \in Nat /\ d * expected > 0 /\ q <= num \div d
    <3>1. expected > 0 /\ actual <= expected
      BY <1>6
    <3> QED BY <1>1, <3>1, QuotientOfPart, ZenonT(60)
  <2>2. q \in Nat
    <3> DEFINE x == num * actual
               y == d * expected
    <3> HIDE DEF x, y
    <3>1. x \div y \in Nat
      BY <2>1, Quotient, ZenonT(60) DEF x, y
    <3> QED BY <3>1, ZenonT(60) DEF x, y
  <2>3. pool_reward(e, power, actual, expected) = as_u64(q)
    BY <1>2, <1>6, ZenonT(60)
  <2> HIDE DEF q
  <2>4. as_u64(q) \in Nat /\ as_u64(q) <= q
    BY <2>2, CastLess, ZenonT(60)
  <2>5. as_u64(q) <= num \div d
    BY <1>3, <2>1, <2>2, <2>4
  <2> QED BY <1>3, <2>3, <2>4, <2>5, ZenonT(60) DEF num, d
<1> QED BY <1>4, <1>5, <1>6

\* The share of a stake in the reward of its pool, and the commission on it.
Gross(reward, stake, total) == IF total = 0 THEN 0 ELSE (reward * stake) \div total

Fee(reward, rate, stake, total) ==
    IF total = 0 THEN 0 ELSE (rate * reward * stake) \div (100 * total)

\* A commission is a part of the share; the owner gets at most the rest of it.
LEMMA RewardParts ==
    ASSUME NEW reward \in Nat, NEW rate \in 0 .. 100, NEW stake \in Nat, NEW total \in Nat
    PROVE  /\ Gross(reward, stake, total) \in Nat /\ Fee(reward, rate, stake, total) \in Nat
           /\ Fee(reward, rate, stake, total) <= Gross(reward, stake, total)
           /\ total * Gross(reward, stake, total) <= reward * stake
           /\ stake_reward(reward, rate, stake, total).reward \in Nat
           /\ stake_reward(reward, rate, stake, total).reward
                  <= Gross(reward, stake, total) - Fee(reward, rate, stake, total)
           /\ stake_reward(reward, rate, stake, total).commission \in Nat
           /\ stake_reward(reward, rate, stake, total).commission <= Fee(reward, rate, stake, total)
<1> DEFINE n == reward * stake
<1>0. n \in Nat
  OBVIOUS
<1>1. CASE total = 0
  <2>1. /\ Gross(reward, stake, total) = 0 /\ Fee(reward, rate, stake, total) = 0
        /\ stake_reward(reward, rate, stake, total).reward = 0
        /\ stake_reward(reward, rate, stake, total).commission = 0
    BY <1>1, ZenonT(60) DEF Gross, Fee, stake_reward
  <2>2. total * 0 <= n
    BY <1>0, <1>1
  <2> QED BY <2>1, <2>2
<1>2. CASE total # 0
  <2> DEFINE g == n \div total
             f == (rate * reward * stake) \div (100 * total)
  <2>1. g \in Nat /\ total * g <= n
    BY <1>0, <1>2, Quotient
  <2>2. /\ rate * reward * stake = n * rate /\ 100 * total = total * 100
        /\ n * rate \in Nat /\ total * 100 \in Nat /\ total * 100 > 0
    BY <1>2
  <2>3. (n * rate) \div (total * 100) <= g
    <3>1. 100 \in Nat /\ 100 > 0 /\ rate \in Nat /\ rate <= 100 /\ total > 0
      BY <1>2
    <3> HIDE DEF n
    <3> QED BY <1>0, <3>1, QuotientOfPart, ZenonT(60)
  <2>4. (n * rate) \div (total * 100) \in Nat
    <3> DEFINE x == n * rate
               y == total * 100
    <3> HIDE DEF x, y
    <3>1. x \div y \in Nat
      BY <2>2, Quotient DEF x, y
    <3> QED BY <3>1, ZenonT(60) DEF x, y
  <2>5. f \in Nat /\ f <= g
    BY <2>2, <2>3, <2>4, ZenonT(60)
  <2>6. stake_reward(reward, rate, stake, total)
            = [reward |-> as_u64(saturating_sub(g, f)), commission |-> as_u64(f)]
    BY <1>2, ZenonT(60) DEF stake_reward
  <2>7. Gross(reward, stake, total) = g /\ Fee(reward, rate, stake, total) = f
    BY <1>2, ZenonT(60) DEF Gross, Fee
  <2> HIDE DEF g, f
  <2>8. saturating_sub(g, f) = g - f /\ g - f \in Nat
    BY <2>1, <2>5 DEF saturating_sub
  <2>9. /\ as_u64(g - f) \in Nat /\ as_u64(g - f) <= g - f
        /\ as_u64(f) \in Nat /\ as_u64(f) <= f
    BY <2>5, <2>8, CastLess
  <2> QED BY <2>1, <2>5, <2>6, <2>7, <2>8, <2>9
<1> QED BY <1>1, <1>2, ZenonT(60)

\* How a reward R is shared among S: g are the shares for the stakes s, rounded down, f the
\* commissions on them, and pay what is paid, to op with the commissions of the others.
Sharing(S, op, R, s, t, g, f, pay) ==
    /\ IsFiniteSet(S) /\ op \in S /\ R \in Nat
    /\ \A x \in S : s[x] \in Nat
    /\ t = SumFunctionOnSet(s, S)
    /\ \A x \in S : g[x] \in Nat /\ t * g[x] <= R * s[x] /\ (t = 0 => g[x] = 0)
    /\ \A x \in S : f[x] \in Nat /\ f[x] <= g[x]
    /\ \A x \in S : pay[x] \in Nat
    /\ pay[op] <= g[op] + SumFunctionOnSet(f, S \ {op})
    /\ \A x \in S \ {op} : pay[x] <= g[x] - f[x]

\* The payments add up to no more than the reward.
LEMMA SharesBound ==
    ASSUME NEW S, NEW op, NEW R, NEW s, NEW t, NEW g, NEW f, NEW pay,
           Sharing(S, op, R, s, t, g, f, pay)
    PROVE  SumFunctionOnSet(pay, S) <= R
<1> USE DEF Sharing
<1> DEFINE O == S \ {op}
           rest == [x \in O |-> g[x] - f[x]]
<1>1. IsFiniteSet(O)
  BY FS_Subset, ZenonT(60)
<1>2. \A x \in O : rest[x] \in Int /\ g[x] \in Int /\ f[x] \in Int /\ pay[x] \in Int
                   /\ g[x] = rest[x] + f[x] /\ pay[x] <= rest[x]
  OBVIOUS
<1> HIDE DEF rest
<1>3. SumFunctionOnSet(g, O) = SumFunctionOnSet(rest, O) + SumFunctionOnSet(f, O)
  <2> HIDE DEF O
  <2> QED BY <1>1, <1>2, SumPlus, ZenonT(60)
<1>4. SumFunctionOnSet(pay, O) <= SumFunctionOnSet(rest, O)
  <2> HIDE DEF O
  <2> QED BY <1>1, <1>2, SumMonotone
<1>5. /\ SumFunctionOnSet(g, S) = g[op] + SumFunctionOnSet(g, O)
      /\ SumFunctionOnSet(pay, S) = pay[op] + SumFunctionOnSet(pay, O)
  BY SumRemove
<1>6. /\ SumFunctionOnSet(pay, O) \in Int /\ SumFunctionOnSet(rest, O) \in Int
      /\ SumFunctionOnSet(f, O) \in Int /\ SumFunctionOnSet(g, O) \in Int
      /\ SumFunctionOnSet(g, S) \in Nat /\ SumFunctionOnSet(pay, S) \in Int
      /\ g[op] \in Int /\ pay[op] \in Int /\ t \in Nat
  <2>1. /\ SumFunctionOnSet(g, S) \in Nat /\ SumFunctionOnSet(pay, S) \in Int
        /\ g[op] \in Int /\ pay[op] \in Int /\ t \in Nat
    BY SumNat, SumInt
  <2> HIDE DEF O
  <2>2. /\ SumFunctionOnSet(pay, O) \in Int /\ SumFunctionOnSet(rest, O) \in Int
        /\ SumFunctionOnSet(f, O) \in Int /\ SumFunctionOnSet(g, O) \in Int
    BY <1>1, <1>2, SumInt, ZenonT(60)
  <2> QED BY <2>1, <2>2, ZenonT(60)
<1>7. SumFunctionOnSet(pay, S) <= SumFunctionOnSet(g, S)
  BY <1>3, <1>4, <1>5, <1>6
<1>8. SumFunctionOnSet(g, S) <= R
  <2> DEFINE tg == [x \in S |-> t * g[x]]
             rs == [x \in S |-> R * s[x]]
  <2>1. \A x \in S : /\ tg[x] = t * g[x] /\ rs[x] = R * s[x] /\ tg[x] <= rs[x]
                     /\ g[x] \in Int /\ s[x] \in Int
    OBVIOUS
  <2>2. \A x \in S : tg[x] \in Int /\ rs[x] \in Int
    <3> TAKE x \in S
    <3>1. t * g[x] \in Int /\ R * s[x] \in Int
      BY <1>6, <2>1
    <3> QED BY <2>1, <3>1
  <2> HIDE DEF tg, rs
  <2>3. SumFunctionOnSet(tg, S) = t * SumFunctionOnSet(g, S)
    BY <1>6, <2>1, SumScale
  <2>4. SumFunctionOnSet(rs, S) = R * t
    BY <2>1, SumScale
  <2>5. SumFunctionOnSet(tg, S) <= SumFunctionOnSet(rs, S)
    BY <2>1, <2>2, SumMonotone
  <2>6. t * SumFunctionOnSet(g, S) <= R * t
    BY <2>3, <2>4, <2>5
  <2>7. CASE t = 0
    <3>1. \A x \in S : g[x] = 0 * s[x]
      BY <2>1, <2>7
    <3>2. SumFunctionOnSet(g, S) = 0 * SumFunctionOnSet(s, S)
      BY <2>1, <3>1, SumScale
    <3>3. SumFunctionOnSet(s, S) = 0
      BY <2>7, ZenonT(60)
    <3>4. SumFunctionOnSet(g, S) = 0
      BY <3>2, <3>3
    <3> QED BY <3>4
  <2>8. CASE t # 0
    <3> DEFINE G == SumFunctionOnSet(g, S)
    <3>1. G \in Nat /\ t * G <= R * t
      BY <1>6, <2>6, ZenonT(60)
    <3> HIDE DEF G
    <3>2. G <= R
      <4> SUFFICES ASSUME G >= R + 1 PROVE FALSE
        BY <3>1
      <4>1. t * (R + 1) <= t * G
        BY <1>6, <3>1
      <4>2. t * (R + 1) = R * t + t /\ R * t \in Nat /\ t * G \in Nat
        BY <1>6, <3>1
      <4> QED BY <1>6, <2>8, <3>1, <4>1, <4>2
    <3> QED BY <3>2, ZenonT(60) DEF G
  <2> QED BY <2>7, <2>8
<1> QED BY <1>6, <1>7, <1>8

\* What is paid to the owners of a pool of the validator set is at most the issuance for its
\* power: the reward is divided by the sum of the stakes, which no saturation has changed.
LEMMA PaymentsOfPool ==
    ASSUME IInv, SupplyFits, NEW blocks \in [Keys(vp) -> BlockCounts],
           NEW op \in Operators, vp[op] # None
    PROVE  /\ (vp[op].power * IssuanceRate[epoch]) \div IssuanceDenom \in Nat
           /\ Total([own \in Accounts |-> Payment(op, own, blocks)])
                  <= (vp[op].power * IssuanceRate[epoch]) \div IssuanceDenom
<1> DEFINE R == RewardOfPool(op, blocks)
           stakes == vp[op].stakes
           rate == vp[op].commission_rate
           t == Total(stakes)
           n == (vp[op].power * IssuanceRate[epoch]) \div IssuanceDenom
           pays == [own \in Accounts |-> Payment(op, own, blocks)]
           s == Vals(stakes)
           pay == Vals(pays)
<1>1. TypeOK /\ StakesBacked
  BY ZenonT(60) DEF IInv
<1>2. rate \in 0 .. 100 /\ vp[op].power \in U64 /\ stakes \in [Accounts -> U64OrNone]
  BY <1>1, ZenonT(60) DEF TypeOK, PoolOrNone, Pool
<1>3. /\ n \in Nat /\ R \in Nat /\ R <= n
  <2>1. op \in Keys(vp) /\ Keys(vp) \subseteq Accounts
    BY <1>1, StakingAssumption, ZenonT(60) DEF Keys, TypeOK
  <2>2. IsFiniteSet(Keys(vp))
    BY <2>1, StakingAssumption, FS_Subset, ZenonT(60)
  <2>3. Cardinality(Keys(vp)) \in Nat /\ Cardinality(Keys(vp)) # 0
    BY <2>1, <2>2, FS_CardinalityType, FS_EmptySet
  <2> DEFINE k == Cardinality(Keys(vp))
  <2> HIDE DEF k
  <2>4. BlocksPerEpoch \div k \in Nat
    BY <2>3, StakingAssumption, Quotient DEF k
  <2>5. blocks[op] \in Nat /\ epoch \in 0 .. MaxEpoch
    BY <1>1, <2>1, StakingAssumption, ZenonT(60) DEF TypeOK
  <2>6. vp[op].power \in Nat
    BY <1>2, U64Ops, ZenonT(60)
  <2> QED BY <2>4, <2>5, <2>6, PoolRewardBound, ZenonT(60) DEF RewardOfPool, k
<1>4. /\ t \in Nat /\ t = SumFunctionOnSet(s, Accounts)
      /\ \A own \in Accounts : s[own] \in Nat /\ s[own] = Val(stakes[own])
  BY <1>2, TotalType, ZenonT(60)
<1>5. TotalStakes(vp[op]) = t
  <2>1. \A own \in Accounts : Val(stakes[own]) <= Val(deposit[op][own])
    BY <1>1, ZenonT(60) DEF StakesBacked, stake_of_pool
  <2>2. t <= Wealth /\ Wealth \in Nat
    BY <1>1, <1>2, <2>1, StakesInWealth, WealthType
  <2>3. TotalStakes(vp[op]) = saturate(t)
    BY TotalIsSum, ZenonT(60) DEF TotalStakes
  <2> HIDE DEF t
  <2> QED BY <1>4, <2>2, <2>3, U64Assumption DEF saturate, SupplyFits, U64
<1>6. \A own \in Accounts : Payment(op, own, blocks) \in U64OrNone
  BY <1>1, PaymentType, ZenonT(60)
<1>7. pays \in [Accounts -> U64OrNone]
  BY <1>6, ZenonT(60)
<1>8. /\ Total(pays) = SumFunctionOnSet(pay, Accounts)
      /\ \A own \in Accounts : pay[own] \in Nat /\ pay[own] = Val(Payment(op, own, blocks))
  <2>1. \A own \in Accounts : pays[own] = Payment(op, own, blocks)
    BY ZenonT(60)
  <2> HIDE DEF pays
  <2> QED BY <1>7, <2>1, TotalType
<1> HIDE DEF R, stakes, rate, t, n, pays, s, pay
<1> DEFINE g == [own \in Accounts |-> Gross(R, s[own], t)]
           f == [own \in Accounts |-> Fee(R, rate, s[own], t)]
           c == [own \in Accounts \ {op} |-> stake_reward(R, rate, Val(stakes[own]), t).commission]
<1>gf. \A own \in Accounts : g[own] = Gross(R, s[own], t) /\ f[own] = Fee(R, rate, s[own], t)
  BY ZenonT(60)
<1>c. /\ \A own \in Accounts \ {op} : c[own] = stake_reward(R, rate, Val(stakes[own]), t).commission
      /\ SumFunction(c) = SumFunctionOnSet(c, Accounts \ {op})
  BY ZenonT(60) DEF SumFunction
<1>tc. TotalCommission(op, R) = saturate(SumFunction(c))
  BY <1>5, ZenonT(60) DEF TotalCommission, rate, stakes
<1> HIDE DEF g, f, c
<1>9. ASSUME NEW own \in Accounts, NEW r \in 0 .. 100
      PROVE  /\ Gross(R, s[own], t) \in Nat /\ Fee(R, r, s[own], t) \in Nat
             /\ Fee(R, r, s[own], t) <= Gross(R, s[own], t)
             /\ t * Gross(R, s[own], t) <= R * s[own]
             /\ stake_reward(R, r, Val(stakes[own]), t).reward \in Nat
             /\ stake_reward(R, r, Val(stakes[own]), t).reward
                    <= Gross(R, s[own], t) - Fee(R, r, s[own], t)
             /\ stake_reward(R, r, Val(stakes[own]), t).commission \in Nat
             /\ stake_reward(R, r, Val(stakes[own]), t).commission <= Fee(R, r, s[own], t)
  BY <1>3, <1>4, RewardParts, ZenonT(60)
<1>10. \A own \in Accounts :
           /\ g[own] \in Nat /\ t * g[own] <= R * s[own] /\ (t = 0 => g[own] = 0)
           /\ f[own] \in Nat /\ f[own] <= g[own]
  <2> TAKE own \in Accounts
  <2>1. g[own] = Gross(R, s[own], t) /\ f[own] = Fee(R, rate, s[own], t)
    BY <1>gf, ZenonT(60)
  <2>2. t = 0 => g[own] = 0
    BY <2>1, ZenonT(60) DEF Gross
  <2> QED BY <1>2, <1>9, <2>1, <2>2, ZenonT(60) DEF rate
<1>11. \A own \in Accounts \ {op} : c[own] \in Int /\ f[own] \in Int /\ c[own] <= f[own]
  <2> TAKE own \in Accounts \ {op}
  <2>1. f[own] = Fee(R, rate, s[own], t) /\ c[own] = stake_reward(R, rate, Val(stakes[own]), t).commission
    BY <1>gf, <1>c, ZenonT(60)
  <2>2. own \in Accounts /\ rate \in 0 .. 100
    BY <1>2, ZenonT(60) DEF rate
  <2>3. /\ Fee(R, rate, s[own], t) \in Nat
        /\ stake_reward(R, rate, Val(stakes[own]), t).commission \in Nat
        /\ stake_reward(R, rate, Val(stakes[own]), t).commission <= Fee(R, rate, s[own], t)
    BY <1>9, <2>2, ZenonT(60)
  <2> QED BY <2>1, <2>3
<1>12. IsFiniteSet(Accounts) /\ IsFiniteSet(Accounts \ {op}) /\ op \in Accounts
  BY StakingAssumption, FS_Subset, ZenonT(60)
<1>13. /\ TotalCommission(op, R) = saturate(SumFunctionOnSet(c, Accounts \ {op}))
       /\ SumFunctionOnSet(c, Accounts \ {op}) \in Nat
       /\ SumFunctionOnSet(f, Accounts \ {op}) \in Int
       /\ SumFunctionOnSet(c, Accounts \ {op}) <= SumFunctionOnSet(f, Accounts \ {op})
  <2>3. \A own \in Accounts \ {op} : c[own] \in Nat
    BY <1>2, <1>9, <1>c, ZenonT(60) DEF rate
  <2> DEFINE O == Accounts \ {op}
  <2> HIDE DEF O
  <2>4. \A own \in O : c[own] \in Int /\ f[own] \in Int /\ c[own] <= f[own] /\ c[own] \in Nat
    BY <1>11, <2>3, ZenonT(60) DEF O
  <2>5. IsFiniteSet(O)
    BY <1>12, ZenonT(60) DEF O
  <2>6. SumFunctionOnSet(c, O) \in Nat /\ SumFunctionOnSet(f, O) \in Int
        /\ SumFunctionOnSet(c, O) <= SumFunctionOnSet(f, O)
    BY <2>4, <2>5, SumNat, SumInt, SumMonotone
  <2> QED BY <1>c, <1>tc, <2>6, ZenonT(60) DEF O
<1>14. pay[op] <= g[op] + SumFunctionOnSet(f, Accounts \ {op})
  <2> DEFINE p == stake_reward(R, 0, Val(stakes[op]), t).reward
             C == SumFunctionOnSet(c, Accounts \ {op})
             F == SumFunctionOnSet(f, Accounts \ {op})
  <2>1. p \in Nat /\ p <= g[op]
    <3>1. 0 \in 0 .. 100
      OBVIOUS
    <3>2. g[op] = Gross(R, s[op], t)
      BY <1>12, <1>gf, ZenonT(60)
    <3>3. /\ Gross(R, s[op], t) \in Nat /\ Fee(R, 0, s[op], t) \in Nat /\ p \in Nat
          /\ p <= Gross(R, s[op], t) - Fee(R, 0, s[op], t)
      BY <1>9, <1>12, <3>1, ZenonT(60)
    <3> HIDE DEF p
    <3> QED BY <3>2, <3>3
  <2>2. \/ Payment(op, op, blocks) = None
        \/ Payment(op, op, blocks) = saturating_add(p, TotalCommission(op, R))
    BY <1>5, ZenonT(60) DEF Payment, R, stakes
  <2>3. g[op] \in Nat
    BY <1>10, <1>12, ZenonT(60)
  <2>4. pay[op] = 0 \/ pay[op] = saturating_add(p, saturate(C))
    <3>1. pay[op] = Val(Payment(op, op, blocks)) /\ Payment(op, op, blocks) \in U64OrNone
      BY <1>6, <1>8, <1>12, ZenonT(60)
    <3> QED BY <1>13, <2>2, <3>1, ZenonT(60) DEF Val
  <2>5. C \in Nat /\ F \in Int /\ C <= F
    BY <1>13, ZenonT(60)
  <2> HIDE DEF p, C, F
  <2>6. pay[op] <= g[op] + F
    BY <2>1, <2>3, <2>4, <2>5, U64Assumption DEF saturating_add, saturate, U64
  <2> QED BY <2>6, ZenonT(60) DEF F
<1>15. \A own \in Accounts \ {op} : pay[own] <= g[own] - f[own]
  <2> TAKE own \in Accounts \ {op}
  <2> DEFINE p == stake_reward(R, rate, Val(stakes[own]), t).reward
  <2>1. g[own] = Gross(R, s[own], t) /\ f[own] = Fee(R, rate, s[own], t)
    BY <1>gf, ZenonT(60)
  <2>2. g[own] \in Nat /\ f[own] \in Nat /\ f[own] <= g[own]
    BY <1>10, ZenonT(60)
  <2>3. p \in Nat /\ p <= g[own] - f[own]
    BY <1>2, <1>9, <2>1, ZenonT(60) DEF rate
  <2>4. Payment(op, own, blocks) = None \/ Payment(op, own, blocks) = p
    BY <1>5, ZenonT(60) DEF Payment, R, rate, stakes
  <2>5. pay[own] = 0 \/ pay[own] = p
    BY <1>8, <2>4, ZenonT(60) DEF Val
  <2> HIDE DEF p
  <2> QED BY <2>2, <2>3, <2>5
<1>16. SumFunctionOnSet(pay, Accounts) <= R
  <2>1. /\ IsFiniteSet(Accounts) /\ op \in Accounts /\ R \in Nat
        /\ \A own \in Accounts : s[own] \in Nat
        /\ t = SumFunctionOnSet(s, Accounts)
        /\ \A own \in Accounts : pay[own] \in Nat
    BY <1>3, <1>4, <1>8, <1>12, ZenonT(60)
  <2>2. /\ \A own \in Accounts : g[own] \in Nat /\ t * g[own] <= R * s[own] /\ (t = 0 => g[own] = 0)
        /\ \A own \in Accounts : f[own] \in Nat /\ f[own] <= g[own]
    BY <1>10, ZenonT(60)
  <2>3. Sharing(Accounts, op, R, s, t, g, f, pay)
    BY <1>14, <1>15, <2>1, <2>2, ZenonT(60) DEF Sharing
  <2> QED BY <2>3, SharesBound, ZenonT(60)
<1>17. Total(pays) <= n
  <2>1. Total(pays) \in Nat
    BY <1>7, TotalType, ZenonT(60)
  <2> QED BY <1>3, <1>8, <1>16, <2>1
<1> QED BY <1>3, <1>17, ZenonT(60) DEF pays, n

\* A payment adds at most itself to a deposit.
LEMMA CreditBounds ==
    ASSUME TypeOK, NEW op \in Operators, NEW own \in Accounts, NEW p \in U64OrNone
    PROVE  /\ Val(deposit[op][own]) <= Val(Credited(op, own, p))
           /\ Val(Credited(op, own, p)) <= Val(deposit[op][own]) + Val(p)
<1> DEFINE v == Val(deposit[op][own])
<1>1. v \in U64 /\ v \in Nat /\ Val(p) \in U64 /\ Val(p) \in Nat
  BY ValType, U64Ops, ZenonT(60) DEF TypeOK
<1>2. CASE Credited(op, own, p) = deposit[op][own]
  <2> HIDE DEF v
  <2>1. Val(Credited(op, own, p)) = v
    BY <1>2, ZenonT(60) DEF v
  <2> QED BY <1>1, <2>1 DEF v
<1>3. CASE p # None /\ Credited(op, own, p) = saturating_add(v, p)
  <2>1. p = Val(p)
    BY <1>3, ZenonT(60) DEF Val
  <2>2. saturating_add(v, p) \in U64
    BY <1>1, <2>1, U64Ops, ZenonT(60)
  <2>3. Val(Credited(op, own, p)) = saturating_add(v, p)
    BY <1>3, <2>2, U64NotNone, ZenonT(60) DEF Val
  <2> HIDE DEF v
  <2>4. v <= saturating_add(v, p) /\ saturating_add(v, p) <= v + p
    BY <1>1, <2>1, U64Assumption DEF saturating_add, saturate, U64
  <2> QED BY <2>1, <2>3, <2>4, ZenonT(60) DEF v
<1> QED BY <1>2, <1>3, ZenonT(60) DEF Credited

\* The rewards of an epoch add at most its issuance to the tokens.
LEMMA RewardsAdd ==
    ASSUME IInv, IInv', SupplyFits, NEW blocks \in [Keys(vp) -> BlockCounts], RewardStakes(blocks)
    PROVE  Wealth' = Wealth \/ Wealth' - Wealth \in 1 .. FullIssuance
<1> DEFINE share(op) == (vp[op].power * IssuanceRate[epoch]) \div IssuanceDenom
           iss == [op \in Operators |-> IF vp[op] = None THEN 0 ELSE share(op)]
           full == [op \in Keys(vp) |-> share(op)]
           old == Deposits(deposit)
           new == Deposits(deposit')
           both == [op \in Operators |-> old[op] + iss[op]]
<1>1. TypeOK /\ TypeOK'
  BY ZenonT(60) DEF IInv
<1>2. /\ deposit \in [Operators -> [Accounts -> U64OrNone]]
      /\ deposit' \in [Operators -> [Accounts -> U64OrNone]]
  BY <1>1, ZenonT(60) DEF TypeOK
<1>3. IsFiniteSet(Operators)
  BY StakingAssumption, FS_Subset, ZenonT(60)
<1>4. /\ Keys(vp) \in SUBSET Operators
      /\ \A op \in Operators : op \in Keys(vp) <=> vp[op] # None
  BY <1>1, ZenonT(60) DEF TypeOK, Keys
<1>i. \A op \in Operators : iss[op] = IF vp[op] = None THEN 0 ELSE share(op)
  BY ZenonT(60)
<1>7. \A op \in Operators : both[op] = old[op] + iss[op]
  BY ZenonT(60)
<1> HIDE DEF share, iss, full, old, new, both
<1>5. ASSUME NEW op \in Operators
      PROVE  /\ Total(deposit[op]) <= Total(deposit'[op])
             /\ Total(deposit'[op]) <= Total(deposit[op]) + iss[op]
             /\ iss[op] \in Nat
  <2> DEFINE pays == [own \in Accounts |-> Payment(op, own, blocks)]
  <2>1. \A own \in Accounts : pays[own] = Payment(op, own, blocks) /\ pays[own] \in U64OrNone
    BY <1>1, PaymentType, ZenonT(60)
  <2>2. pays \in [Accounts -> U64OrNone]
    BY <2>1, ZenonT(60)
  <2>3. \A own \in Accounts : deposit'[op][own] = Credited(op, own, pays[own])
    BY ZenonT(60) DEF RewardStakes
  <2>4. iss[op] \in Nat /\ Total(pays) <= iss[op]
    <3>1. CASE vp[op] # None
      <4>1. iss[op] = share(op)
        BY <1>i, <3>1, ZenonT(60)
      <4> QED BY <3>1, <4>1, PaymentsOfPool, ZenonT(60) DEF share
    <3>2. CASE vp[op] = None
      <4>1. \A own \in Accounts : Payment(op, own, blocks) = None
        BY <3>2, ZenonT(60) DEF Payment
      <4>2. \A own \in Accounts : pays[own] = None
        BY <2>1, <4>1, ZenonT(60)
      <4>3. \A own \in Accounts : Vals(pays)[own] \in Int /\ Vals(pays)[own] = 0 * Vals(pays)[own]
        BY <4>2 DEF Vals, Val
      <4>4. iss[op] = 0
        BY <1>i, <3>2, ZenonT(60)
      <4> HIDE DEF pays
      <4>5. SumFunctionOnSet(Vals(pays), Accounts) = 0 * SumFunctionOnSet(Vals(pays), Accounts)
        BY <4>3, StakingAssumption, SumScale
      <4>6. Total(pays) \in Nat /\ Total(pays) = 0 * Total(pays)
        BY <2>2, <4>5, TotalType, ZenonT(60)
      <4>7. Total(pays) = 0
        BY <4>6
      <4> QED BY <4>4, <4>7
    <3> QED BY <3>1, <3>2, ZenonT(60)
  <2> HIDE DEF pays
  <2>5. deposit[op] \in [Accounts -> U64OrNone] /\ deposit'[op] \in [Accounts -> U64OrNone]
    BY <1>2, ZenonT(60)
  <2>6. \A own \in Accounts : /\ Val(deposit[op][own]) <= Val(deposit'[op][own])
                              /\ Val(deposit'[op][own]) <= Val(deposit[op][own]) + Val(pays[own])
    BY <1>1, <2>1, <2>3, CreditBounds, ZenonT(60)
  <2>7. /\ Total(deposit[op]) <= Total(deposit'[op])
        /\ Total(deposit'[op]) <= Total(deposit[op]) + Total(pays)
    BY <2>2, <2>5, <2>6, TotalGrows, ZenonT(60)
  <2>8. Total(deposit[op]) \in Nat /\ Total(deposit'[op]) \in Nat /\ Total(pays) \in Nat
    BY <2>2, <2>5, TotalType, ZenonT(60)
  <2> QED BY <2>4, <2>7, <2>8
<1>6. \A op \in Operators : /\ old[op] = Total(deposit[op]) /\ new[op] = Total(deposit'[op])
                            /\ old[op] \in Nat /\ new[op] \in Nat
  BY <1>2, DepositsType, ZenonT(60) DEF old, new
<1>8. Deposited(deposit) = SumFunctionOnSet(old, Operators) /\ Deposited(deposit') = SumFunctionOnSet(new, Operators)
  BY <1>2, DepositsType DEF old, new
<1>9. /\ full \in [Keys(vp) -> Nat]
      /\ \A op \in Keys(vp) : full[op] = iss[op]
      /\ \A op \in Operators \ Keys(vp) : iss[op] = 0
  <2>1. \A op \in Keys(vp) : iss[op] = share(op) /\ iss[op] \in Nat
    BY <1>4, <1>5, <1>i
  <2>2. full \in [Keys(vp) -> Nat] /\ \A op \in Keys(vp) : full[op] = share(op)
    BY <2>1, ZenonT(60) DEF full
  <2>3. \A op \in Operators \ Keys(vp) : iss[op] = 0
    BY <1>4, <1>i, ZenonT(60)
  <2> QED BY <2>1, <2>2, <2>3
<1>10. FullIssuance = SumFunctionOnSet(full, Keys(vp))
  BY ZenonT(60) DEF FullIssuance, SumFunction, full, share
<1>11. \A op \in Operators : /\ old[op] \in Int /\ new[op] \in Int /\ iss[op] \in Int /\ both[op] \in Int
                             /\ old[op] <= new[op] /\ new[op] <= both[op]
  BY <1>5, <1>6, <1>7
<1>12. SumFunctionOnSet(both, Operators)
           = SumFunctionOnSet(old, Operators) + SumFunctionOnSet(iss, Operators)
  BY <1>3, <1>7, <1>11, SumPlus, ZenonT(60)
<1>13. SumFunctionOnSet(old, Operators) <= SumFunctionOnSet(new, Operators)
  BY <1>3, <1>11, SumMonotone, ZenonT(60)
<1>14. SumFunctionOnSet(new, Operators) <= SumFunctionOnSet(both, Operators)
  BY <1>3, <1>11, SumMonotone
<1>15. SumFunctionOnSet(iss, Operators) = FullIssuance
  <2>1. SumFunctionOnSet(iss, Operators) = SumFunctionOnSet(iss, Keys(vp))
    BY <1>3, <1>4, <1>9, <1>11, SumSubset
  <2>2. IsFiniteSet(Keys(vp)) /\ \A op \in Keys(vp) : full[op] \in Int /\ iss[op] \in Int
    BY <1>3, <1>4, <1>9, <1>11, FS_Subset, ZenonT(60)
  <2>3. SumFunctionOnSet(full, Keys(vp)) = SumFunctionOnSet(iss, Keys(vp))
    BY <1>9, <2>2, SumSame, ZenonT(60)
  <2> QED BY <1>10, <2>1, <2>3
<1>16. SumFunctionOnSet(iss, Operators) \in Int
  BY <1>3, <1>11, SumInt, ZenonT(60)
<1>17. /\ Wealth = SumFunction(balance) + Deposited(deposit)
       /\ Wealth' = SumFunction(balance) + Deposited(deposit')
       /\ SumFunction(balance) \in Nat /\ Deposited(deposit) \in Nat /\ Deposited(deposit') \in Nat
  <2>1. balance' = balance
    BY ZenonT(60) DEF RewardStakes
  <2>2. Wealth' = SumFunction(balance') + Deposited(deposit')
    BY ZenonT(60) DEF Wealth, Deposited, Deposits, Total, Vals
  <2> QED BY <1>1, <1>2, <2>1, <2>2, WealthParts, WealthType, DepositsType
<1> DEFINE B == SumFunction(balance)
           D == Deposited(deposit)
           E == Deposited(deposit')
<1>18. /\ Wealth = B + D /\ Wealth' = B + E /\ B \in Nat /\ D \in Nat /\ E \in Nat
       /\ D <= E /\ E <= D + FullIssuance /\ FullIssuance \in Int
  BY <1>8, <1>12, <1>13, <1>14, <1>15, <1>16, <1>17
<1> HIDE DEF B, D, E
<1> QED BY <1>18

\* No staking command creates or destroys tokens, and next_epoch creates at most the
\* issuance of the epoch for the powers of the validator set, as long as all tokens together
\* fit in a u64: whatever the commissions, the numbers of proposed blocks and the rounding.
THEOREM TokensConserved == Spec /\ []SupplyFits => WealthConserved
<1> DEFINE Kept == \/ UNCHANGED <<balance, deposit>>
                   \/ Wealth' = Wealth
                   \/ /\ phase = "commands" /\ phase' = "auto_stakes"
                      /\ Wealth' - Wealth \in 1 .. FullIssuance
<1>1. ASSUME IInv, IInv', SupplyFits, [Next]_vars PROVE Kept
  <2>1. ASSUME NEW op \in Operators, PoolCommand(op) PROVE UNCHANGED <<balance, deposit>>
    <3>1. ASSUME NEW rate \in Rates, CreatePool(op, rate) PROVE UNCHANGED <<balance, deposit>>
      BY <3>1, ZenonT(60) DEF CreatePool, Abort, ledger
    <3>2. ASSUME NEW rate \in Rates, SetPoolSettings(op, rate) PROVE UNCHANGED <<balance, deposit>>
      BY <3>2, ZenonT(60) DEF SetPoolSettings, Abort, ledger
    <3>3. DeletePool(op) => UNCHANGED <<balance, deposit>>
      BY ZenonT(60) DEF DeletePool, Abort, ledger
    <3> QED BY <2>1, <3>1, <3>2, <3>3, ZenonT(60) DEF PoolCommand
  <2>2. ASSUME NEW op \in Operators, NEW own \in Accounts, DepositCommand(own, op) PROVE Kept
    BY <1>1, <2>2, CommandConserves, ZenonT(60)
  <2>3. GasExhausted \/ UNCHANGED vars => UNCHANGED <<balance, deposit>>
    BY ZenonT(60) DEF GasExhausted, Abort, vars, ledger
  <2>4. ASSUME NEW blocks \in [Keys(vp) -> BlockCounts], RewardStakes(blocks) PROVE Kept
    <3>1. phase = "commands" /\ phase' = "auto_stakes"
      BY <2>4, ZenonT(60) DEF RewardStakes
    <3> QED BY <1>1, <2>4, <3>1, RewardsAdd, ZenonT(60)
  <2>5. ASSUME NEW op \in Operators, NEW own \in Accounts, AutoStake(op, own)
        PROVE  UNCHANGED <<balance, deposit>>
    BY <2>5, ZenonT(60) DEF AutoStake
  <2>6. RotateValidators => UNCHANGED <<balance, deposit>>
    BY ZenonT(60) DEF RotateValidators, ledger
  <2> QED BY <1>1, <2>1, <2>2, <2>3, <2>4, <2>5, <2>6, ZenonT(60) DEF Next, NextEpoch
<1>2. IInv /\ IInv' /\ SupplyFits /\ [Next]_vars => [Kept]_vars
  BY <1>1, ZenonT(60)
<1> QED BY <1>2, Invariance, PTL DEF Spec, WealthConserved


=============================================================================
