------------------------------ MODULE Staking ------------------------------
(***************************************************************************)
(* The network account: pools, deposits, stakes and the three validator    *)
(* sets, under the staking commands (commands/staking.rs) and the epoch    *)
(* change (commands/protocol.rs).                                          *)
(*                                                                         *)
(* A staking command is one atomic action: a command runs alone and its    *)
(* writes are reverted when it fails, so a failing command only reports an *)
(* error.  next_epoch is one command too, but its loop over the rewards to *)
(* be staked is a phase of its own, one step per iteration; no other       *)
(* action is enabled until it is over.                                     *)
(***************************************************************************)
EXTENDS Rewards, FiniteSetsExt

CONSTANTS
    Accounts,      \* every account
    Operators,     \* the accounts that submit pool commands
    None,          \* Option::None
    MaxStakes,     \* MAX_STAKES_PER_POOL
    MaxValidators, \* MAX_VALIDATOR_SET_SIZE
    BlocksPerEpoch, \* blocks_per_epoch of the validator performance
    BlockCounts,   \* inputs: how many blocks a validator proposed
    Amounts,       \* inputs: amounts named in commands
    Rates,         \* inputs: commission rates named in commands
    InitialBalance \* account -> balance at the start

ASSUME StakingAssumption ==
    /\ IsFiniteSet(Accounts)
    /\ Operators \subseteq Accounts
    /\ MaxStakes \in Nat
    /\ MaxValidators \in Nat
    /\ BlocksPerEpoch \in Nat
    /\ BlockCounts \subseteq Nat
    /\ Amounts \subseteq U64
    /\ Rates \subseteq 0 .. 255
    /\ InitialBalance \in [Accounts -> U64]

VARIABLES
    balance,  \* account -> native tokens
    deposit,  \* operator -> owner -> balance of the deposit, or None
    auto,     \* operator -> owner -> auto_stake_rewards is Some(true)
    pools,    \* operator -> pool, or None
    nvp,      \* next validator set: operator -> power in the index heap, or None
    vp,       \* validator set: operator -> snapshot of a pool, or None
    pvp,      \* previous validator set, likewise
    epoch,
    phase,    \* "commands", or "auto_stakes" inside next_epoch
    auto_stakes, \* rewards next_epoch still has to stake: operator -> owner -> amount or None
    changes,  \* ValidatorChanges of the last next_epoch
    error     \* exit code of the last command

ledger == <<balance, deposit, auto, pools, nvp>>
validators == <<vp, pvp, epoch, changes>>
vars == <<ledger, validators, phase, auto_stakes, error>>

U64OrNone == U64 \cup {None}

\* A pool; stakes[op] of the pool of op is its operator_stake, the others are
\* its delegated_stakes.  A stake of power 0 is not the same as no stake.
Pool == [commission_rate : 0 .. 100, power : U64, stakes : [Accounts -> U64OrNone]]

PoolOrNone == Pool \cup {None}

ASSUME NoneAssumption == None \notin Int /\ None \notin Pool

NoStakes == [own \in Accounts |-> None]

\* Option<u64>::map_or(0, ..)
Val(x) == IF x = None THEN 0 ELSE x

\* The keys of an index heap (or of a set of pools) kept as a function.
Keys(h) == {k \in DOMAIN h : h[k] # None}

Delegated(op, stakes) == Keys(stakes) \ {op}

\* Mutant: a full heap takes the new entry without giving up a least one.
InsertWithoutExtract(h, ks, cap, k, p) ==
    {[ok |-> TRUE, heap |-> [h EXCEPT ![k] = p], replaced |-> None]}

(***************************************************************************)
(* IndexHeap::insert_extract of pchain_world_state, on the entries of h    *)
(* whose keys are in ks: insert below the capacity, else replace a least   *)
(* entry, else fail.  Which of several least entries goes, and whether an  *)
(* equal entry is replaced, is left open.                                  *)
(***************************************************************************)
InsertExtract(h, ks, cap, k, p) ==
    IF Cardinality(ks) < cap
    THEN {[ok |-> TRUE, heap |-> [h EXCEPT ![k] = p], replaced |-> None]}
    ELSE {[ok |-> TRUE, heap |-> [h EXCEPT ![k] = p, ![m] = None], replaced |-> h[m]] :
              m \in {m \in ks : p >= h[m] /\ \A j \in ks : h[m] <= h[j]}}
         \cup (IF \A j \in ks : p <= h[j]
               THEN {[ok |-> FALSE, heap |-> h, replaced |-> None]} ELSE {})

\* What becomes of the next validator set when the power of op's pool rises or falls.
NvpAfterIncrease(op, power) ==
    IF nvp[op] # None THEN {[nvp EXCEPT ![op] = power]}
    ELSE {r.heap : r \in InsertExtract(nvp, Keys(nvp), MaxValidators, op, power)}

NvpAfterReduce(op, power) ==
    IF nvp[op] # None THEN {[nvp EXCEPT ![op] = IF power = 0 THEN None ELSE power]}
    ELSE IF power > 0
         THEN {r.heap : r \in InsertExtract(nvp, Keys(nvp), MaxValidators, op, power)}
         ELSE {nvp}

\* Stake of an owner in one of the validator sets.
stake_of_pool(set, op, own) == IF set[op] = None THEN None ELSE set[op].stakes[own]

\* Mutant: the previous validator set does not lock a deposit.
LockedByVpOnly(op, own) == Val(stake_of_pool(vp, op, own))

\* What a deposit has to keep: the larger of its stakes in VP and PVP.
Locked(op, own) == max(Val(stake_of_pool(pvp, op, own)), Val(stake_of_pool(vp, op, own)))

\* Mutant: the power falls by the amount asked for, not by the stake given up.
ReduceByRequest(op, own, amount) ==
    LET power == saturating_sub(pools[op].power, amount)
        stake == pools[op].stakes[own]
    IN  /\ pools' = [pools EXCEPT ![op] =
                        [commission_rate |-> pools[op].commission_rate,
                         power  |-> power,
                         stakes |-> [pools[op].stakes EXCEPT ![own] =
                                        IF stake <= amount THEN None ELSE stake - amount]]]
        /\ nvp' \in NvpAfterReduce(op, power)

\* reduce_stake_power, for a pool and a stake that exist.
ReduceStakePower(op, own, amount) ==
    LET pool     == pools[op]
        stake    == pool.stakes[own]
        unstaked == min(stake, amount)
        power    == saturating_sub(pool.power, unstaked)
    IN  /\ pools' = [pools EXCEPT ![op] =
                        [commission_rate |-> pool.commission_rate,
                         power  |-> power,
                         stakes |-> [pool.stakes EXCEPT ![own] =
                                        IF stake <= amount THEN None ELSE stake - amount]]]
        /\ nvp' \in NvpAfterReduce(op, power)

\* Mutant: the power of an evicted stake stays in the pool.
EvictedPowerKept(op, own, increase) ==
    LET stakes == pools[op].stakes
    IN  IF own = op \/ stakes[own] # None
        THEN {[ok |-> TRUE,
               stakes |-> [stakes EXCEPT ![own] = saturating_add(Val(stakes[own]), increase)],
               added |-> increase]}
        ELSE {[ok |-> r.ok, stakes |-> r.heap, added |-> increase] :
                  r \in InsertExtract(stakes, Delegated(op, stakes), MaxStakes, own, increase)}

\* First half of increase_stake_power: the new stakes and the power they add.
StakeOutcomes(op, own, increase) ==
    LET stakes == pools[op].stakes
    IN  IF own = op \/ stakes[own] # None
        THEN {[ok |-> TRUE,
               stakes |-> [stakes EXCEPT ![own] = saturating_add(Val(stakes[own]), increase)],
               added |-> increase]}
        ELSE {[ok |-> r.ok, stakes |-> r.heap,
               added |-> saturating_sub(increase, Val(r.replaced))] :
                  r \in InsertExtract(stakes, Delegated(op, stakes), MaxStakes, own, increase)}

\* Second half: the power of the pool and its place in the next validator set.
\* An auto-stake goes on with an outcome whose insertion failed.
ApplyStake(op, r) ==
    LET power == saturating_add(pools[op].power, r.added)
    IN  /\ pools' = [pools EXCEPT ![op] =
                        [commission_rate |-> pools[op].commission_rate,
                         power |-> power, stakes |-> r.stakes]]
        /\ nvp' \in NvpAfterIncrease(op, power)

-----------------------------------------------------------------------------

Init ==
    /\ balance = InitialBalance
    /\ deposit = [op \in Operators |-> NoStakes]
    /\ auto = [op \in Operators |-> [own \in Accounts |-> FALSE]]
    /\ pools = [op \in Operators |-> None]
    /\ nvp = [op \in Operators |-> None]
    /\ vp = [op \in Operators |-> None]
    /\ pvp = [op \in Operators |-> None]
    /\ epoch = 0
    /\ phase = "commands"
    /\ auto_stakes = [op \in Operators |-> NoStakes]
    /\ changes = [new_validator_set |-> {}, remove_validator_set |-> {}]
    /\ error = "Ok"

-----------------------------------------------------------------------------
(***************************************************************************)
(* Commands.  Their guards are the checks of the handlers, in their order. *)
(***************************************************************************)

Command == phase = "commands" /\ UNCHANGED <<validators, phase, auto_stakes>>

Abort(e) == error' = e /\ UNCHANGED ledger

CreatePool(op, rate) ==
    /\ Command
    /\ \/ rate > 100 /\ Abort("InvalidPoolPolicy")
       \/ rate <= 100 /\ pools[op] # None /\ Abort("PoolAlreadyExists")
       \/ /\ rate <= 100
          /\ pools[op] = None
          /\ pools' = [pools EXCEPT ![op] =
                          [commission_rate |-> rate, power |-> 0, stakes |-> NoStakes]]
          /\ nvp' \in {r.heap : r \in InsertExtract(nvp, Keys(nvp), MaxValidators, op, 0)}
          /\ error' = "Ok"
          /\ UNCHANGED <<balance, deposit, auto>>

\* Mutant: the new commission rate is not checked.
SetPoolSettingsUnchecked(op, rate) ==
    /\ Command
    /\ pools[op] # None
    /\ pools' = [pools EXCEPT ![op] =
                    [commission_rate |-> rate, power |-> pools[op].power,
                     stakes |-> pools[op].stakes]]
    /\ error' = "Ok"
    /\ UNCHANGED <<balance, deposit, auto, nvp>>

SetPoolSettings(op, rate) ==
    /\ Command
    /\ \/ rate > 100 /\ Abort("InvalidPoolPolicy")
       \/ rate <= 100 /\ pools[op] = None /\ Abort("PoolNotExists")
       \/ /\ rate <= 100
          /\ pools[op] # None
          /\ pools[op].commission_rate = rate
          /\ Abort("InvalidPoolPolicy")
       \/ /\ rate <= 100
          /\ pools[op] # None
          /\ pools[op].commission_rate # rate
          /\ pools' = [pools EXCEPT ![op] =
                          [commission_rate |-> rate, power |-> pools[op].power,
                           stakes |-> pools[op].stakes]]
          /\ error' = "Ok"
          /\ UNCHANGED <<balance, deposit, auto, nvp>>

\* Mutant: the deleted pool stays in the next validator set.
DeletePoolKeepsNvp(op) ==
    /\ Command
    /\ pools[op] # None
    /\ pools' = [pools EXCEPT ![op] = None]
    /\ error' = "Ok"
    /\ UNCHANGED <<balance, deposit, auto, nvp>>

DeletePool(op) ==
    /\ Command
    /\ \/ pools[op] = None /\ Abort("PoolNotExists")
       \/ /\ pools[op] # None
          /\ nvp' = [nvp EXCEPT ![op] = None]
          /\ pools' = [pools EXCEPT ![op] = None]
          /\ error' = "Ok"
          /\ UNCHANGED <<balance, deposit, auto>>

CreateDeposit(own, op, amount, auto_stake_rewards) ==
    /\ Command
    /\ \/ pools[op] = None /\ Abort("PoolNotExists")
       \/ pools[op] # None /\ deposit[op][own] # None /\ Abort("DepositsAlreadyExists")
       \/ /\ pools[op] # None
          /\ deposit[op][own] = None
          /\ balance[own] < amount
          /\ Abort("NotEnoughBalanceForTransfer")
       \/ /\ pools[op] # None
          /\ deposit[op][own] = None
          /\ balance[own] >= amount
          /\ balance' = [balance EXCEPT ![own] = @ - amount]
          /\ deposit' = [deposit EXCEPT ![op] = [@ EXCEPT ![own] = amount]]
          /\ auto' = [auto EXCEPT ![op] = [@ EXCEPT ![own] = auto_stake_rewards]]
          /\ error' = "Ok"
          /\ UNCHANGED <<pools, nvp>>

SetDepositSettings(own, op, auto_stake_rewards) ==
    /\ Command
    /\ \/ deposit[op][own] = None /\ Abort("DepositsNotExists")
       \/ /\ deposit[op][own] # None
          /\ auto[op][own] = auto_stake_rewards
          /\ Abort("InvalidDepositPolicy")
       \/ /\ deposit[op][own] # None
          /\ auto[op][own] # auto_stake_rewards
          /\ auto' = [auto EXCEPT ![op] = [@ EXCEPT ![own] = auto_stake_rewards]]
          /\ error' = "Ok"
          /\ UNCHANGED <<balance, deposit, pools, nvp>>

\* Mutant: the amount is not taken from the balance.
TopUpWithoutDebit(own, op, amount) ==
    /\ Command
    /\ deposit[op][own] # None
    /\ balance[own] >= amount
    /\ deposit' = [deposit EXCEPT ![op] =
                      [@ EXCEPT ![own] = saturating_add(deposit[op][own], amount)]]
    /\ error' = "Ok"
    /\ UNCHANGED <<balance, auto, pools, nvp>>

TopUpDeposit(own, op, amount) ==
    /\ Command
    /\ \/ deposit[op][own] = None /\ Abort("DepositsNotExists")
       \/ /\ deposit[op][own] # None
          /\ balance[own] < amount
          /\ Abort("NotEnoughBalanceForTransfer")
       \/ /\ deposit[op][own] # None
          /\ balance[own] >= amount
          /\ balance' = [balance EXCEPT ![own] = @ - amount]
          /\ deposit' = [deposit EXCEPT ![op] =
                            [@ EXCEPT ![own] = saturating_add(deposit[op][own], amount)]]
          /\ error' = "Ok"
          /\ UNCHANGED <<auto, pools, nvp>>

\* Mutant: a withdrawal does not touch the stake of the next epoch.
CapStakeSkipped(op, own, left) == UNCHANGED <<pools, nvp>>

\* Step 5 of withdraw_deposit: cap the stake of the next epoch at what is left.
CapStake(op, own, left) ==
    LET stake == stake_of_pool(pools, op, own)
    IN  IF stake # None /\ left < Val(stake)
        THEN ReduceStakePower(op, own, stake - left)
        ELSE UNCHANGED <<pools, nvp>>

WithdrawDeposit(own, op, max_amount) ==
    LET dep       == deposit[op][own]
        withdrawn == min(max_amount, saturating_sub(dep, Locked(op, own)))
        left      == saturating_sub(dep, withdrawn)
    IN  /\ Command
        /\ \/ dep = None /\ Abort("DepositsNotExists")
           \/ dep # None /\ left = dep /\ Abort("InvalidStakeAmount")
           \/ /\ dep # None
              /\ left # dep
              /\ deposit' = [deposit EXCEPT ![op] =
                                [@ EXCEPT ![own] = IF left = 0 THEN None ELSE left]]
              /\ auto' = [auto EXCEPT ![op] = [@ EXCEPT ![own] = auto[op][own] /\ left # 0]]
              /\ balance' = [balance EXCEPT ![own] = saturating_add(@, dep - left)]
              /\ CapStake(op, own, left)
              /\ error' = "Ok"

StakeDeposit(own, op, max_amount) ==
    LET dep      == deposit[op][own]
        increase == min(max_amount, saturating_sub(dep, Val(pools[op].stakes[own])))
    IN  /\ Command
        /\ \/ dep = None /\ Abort("DepositsNotExists")
           \/ dep # None /\ pools[op] = None /\ Abort("PoolNotExists")
           \/ dep # None /\ pools[op] # None /\ increase = 0 /\ Abort("InvalidStakeAmount")
           \/ /\ dep # None
              /\ pools[op] # None
              /\ increase # 0
              /\ \E r \in StakeOutcomes(op, own, increase) :
                     \/ ~r.ok /\ Abort("InvalidStakeAmount")
                     \/ r.ok /\ ApplyStake(op, r) /\ error' = "Ok"
                             /\ UNCHANGED <<balance, deposit, auto>>

UnstakeDeposit(own, op, max_amount) ==
    /\ Command
    /\ \/ deposit[op][own] = None /\ Abort("DepositsNotExists")
       \/ deposit[op][own] # None /\ pools[op] = None /\ Abort("PoolNotExists")
       \/ /\ deposit[op][own] # None
          /\ pools[op] # None
          /\ pools[op].stakes[own] = None
          /\ Abort("PoolHasNoStakes")
       \/ /\ deposit[op][own] # None
          /\ pools[op] # None
          /\ pools[op].stakes[own] # None
          /\ ReduceStakePower(op, own, max_amount)
          /\ error' = "Ok"
          /\ UNCHANGED <<balance, deposit, auto>>

\* A command that has done all of the above may still find its gas exhausted.
GasExhausted == Command /\ Abort("ExecutionProperGasExhausted")

-----------------------------------------------------------------------------
(***************************************************************************)
(* next_epoch.                                                             *)
(***************************************************************************)

\* The sum of the stakes of a pool.
SumOfStakes(pool) == SumFunction([own \in Accounts |-> Val(pool.stakes[own])])

\* The same sum and the sum of the commissions that the stakes pay, saturating.
TotalStakes(pool) == saturate(SumOfStakes(pool))

TotalCommission(op, reward) ==
    saturate(SumFunction([own \in Accounts \ {op} |->
                 stake_reward(reward, vp[op].commission_rate,
                     Val(vp[op].stakes[own]), TotalStakes(vp[op])).commission]))

RewardOfPool(op, blocks) ==
    pool_reward(epoch, vp[op].power, blocks[op], BlocksPerEpoch \div Cardinality(Keys(vp)))

\* What the owner of a stake in the validator set is paid, None where no payment is made.
Payment(op, own, blocks) ==
    LET reward == RewardOfPool(op, blocks)
        pay(rate) == stake_reward(reward, rate, Val(vp[op].stakes[own]), TotalStakes(vp[op])).reward
    IN  IF vp[op] = None \/ reward = 0 THEN None
        ELSE IF own = op THEN saturating_add(pay(0), TotalCommission(op, reward))
        ELSE IF vp[op].stakes[own] = None THEN None
        ELSE pay(vp[op].commission_rate)

\* A payment goes to the deposit; only an operator's is created when it is missing.
Credited(op, own, pay) ==
    IF pay = None \/ (own # op /\ deposit[op][own] = None) THEN deposit[op][own]
    ELSE saturating_add(Val(deposit[op][own]), pay)

RewardStakes(blocks) ==
    /\ phase = "commands"
    /\ epoch < MaxEpoch
    /\ deposit' = [op \in Operators |-> [own \in Accounts |->
                      Credited(op, own, Payment(op, own, blocks))]]
    /\ auto_stakes' = [op \in Operators |-> [own \in Accounts |->
                          IF auto[op][own] THEN Payment(op, own, blocks) ELSE None]]
    /\ phase' = "auto_stakes"
    /\ UNCHANGED <<balance, auto, pools, nvp, validators, error>>

\* One iteration of the loop over auto_stakes; its order is left open.
AutoStake(op, own) ==
    /\ phase = "auto_stakes"
    /\ auto_stakes[op][own] # None
    /\ \/ pools[op] = None /\ UNCHANGED <<pools, nvp>>
       \/ /\ pools[op] # None
          /\ \E r \in StakeOutcomes(op, own, auto_stakes[op][own]) : ApplyStake(op, r)
    /\ auto_stakes' = [auto_stakes EXCEPT ![op] = [@ EXCEPT ![own] = None]]
    /\ UNCHANGED <<balance, deposit, auto, validators, phase, error>>

\* Mutant: a validator whose power alone has changed is not reported.
ChangesWithoutPower(old, new) ==
    [new_validator_set |-> {<<op, new[op].power>> : op \in Keys(new) \ Keys(old)},
     remove_validator_set |-> Keys(old) \ Keys(new)]

ValidatorChanges(old, new) ==
    [new_validator_set |->
         {<<op, new[op].power>> : op \in
             {o \in Keys(new) : old[o] = None \/ old[o].power # new[o].power}},
     remove_validator_set |-> Keys(old) \ Keys(new)]

RotateValidators ==
    /\ phase = "auto_stakes"
    /\ \A op \in Operators : \A own \in Accounts : auto_stakes[op][own] = None
    /\ pvp' = vp
    /\ vp' = [op \in Operators |-> IF nvp[op] = None THEN None ELSE pools[op]]
    /\ epoch' = epoch + 1
    /\ changes' = ValidatorChanges(vp, vp')
    /\ phase' = "commands"
    /\ error' = "Ok"
    /\ UNCHANGED <<ledger, auto_stakes>>

-----------------------------------------------------------------------------

PoolCommand(op) ==
    \/ \E rate \in Rates : CreatePool(op, rate)
    \/ \E rate \in Rates : SetPoolSettings(op, rate)
    \/ DeletePool(op)

DepositCommand(own, op) ==
    \/ \E amount \in Amounts, flag \in BOOLEAN : CreateDeposit(own, op, amount, flag)
    \/ \E flag \in BOOLEAN : SetDepositSettings(own, op, flag)
    \/ \E amount \in Amounts : TopUpDeposit(own, op, amount)
    \/ \E amount \in Amounts : WithdrawDeposit(own, op, amount)
    \/ \E amount \in Amounts : StakeDeposit(own, op, amount)
    \/ \E amount \in Amounts : UnstakeDeposit(own, op, amount)

NextEpoch ==
    \/ \E blocks \in [Keys(vp) -> BlockCounts] : RewardStakes(blocks)
    \/ \E op \in Operators, own \in Accounts : AutoStake(op, own)
    \/ RotateValidators

Next ==
    \/ \E op \in Operators : PoolCommand(op)
    \/ \E op \in Operators, own \in Accounts : DepositCommand(own, op)
    \/ GasExhausted
    \/ NextEpoch

Spec == Init /\ [][Next]_vars

-----------------------------------------------------------------------------
(***************************************************************************)
(* Properties.                                                             *)
(***************************************************************************)

\* Every variable holds a value of its Rust type.
TypeOK ==
    /\ balance \in [Accounts -> U64]
    /\ deposit \in [Operators -> [Accounts -> U64OrNone]]
    /\ auto \in [Operators -> [Accounts -> BOOLEAN]]
    /\ pools \in [Operators -> PoolOrNone]
    /\ nvp \in [Operators -> U64OrNone]
    /\ vp \in [Operators -> PoolOrNone]
    /\ pvp \in [Operators -> PoolOrNone]
    /\ epoch \in 0 .. MaxEpoch
    /\ phase = "auto_stakes" => epoch < MaxEpoch
    /\ phase \in {"commands", "auto_stakes"}
    /\ auto_stakes \in [Operators -> [Accounts -> U64OrNone]]

\* A deposit is never smaller than a stake it backs, neither in the pool nor in
\* the validator sets of this and of the previous epoch: withdraw_deposit
\* respects the locked power and caps the stake, stake_deposit and the
\* auto-stakes of next_epoch never stake more than is deposited.
StakesBacked ==
    \A op \in Operators : \A own \in Accounts :
        /\ Val(stake_of_pool(pools, op, own)) <= Val(deposit[op][own])
        /\ Val(stake_of_pool(vp, op, own)) <= Val(deposit[op][own])
        /\ Val(stake_of_pool(pvp, op, own)) <= Val(deposit[op][own])

\* A pool in the next validator set exists and is listed there with its own
\* power.  This is what the unwraps of next_epoch rely on when the next
\* validator set becomes the validator set (protocol.rs:187-192).
NvpTracksPools ==
    \A op \in Keys(nvp) : pools[op] # None /\ nvp[op] = pools[op].power

\* No set outgrows its capacity: neither the validator sets nor the delegated
\* stakes of a pool or of a validator, through evictions, re-insertions and
\* the pushes of next_epoch, whose results are discarded.
CapacitiesKept ==
    /\ Cardinality(Keys(nvp)) <= MaxValidators
    /\ Cardinality(Keys(vp)) <= MaxValidators
    /\ Cardinality(Keys(pvp)) <= MaxValidators
    /\ \A op \in Operators :
           /\ pools[op] # None => Cardinality(Delegated(op, pools[op].stakes)) <= MaxStakes
           /\ vp[op] # None => Cardinality(Delegated(op, vp[op].stakes)) <= MaxStakes
           /\ pvp[op] # None => Cardinality(Delegated(op, pvp[op].stakes)) <= MaxStakes

\* The inductive strengthening of the invariants above.  The rewards that wait
\* to be staked in the middle of next_epoch are deposited already and fit on
\* top of the stake they go to; outside of next_epoch none waits; and only an
\* existing deposit asks for its rewards to be staked.
PendingStakes ==
    \A op \in Operators : \A own \in Accounts :
        /\ auto[op][own] => deposit[op][own] # None
        /\ auto_stakes[op][own] # None =>
               /\ phase = "auto_stakes"
               /\ saturating_add(Val(stake_of_pool(pools, op, own)), auto_stakes[op][own])
                      <= Val(deposit[op][own])

IInv == TypeOK /\ StakesBacked /\ NvpTracksPools /\ CapacitiesKept /\ PendingStakes

\* The power of a pool is the sum of its stakes: what the tests of next_epoch
\* assert of every pool of the validator set.
PowerIsSumOfStakes ==
    \A op \in Keys(pools) : pools[op].power = SumOfStakes(pools[op])

\* The power of a pool is never less than the sum of its stakes, so that no
\* decrease is cut off at zero.
PowerCoversStakes ==
    \A op \in Keys(pools) : pools[op].power >= SumOfStakes(pools[op])

\* The excess of a pool's power over its stakes changes in one place only: an
\* auto-stake of next_epoch whose owner finds no room among the delegated
\* stakes.  No command, eviction or withdrawal changes it.
PowerDriftsOnlyWhenAutoStakeFails ==
    [][\A op \in Keys(pools) : pools'[op] \notin {None, pools[op]} =>
          LET drift == (pools[op].power - SumOfStakes(pools[op]))'
                           - (pools[op].power - SumOfStakes(pools[op]))
          IN  \/ drift = 0
              \/ \E own \in Accounts :
                    /\ auto_stakes[op][own] = drift
                    /\ auto_stakes'[op][own] = None
                    /\ pools'[op].stakes = pools[op].stakes
                    /\ pools[op].stakes[own] = None]_vars

\* All tokens in balances and deposits.
Wealth ==
    SumFunction(balance)
    + SumFunction([op \in Operators |-> SumFunction([own \in Accounts |-> Val(deposit[op][own])])])

\* All tokens together fit in a u64, and so does the power of every pool, with room to
\* spare: what the saturating arithmetic of the code relies on.
SupplyFits == Wealth <= MaxU64
PowersFit == \A op \in Keys(pools) : pools[op].power < MaxU64

\* The issuance of this epoch for the whole validator set.
FullIssuance ==
    SumFunction([op \in Keys(vp) |-> (vp[op].power * IssuanceRate[epoch]) \div IssuanceDenom])

\* Staking commands move tokens between balances and deposits and never create
\* or destroy any; next_epoch creates at most the issuance of the epoch.
WealthConserved ==
    [][\/ UNCHANGED <<balance, deposit>>
       \/ Wealth' = Wealth
       \/ /\ phase = "commands" /\ phase' = "auto_stakes"
          /\ Wealth' - Wealth \in 1 .. FullIssuance]_vars

\* A client that applies the ValidatorChanges of next_epoch to the validator set
\* it knew obtains the validator set of the new epoch, power by power.
ChangesYieldNewSet ==
    LET powers(set) == {<<op, set[op].power>> : op \in Keys(set)}
        touched == changes.remove_validator_set \cup {c[1] : c \in changes.new_validator_set}
    IN  powers(vp) = {p \in powers(pvp) : p[1] \notin touched} \cup changes.new_validator_set

=============================================================================
