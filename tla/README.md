# A TLA+ model of pchain-runtime

`pchain-runtime` is the transition function of ParallelChain: it takes a world
state, a transaction and some data of the block, and returns the next world
state and a receipt. The modules here model it, TLC checks them on small
instances, and TLAPS proves the main invariants for every value of the constants.

`PROJECT.json` has the machine-readable side: components, runs, the source lines
of every definition, hazards, findings and theorems.

## The system and its modules

A transition runs in one thread: `pre_charge` holds back the gas limit, a stack of
commands is executed one by one, and `charge` returns the unused gas and pays
proposer and treasury. Commands read and write through a world state cache that is
committed at the end and reverted on the first error. A Call command runs a Wasm
contract, which may call other contracts and defer staking commands. A `NextEpoch`
command pays rewards and rotates the validator sets.

| part of the code | module | abstract specification | proofs |
|---|---|---|---|
| `transition.rs`, `execution/`, receipts | `Transaction` (with `Ledger`) | `AtomicTransaction` | `TransactionProofs`, `AtomicityProofs` |
| `commands/staking.rs`, `commands/protocol.rs`, `rewards_formulas.rs` | `Staking` (with `Rewards`, `Arith`) | none | `StakingProofs`, `StakingTokensProofs`, `StakingPowerProofs` |
| `execution/cache/world_state_cache.rs` | `WorldStateCache` | `StorageTransaction` | `CacheAndGasProofs` |
| `contract/host_functions.rs`, contract instances, `gas/wasmer_gas.rs` | `ContractCalls` | none | `ContractCallsProofs` |
| deployment, module cache, loading of contracts | `ContractCode` | none | `CacheAndGasProofs` |
| `gas/gas_meter.rs`, `gas/operations.rs`, `gas/constants.rs`, `gas/cost_change.rs` | `GasMeter` (with `GasCosts`) | none | `CacheAndGasProofs` |

`SumProofs` has no component: it proves facts about sums, division and recursive functions
on which the proofs of the balances, tokens, powers, fees and the refinement rest.
`MCStaking` and `MCTransaction` hold the small instances for TLC; the other modules are
small enough to be configured directly. `CacheAndGasProofs` proves theorems of three modules
that share no state, and extends all three. Definitions commented `Mutant:`
are plausible mistakes in the code; each property fails when one of them takes the
place of the definition that follows it.

### Staking

State: balances, deposits, pools with their stakes, and the validator sets NVP, VP
and PVP of the network account. A pool is a record with commission rate, power and
stakes; the operator's own stake is the entry of the operator. Each of the nine
staking commands is one action with all its error paths; a command that runs out of
gas is the action `GasExhausted`, which like every abort leaves the ledger alone.

`next_epoch` is three actions, and no command is enabled between them:
`RewardStakes` pays the rewards, `AutoStake` is one iteration of the loop that
stakes them, `RotateValidators` replaces the validator sets and reports the changes.

`IndexHeap::insert_extract` belongs to `pchain_world_state`. It is modelled as the
code uses it, and leaves open which of several least entries is replaced and whether
an equal one is. The order of the auto-stakes is left open too. Both give the model
more behaviours than the code.

Some facts about the code that the model makes visible:

- A pool evicted from the next validator set comes back only when its power changes.
- The deletion of a pool deletes its stakes, but the snapshots in VP and PVP still
  lock the deposits.
- `Staking` takes the existence of a pool or a deposit to be what the metered `get` says.
  Inside one transaction `contains` may differ, and so may the `get` of `next_epoch`, but
  only for what that transaction deleted (`FacadesDifferOnlyOnDeletions`). Whether
  `next_epoch` reads a key after deleting it is up to the collections of `pchain_world_state`,
  which are external.
- A stake of power zero differs from no stake. A reward of zero may create one, and it
  may stay when the deposit is gone. `StakesBacked` compares powers.

### Transaction

A step is a phase or one command. The state is the code's: the world state inside the
cache, which the phases write directly, the write set, the gas meter, the stack and
the receipt buffer. What a called contract does is an input (what it pays back, which
TopUpDeposits it defers, how it fails), as is the gas of each command. TopUpDeposit
stands for all staking commands. An arithmetic overflow is a panic because
`Cargo.toml` turns overflow checks on in release builds. V1 command receipts carry no
kind in the code; the model keeps one.

`AtomicTransaction` says what a caller sees: a transaction is rejected, or fails and
changes only fees and nonce, or has the effect of all its commands in order.
The effect of the commands is a recursive function of the list of commands, with the
deferred commands of a Call right after it. `TransactionsAreAtomic`, in
`TransactionRefinement`, states that `Transaction` implements it, with the request in
progress as refinement mapping.

### WorldStateCache

One `CacheData` with its write set, its read set and the world state behind it. The
model includes that the phases write the world state behind the cache's back
(`PreCharge`, `SetInWorldState`), where a stale read could arise. `StorageTransaction`
has no layers: committed and pending values only. The code's rule that an empty value
is a deletion is part of both.

Commands and `next_epoch` use the cache differently. The gas meter, between commands and
cache, turns an empty value into None and looks up the old value before it sets a new one
(`Get`, `Set`). `NetworkAccountWorldState` returns what the cache returns, so that a key
deleted in the same transaction reads as an empty value and not as None, and sets without
looking up (`EpochGet`, `EpochSet`). `CacheIsTransparent` covers both, and is weaker for an
epoch transaction: `StorageTransaction` lets `EpochRead` answer None or an empty value
where there is none. That the empty value is the answer only after a deletion in this
transaction is the second half of `FacadesDifferOnlyOnDeletions`.

### ContractCalls

A stack of frames, one for each running contract. A contract is any sequence of Wasm
blocks and host functions. A host function holds its locks from beginning to end and
is one step; `call` is two, because it releases them while the child runs. Wasmer's
metering is external: it refuses a block that cannot be paid for. The charge of a host
function saturates instead, so that a host function may be carried out on too little
gas. `log` and `return_value` pay in this way for what they read, then compare the gas that
is left with the cost of their output alone: an empty output succeeds with no gas left. The six `defer_*` functions are one
action: a deferred command is the contract in whose name it will run, and what the
executor gets of the list is part of the result. The exported `alloc` of a contract,
which `write_bytes` runs under the locks, is assumed not to call host functions. An
amount of 0 stands for a call without amount.

### ContractCode

The code at each address in the world state, in the write set and in the module cache
on disk. An address is a pair of nonce and command index, since its hash is assumed to
be injective. The cache is not reverted with a transaction. An entry of it is two
files, the module and its metadata, stored in this order; either write may fail, and a
load may fail at any time. The metadata hold the length of the bytecode, by which a
later call is charged, and are modelled as the code they were made of. Bytecode is
checked on deployment only, once when it is compiled and once for its entry point; which
bytecodes fail either check is a constant.

### GasMeter and GasCosts

`GasCosts` has the formulas of `gas/constants.rs` and `gas/operations.rs` with the prices
of the code, and `CostChange`, the pair of charges and rewards that saturate separately.
`GasMeter` executes the commands of one transaction as sequences of operations on items
of given lengths: a staking command is any sequence of reads and writes, a contract any
sequence of Wasm blocks and host functions with their real prices. Two bookkeepings meet
here. The gas meter adds up charges and rewards over a whole command, and only their
difference counts. A contract pays each operation on its own, so that a reward ends with
its operation. `Call` hands what the transaction has left to the second, and
`EndContract` books what it consumed in the first.

## What TLC checks

| run | instance | properties |
|---|---|---|
| `stake_eviction` | one pool, one place for a delegated stake, three owners, two epochs | `TypeOK`, `StakesBacked`, `CapacitiesKept`, `PowerCoversStakes`, `PowerDriftsOnlyWhenAutoStakeFails`, `WealthConserved` |
| `validator_eviction` | two pools, one place in the validator set, integers 0..2 | `NvpTracksPools`, `ChangesYieldNewSet`, `IInv` (the inductive invariant of the proofs) |
| `transactions` | up to two commands of seven kinds, every coincidence of signer, proposer, treasury, a balance that is small or next to the integer limit; a call that defers two commands, both of which succeed or the first or second of which fails | `TypeOK`, `GasAccounted`, `ChargeDoesNotPanic`, `FeesMatchReceipts`, `ReceiptsTellOutcome`, `TransactionsAreAtomic`, `Answered` |
| `storage_cache` | two keys, two values, transactions of commands and epoch transactions | `TypeOK`, `ReadsAreFresh`, `CacheIsTransparent`, `FacadesDifferOnlyOnDeletions` |
| `nested_calls` | two contracts, depth three, two deferred commands | `TypeOK`, `GasIsHandedDown`, `GasOnlyDecreases`, `ExhaustionIsReported`, `ErrorsReachTheCommand`, `BalancesConserved`, `ViewsWriteNothing`, `ReturnValueIsOwn`, `CallsEnd` |
| `code_cache` | two transactions of up to two deployments each; the first commits, aborts or runs out of gas in a deployment, the second does not end | `AddressesAreFresh`, `CacheMatchesDeployedCode`, `CallsRunDeployedCode`, `GasIndependentOfCache`, `OnlyValidatedCodeRuns` |
| `gas_accounting` | up to two commands of five kinds, two operations, four gas limits | `MeterTypeOK`, `CallWithinLimit`, `ContractGasInFull`, `HostFunctionsCost`, `SuccessIsPaidInFull`, `OutputLostOnlyToRewards` |

Bounds. A heap with one place is the smallest that evicts; three owners are needed for
one to find no room, two pools for one to evict the other. Two epochs move a stake
through NVP, VP and PVP. Gas limits of transactions are chosen so that inclusion fails,
the first command exhausts them, or everything fits. Depth three has a frame that is
both parent and child. The largest integer of `gas_accounting`, 2,000,000,000, is as large
as TLC allows and well above every price; its gas limits are below the inclusion cost,
just above it, roomy, and the largest integer, where charges saturate. Keys of 0 and 40
bytes and values of 0 and 1 bytes give deletions and empty reads. `MaxEpoch`, `MaxNonce`,
`MaxDepth`, `MaxDeferred`, `MaxCommands`, `MaxDeploys` and `MaxOps` bound what the code
leaves unbounded. The runs of Staking use a view without the last exit code, which no step
reads; `stake_eviction` also leaves out the last changes and all but the stakes of the
previous validator set, which no step reads either. Deadlock is checked except where the sequence of
transactions or the command ends.

Fairness. A transition and a contract call are each a sequence of statements in one
thread, so weak fairness of their steps is assumed: in `Transaction` of every step but
the submission, in `ContractCalls` of `Next`. Nothing is assumed about what callers
submit.

## Where code and documentation disagree

Five runs expect a violation. Each states what a comment, a doc or a test says.

| run | what the model shows |
|---|---|
| `power_sum` | An auto-stake that finds no room among the delegated stakes still adds to the power of the pool (`staking.rs:648`). The tests of `next_epoch` assert that power is the sum of the stakes. `PowerDriftsOnlyWhenAutoStakeFails` shows that this is the only source of a difference. |
| `pre_charge_panic` | A V2 transaction with commands that fails in pre-charge reaches `last().unwrap()` on an empty buffer (`receipt_buffer.rs:116`). The docs promise an answer without receipt; the test of that path sends no commands. |
| `child_result` | A parent takes its own earlier return value for that of a child which set none. |
| `undeployed_code` | A call by a contract loads from the module cache without the CBI check that a Call command makes, so it depends on what reverted deployments left there. |
| `output_withheld` | A staking command that has no gas for its output, but deleted data and so earned more than it was charged, succeeds without the output (`staking.rs:324`). The comments say that the gas is exhausted. `OutputLostOnlyToRewards` shows that this is the only way. |

Two more need no run. `contains` is true for a key deleted in the same transaction, where
`get` is None (`FacadesDifferOnlyOnDeletions` says that they differ on nothing else).
`TransitionV1ToV2Result` documents receipt and
validator changes as always None (`transition.rs:260`, `:264`), and `Upgrade` returns both
on success (`transition.rs:235-239`).

## What is proved

All theorems hold for every value of the constants allowed by the named assumptions.

- `StakingProofs`: `Spec => []IInv`, hence `TypeOK`, `StakesBacked`,
  `NvpTracksPools` and `CapacitiesKept`. None of these is inductive alone.
  `StakesBacked` survives an auto-stake only because the reward was deposited before, so
  `PendingStakes` says that every waiting reward fits on top of its stake within the
  deposit, also when additions saturate. The lemmas describe `InsertExtract` and a
  general step of one pool, to which every command is reduced.
- `CacheAndGasProofs`, of the two caches. In `WorldStateCache` cached reads are fresh while commands
  run, and with that the cache implements `StorageTransaction` (initial states and every
  step). In `ContractCode` the module cache agrees with deployed code, Call commands run
  it, only validated code runs, and the gas for loading does not depend on the cache.
  The invariant is freshness: addresses of nonces not yet reached are nowhere, and a
  failed transaction uses up its nonce.
- `ContractCallsProofs`: gas is handed down, never grows, and exhaustion is reported
  exactly, at any depth. The invariant says of every two neighbouring frames that the
  child's limit is what the parent has left, so that the deduction after a call never
  saturates. Two more invariants build on it. All frames of a nest are views or none is,
  hence views write and defer nothing. While no error unwinds the nest, the return value
  is not of a contract deeper than the one that runs, hence the receipt never has a
  nested contract's. An error anywhere fails the command and drops what was deferred.
- `CacheAndGasProofs`, of `GasMeter`: the six properties of `gas_accounting`, for all lengths of keys and
  values and all gas limits, with the prices of the code. The invariant `GasInv` bounds what
  a command has been charged when its contract starts: rewards of the setup stay below the
  cost of inclusion, which the contract can never get, so the contract's gas is added
  in full even where charges saturate.
- `TransactionProofs`: types, gas and complete receipts, and the fees, for any
  accounts, transactions and numbers of deferred commands. Two invariants carry them.
  `TransactionInv` describes the stack: some deferred commands, then exactly the
  commands of the transaction that have no receipt yet. `FundsInv` says that the tokens
  as the write set shows them, with the gas limit's worth held back by `pre_charge`, are
  the tokens at submission. From it follow `ChargeDoesNotPanic` and `FeesMatchReceipts`.
- `AtomicityProofs`: `Transaction` implements `AtomicTransaction`. The invariant
  `AtomicInv` says how far the stack is: what the cache shows after `k` commands and the
  deferred commands done since is what `AtomicTransaction` computes for that prefix, on the
  ledger from which the gas was held back. With it every step of `Transaction` is a step of
  `AtomicTransaction` or changes neither ledger nor request (`TransactionsRefine`).
- `StakingTokensProofs`: no step creates tokens but `next_epoch`, which creates at most
  the issuance. The rewards are bounded pool by pool: the shares of the stakes, each
  rounded down, add up to at most the reward of the pool, and the commission moves part
  of it to the operator.
- `StakingPowerProofs`: the power of a pool covers its stakes, and differs from them only
  after an auto-stake without room.
- `SumProofs`: `SumFunction` of the community modules, for every finite set of indices.
  A fold is a recursive function on sets, and induction is done with sets: the set of good
  subsets contains the empty set and is closed under adding an element, so it contains every
  finite set. The closure itself is proved from the definition of finiteness and the
  well-foundedness of `<`. `RunExists` and `RunType` do the same for recursive functions
  on `0 .. n`, such as the effect of a list of commands.

Assumptions on constants: they have their types, accounts are finite, `None` is no value,
capacities are natural numbers, every step of a contract costs something, an integer
type holds at least 1,000,000 in `GasMeter` (so that the prices of operations on a balance
do not saturate), and the treasury's share is a fraction above 0 and at most 1.

Three results hold as long as no sum leaves its integer type, and say so. `PowerCovers` and
`TokensConserved` assume `SupplyFits`, all tokens together fit in a `u64`; `PowerDrifts` assumes
`PowersFit`, no power reaches the largest integer. Both are conditions on the supply of the
network, which the genesis state decides and not this code. Without them additions saturate
(a deposit that is full loses the rest of a reward), and the sums differ by what was cut
off. The bounds of `stake_eviction` imply them, so TLC checks the three properties as they
stand. `ChargeDoesNotPanic`, `FeesMatchReceipts` and `BalancesConserved` have the like
condition in their statements, and their runs also have states in which it fails.

Only model-checked: liveness (`Answered`, `CallsEnd`), which is out of reach of the provers.

## What is not modelled

- The filter of Wasm opcodes: a stateless check, operator by operator. Its verdict is part
  of which bytecodes are valid in `ContractCode`.
- The Wasmer engine, its tunables and the linear memory. Metering and traps are modelled
  as the code relies on them; a failing access is a failing host function.
- What contracts read, the bytes of logs, arguments and return values, and the results of
  cryptographic functions. Their gas is in `GasMeter`.
- Torn files in the module cache: a file is written whole or not at all.
- The numbers of the issuance table in `rewards_formulas.rs`; `Staking` takes the issuance
  of an epoch as a constant.
- `Transaction` has `TopUpDeposit` for all staking commands. A composition with `Staking`
  would multiply two state spaces that share only balances and deposits; `Staking` covers
  the commands and `AtomicTransaction` what a transaction does with their effects.
