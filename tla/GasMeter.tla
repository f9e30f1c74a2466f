------------------------------ MODULE GasMeter ------------------------------
(***************************************************************************)
(* The gas of one transaction: GasMeter (gas/gas_meter.rs) with the costs  *)
(* of GasCosts, and WasmerGasGlobal with HostFuncGasMeter                  *)
(* (gas/wasmer_gas.rs) while a contract runs.  A staking command is any    *)
(* sequence of storage operations; a contract is any sequence of Wasm      *)
(* blocks and host functions.  The meter offsets charges and rewards over  *)
(* a whole command; a contract pays each operation on its own.             *)
(***************************************************************************)
EXTENDS GasCosts

CONSTANTS
    KeyLens,    \* lengths of storage keys
    ValueLens,  \* lengths of values, 0 is an absent or deleted value
    CodeLen,    \* length of the contract
    Limits,     \* gas limits of transactions
    TxSizes,
    CommandKinds, \* kinds of commands of the transactions
    MaxCommands,  \* bound on their number
    BlockCosts, \* of the Wasm blocks between two host functions
    MaxOps      \* bound on storage operations, Wasm blocks and host functions

ASSUME LensAssumption ==
    /\ KeyLens \subseteq Nat /\ ValueLens \subseteq Nat /\ CodeLen \in Nat \ {0}
    /\ Limits \subseteq U64 /\ TxSizes \subseteq U64 /\ BlockCosts \subseteq Nat \ {0}

\* The prices of operations on a balance fit in a u64.
ASSUME WidthAssumption == MaxU64 >= 1000000

Storage == {<<"storage", k>> : k \in KeyLens}
Balance == <<"balance", ACCOUNT_TRIE_KEY_LENGTH>>
CBI     == <<"cbi", ACCOUNT_TRIE_KEY_LENGTH>>
Code    == <<"code", ACCOUNT_TRIE_KEY_LENGTH>>
Items   == Storage \cup {Balance, CBI, Code}

VARIABLES
    tx,        \* version, gas limit and commands of the transaction
    inclusion, \* gas_used_for_txn_inclusion
    executed,  \* total_gas_used_for_executed_commands
    current,   \* gas_used_for_current_command, a CostChange
    stored,    \* length of each item, the write set included
    contract,  \* gas limit and remaining gas of a running contract
    stage,     \* "new", "command", "contract", "done" or "end"
    command,   \* index of the current command
    outcome,   \* of the current command
    ops        \* operations so far

meterVars == <<tx, inclusion, executed, current, stored, contract, stage, command, outcome, ops>>

Zero == [deduct |-> 0, reward |-> 0]
NoContract == [limit |-> 0, gas |-> 0, trapped |-> FALSE]
NoOutcome == [ok |-> TRUE, output |-> "none"]

\* GasMeter::total_gas_used_for_executed_commands and total_gas_used.
used_before == saturating_add(inclusion, executed)
total_gas_used(cost) == saturating_add(used_before, net_cost(cost))

kind == tx.kinds[command]

-----------------------------------------------------------------------------

\* GasMeter::new; the world state behind it holds some values and maybe the contract.
MeterInit ==
    /\ tx = [version |-> "V2", limit |-> 0, kinds |-> <<>>]
    /\ inclusion = 0 /\ executed = 0 /\ current = Zero
    /\ \E values \in [Storage -> ValueLens], deployed \in BOOLEAN :
           stored = [i \in Items |->
               IF i \in Storage THEN values[i]
               ELSE IF i = Balance THEN 8
               ELSE IF ~ deployed THEN 0
               ELSE IF i = CBI THEN 4 ELSE CodeLen]
    /\ contract = NoContract
    /\ stage = "new" /\ command = 1 /\ outcome = NoOutcome
    /\ ops = 0

\* charge_txn_pre_exec_inclusion: PreExecutionGasExhausted or the first command.
ChargeInclusion(version, limit, tx_size, kinds) ==
    LET required == tx_inclusion_cost(version, tx_size, kinds)
    IN  /\ stage = "new"
        /\ tx' = [version |-> version, limit |-> limit, kinds |-> kinds]
        /\ IF required > limit
           THEN stage' = "end" /\ UNCHANGED inclusion
           ELSE inclusion' = required /\ stage' = IF kinds = <<>> THEN "end" ELSE "command"
        /\ UNCHANGED <<executed, current, stored, contract, command, outcome, ops>>

\* GasUsed::charge.
charge(c) == Add(current, c)

\* GasMeter::charge of one operation.
Charge(c) ==
    /\ current' = charge(c)
    /\ ops' = ops + 1

InCommand(kinds) == stage = "command" /\ kind \in kinds /\ ops < MaxOps

StakingKinds == {"CreatePool", "WithdrawDeposit"}

\* ws_storage_data and ws_contains_storage_data, as the network account uses them.
WsRead(item) ==
    /\ InCommand(StakingKinds)
    /\ \/ Charge(ws_get(tx.version, item, stored[item]))
       \/ Charge(ws_contains(tx.version, item))
    /\ UNCHANGED <<tx, inclusion, executed, stored, contract, stage, command, outcome>>

\* ws_set_storage_data: a value of length 0 deletes the item.
WsSet(item, new) ==
    /\ InCommand(StakingKinds)
    /\ Charge(ws_set(tx.version, item, stored[item], new))
    /\ stored' = [stored EXCEPT ![item] = new]
    /\ UNCHANGED <<tx, inclusion, executed, contract, stage, command, outcome>>

\* The balances of payer and payee are each read and written.
TransferCost == LET get == ws_get(tx.version, Balance, 8)
                    set == ws_set(tx.version, Balance, 8, 8)
                IN  Add(Add(get, set), Add(get, set))

\* Mutant: the command that ends is not counted.
NotExhaustedBefore(cost) == used_before <= tx.limit

\* Mutant: the limit is not looked at.
NeverExhausted(cost) == TRUE

\* abort_if_gas_exhausted.
not_exhausted(cost) == total_gas_used(cost) <= tx.limit

Finish(ok, output) ==
    /\ stage' = "done"
    /\ outcome' = [ok |-> ok, output |-> output]

\* A command ends with abort_if_gas_exhausted, or before with another error.
EndCommand ==
    /\ stage = "command" /\ kind \in StakingKinds
    /\ \/ kind = "CreatePool" /\ Finish(not_exhausted(current), "none")
       \/ Finish(FALSE, "none")
    /\ UNCHANGED <<tx, inclusion, executed, current, stored, contract, command, ops>>

\* The amount of WithdrawDeposit, StakeDeposit and UnstakeDeposit.
output_cost == deduct(blockchain_storage_cost(8))

\* Mutant: an output that cannot be paid for is left out for nothing.
WithheldCostUncharged == current

\* manually_charge_gas(ret_val_cost).
withheld_cost == charge(output_cost)

\* The amount is set if there is gas for it; else its cost is charged and
\* abort_if_gas_exhausted decides about the command.
SetOutput ==
    /\ stage = "command" /\ kind = "WithdrawDeposit"
    /\ IF saturating_add(total_gas_used(current), net_cost(output_cost)) > tx.limit
       THEN /\ current' = withheld_cost
            /\ Finish(not_exhausted(withheld_cost), "withheld")
       ELSE /\ current' = charge(output_cost)
            /\ Finish(not_exhausted(charge(output_cost)), "set")
    /\ UNCHANGED <<tx, inclusion, executed, stored, contract, command, ops>>

Transfer ==
    /\ stage = "command" /\ kind = "Transfer"
    /\ \/ /\ current' = charge(TransferCost)
          /\ Finish(not_exhausted(charge(TransferCost)), "none")
       \/ \* NotEnoughBalanceForTransfer
          /\ current' = charge(ws_get(tx.version, Balance, 8))
          /\ Finish(FALSE, "none")
    /\ UNCHANGED <<tx, inclusion, executed, stored, contract, command, ops>>

\* DeployInstance: the CBI version is read, and again when it is set.
Deploy ==
    LET exists  == ws_get(tx.version, CBI, stored[CBI])
        written == Add(ws_set(tx.version, Code, stored[Code], CodeLen),
                       ws_set(tx.version, CBI, stored[CBI], 4))
        cost    == Add(exists, written)
    IN  /\ stage = "command" /\ kind = "Deploy"
        /\ \/ \* OtherDeployError
              Finish(FALSE, "none") /\ UNCHANGED <<current, stored>>
           \/ \* ContractAlreadyExists, DisallowedOpcode, CannotCompile ...
              /\ current' = charge(exists)
              /\ Finish(FALSE, "none")
              /\ UNCHANGED stored
           \/ /\ stored[CBI] = 0
              /\ current' = charge(cost)
              /\ stored' = [stored EXCEPT ![Code] = CodeLen, ![CBI] = 4]
              /\ Finish(not_exhausted(charge(cost)), "none")
        /\ UNCHANGED <<tx, inclusion, executed, contract, command, ops>>

-----------------------------------------------------------------------------

\* Mutant: what the command has used so far is left out.
ExecutionLimitBefore(cost) == saturating_sub(tx.limit, used_before)

\* gas_limit_for_execution, if the setup of the call left any.
execution_limit(cost) == tx.limit - total_gas_used(cost)

\* The command Call up to the start of the contract: an amount is transferred, the CBI
\* version is read, and then the code, in the world state or in the cache alike.
Call(with_amount) ==
    LET paid    == IF with_amount THEN charge(TransferCost) ELSE current
        checked == Add(paid, ws_get(tx.version, CBI, stored[CBI]))
        loaded  == Add(checked, ws_get(tx.version, Code, stored[Code]))
    IN  /\ stage = "command" /\ kind = "Call"
        /\ \/ \* NotEnoughBalanceForTransfer
              /\ with_amount
              /\ current' = charge(ws_get(tx.version, Balance, 8))
              /\ Finish(FALSE, "none")
              /\ UNCHANGED contract
           \/ \* InvalidCBI
              /\ stored[CBI] = 0
              /\ current' = checked
              /\ Finish(FALSE, "none")
              /\ UNCHANGED contract
           \/ \* ExecutionProperGasExhausted, or CannotCompile
              /\ stored[CBI] > 0
              /\ current' = loaded
              /\ Finish(FALSE, "none")
              /\ UNCHANGED contract
           \/ /\ stored[CBI] > 0 /\ not_exhausted(loaded)
              /\ current' = loaded
              /\ contract' = [limit |-> execution_limit(loaded), gas |-> execution_limit(loaded),
                              trapped |-> FALSE]
              /\ stage' = "contract"
              /\ UNCHANGED outcome
        /\ UNCHANGED <<tx, inclusion, executed, stored, command, ops>>

InContract == stage = "contract" /\ ~ contract.trapped

ContractVars == <<tx, inclusion, executed, current, stage, command, outcome>>

\* Wasmer's metering refuses a block that cannot be paid for.
WasmBlock(cost) ==
    /\ InContract /\ ops < MaxOps
    /\ contract' = [contract EXCEPT !.gas = saturating_sub(contract.gas, cost),
                                    !.trapped = contract.gas < cost]
    /\ ops' = ops + 1
    /\ UNCHANGED <<ContractVars, stored>>

\* HostFuncGasMeter::charge, one operation after the other.
pay(gas, c) == saturating_sub(gas, net_cost(c))

bytes(len) == deduct(wasm_memory_cost(len))

HostFunction(gas) ==
    /\ InContract /\ ops < MaxOps
    /\ contract' = [contract EXCEPT !.gas = gas]
    /\ ops' = ops + 1
    /\ UNCHANGED ContractVars

HostSet(item, new) ==
    /\ HostFunction(pay(pay(pay(contract.gas, bytes(item[2])), bytes(new)),
                        ws_set(tx.version, item, stored[item], new)))
    /\ stored' = [stored EXCEPT ![item] = new]

\* get and get_network_storage write the value to memory if there is one.
HostGet(item) ==
    LET gas == pay(pay(contract.gas, bytes(item[2])), ws_get(tx.version, item, stored[item]))
    IN  /\ HostFunction(IF stored[item] > 0 THEN pay(gas, bytes(stored[item])) ELSE gas)
        /\ UNCHANGED stored

HostBalance ==
    /\ HostFunction(pay(contract.gas, ws_get(tx.version, Balance, 8)))
    /\ UNCHANGED stored

\* prev_block_hash, calling_account, current_account, method, arguments and
\* transaction_hash write, the defer functions read.
HostBytes(len) ==
    /\ HostFunction(pay(contract.gas, bytes(len)))
    /\ UNCHANGED stored

\* transfer_from_contract.
pay_transfer(gas) ==
    LET get == ws_get(tx.version, Balance, 8)
        set == ws_set(tx.version, Balance, 8, 8)
    IN  pay(pay(pay(pay(gas, get), set), get), set)

HostTransfer ==
    /\ HostFunction(pay_transfer(pay(contract.gas, bytes(40))))
    /\ UNCHANGED stored

\* The child's code is loaded; the child goes on with the gas that is left, and the
\* parent with what the child leaves.
HostCall(len, with_amount) ==
    LET read == pay(contract.gas, bytes(len))
    IN  /\ HostFunction(pay(IF with_amount THEN pay_transfer(read) ELSE read,
                            ws_get(tx.version, Code, stored[Code])))
        /\ UNCHANGED stored

\* sha256, keccak256 and ripemd, whose digest has 20 bytes, or a signature.
HostCrypto(len) ==
    LET read == pay(contract.gas, bytes(len))
    IN  /\ \/ \E digest \in {20, 32} :
                  HostFunction(pay(pay(read, deduct(hash_cost(len))), bytes(digest)))
           \/ HostFunction(pay(pay(pay(read, bytes(64)), bytes(32)), deduct(verify_ed25519_cost(len))))
        /\ UNCHANGED stored

\* log and return_value fail if there is no gas for their output.
HostOutput(len, cost) ==
    LET read == pay(contract.gas, bytes(len))
    IN  /\ InContract /\ ops < MaxOps
        /\ contract' = [contract EXCEPT !.gas = pay(read, deduct(cost)), !.trapped = cost > read]
        /\ ops' = ops + 1
        /\ UNCHANGED <<ContractVars, stored>>

\* CallInstance::call, with an error of the contract or not. A host function that fails
\* has paid for its first operations, as HostBytes and HostBalance do.
EndContract ==
    LET consumed == saturating_sub(contract.limit, contract.gas)
        cost     == charge(deduct(consumed))
    IN  /\ stage = "contract"
        /\ current' = cost
        /\ \E ok \in BOOLEAN : (contract.trapped => ~ ok) /\ Finish(ok /\ not_exhausted(cost), "none")
        /\ contract' = NoContract
        /\ UNCHANGED <<tx, inclusion, executed, stored, command, ops>>

-----------------------------------------------------------------------------

\* take_current_command_result. After an error the transaction ends.
TakeCommandResult ==
    LET gas_used == min(net_cost(current), saturating_sub(tx.limit, used_before))
        last     == command = Len(tx.kinds) \/ ~ outcome.ok
    IN  /\ stage = "done"
        /\ executed' = saturating_add(executed, gas_used)
        /\ current' = Zero
        /\ stage' = IF last THEN "end" ELSE "command"
        /\ command' = IF last THEN command ELSE command + 1
        /\ outcome' = NoOutcome
        /\ UNCHANGED <<tx, inclusion, stored, contract, ops>>

StorageStep ==
    \E item \in Storage \cup {Balance} :
        \/ WsRead(item)
        \/ item \in Storage /\ \E new \in ValueLens : WsSet(item, new)
        \/ item = Balance /\ WsSet(item, 8)

HostStep ==
    \/ \E item \in Storage : HostGet(item) \/ \E new \in ValueLens : HostSet(item, new)
    \/ HostBalance
    \/ HostTransfer
    \/ \E len \in ValueLens :
           \/ HostBytes(len)
           \/ HostCrypto(len)
           \/ \E with_amount \in BOOLEAN : HostCall(len, with_amount)
           \/ HostOutput(len, blockchain_storage_cost(len))
           \/ \E topic \in ValueLens : HostOutput(topic + len + 8, blockchain_log_cost(topic, len))

CommandStep ==
    \/ StorageStep
    \/ EndCommand
    \/ SetOutput
    \/ Transfer
    \/ Deploy
    \/ \E with_amount \in BOOLEAN : Call(with_amount)

MeterNext ==
    \/ \E version \in {"V1", "V2"}, limit \in Limits, tx_size \in TxSizes,
          n \in 0 .. MaxCommands : \E kinds \in [1 .. n -> CommandKinds] :
              ChargeInclusion(version, limit, tx_size, kinds)
    \/ CommandStep
    \/ \E cost \in BlockCosts : WasmBlock(cost)
    \/ HostStep
    \/ EndContract
    \/ TakeCommandResult

MeterSpec == MeterInit /\ [][MeterNext]_meterVars

-----------------------------------------------------------------------------

\* The types of the variables.
MeterTypeOK ==
    /\ tx.limit \in U64
    /\ inclusion \in U64 /\ executed \in U64
    /\ current \in CostChange
    /\ contract \in [limit : U64, gas : U64, trapped : BOOLEAN]
    /\ stored \in [Items -> Nat]

\* A contract can be given no more gas than the transaction has left: with all it has
\* consumed so far, the command stays within the gas limit. The check after the call
\* (account.rs:214) never turns a call that succeeded into one that ran out of gas.
CallWithinLimit ==
    stage = "contract" =>
        total_gas_used(current) + (contract.limit - contract.gas) <= tx.limit

\* The gas a contract consumed is added in full to what the command is charged. Charges
\* and rewards saturate separately, so a reward of the setup (the balances that are
\* written again) could outlive a saturated charge; the gas of the inclusion, which the
\* contract cannot get, is larger than those rewards.
ContractGasInFull ==
    [][stage = "contract" /\ stage' = "done" =>
        net_cost(current') = net_cost(current) + (contract.limit - contract.gas)]_meterVars

\* Every host function that does something costs gas or finds none left, also one that
\* deletes data and is refunded more than it costs: the refund of an operation ends with it.
HostFunctionsCost ==
    [][stage = "contract" /\ contract' # NoContract => contract'.gas < contract.gas \/ contract'.gas = 0]_meterVars

\* A command that succeeds is charged all of its cost: the clamp of its gas to what the
\* limit leaves (gas_meter.rs:98) is only for commands that fail.
SuccessIsPaidInFull == stage = "done" /\ outcome.ok => total_gas_used(current) <= tx.limit

\* The amount of a staking command that succeeds is missing from its output only when
\* the command had earned more rewards than it was charged, or its charges saturate.
OutputLostOnlyToRewards ==
    [][outcome'.output = "withheld" /\ outcome'.ok =>
        current.reward > current.deduct \/ current'.deduct = MaxU64]_meterVars

\* As the comments in WithdrawDeposit and at manually_charge_gas have it, a staking command
\* that cannot pay for its output exhausts the gas; it does not succeed without output.
OutputOrExhaustion == stage = "done" /\ outcome.output = "withheld" => ~ outcome.ok

=============================================================================
