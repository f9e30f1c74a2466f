--------------------------- MODULE ContractCalls ---------------------------
(***************************************************************************)
(* A Call command: the contract it calls, the contracts that one calls in  *)
(* turn, and the gas, balances, storage, return value and deferred         *)
(* commands they share (commands/account.rs, contract/host_functions.rs,   *)
(* contract/instance.rs, gas/wasmer_gas.rs, context.rs).  A contract is    *)
(* any sequence of Wasm blocks and host function calls; Wasmer is          *)
(* external.  A host function holds the mutexes of the context and of the  *)
(* gas global from its first to its last statement and is one step, except *)
(* call: it drops both while the child runs, so it is a step that pushes a *)
(* frame and one that pops it.                                             *)
(***************************************************************************)
EXTENDS Arith, Sequences, FiniteSetsExt

CONSTANTS
    Contracts, \* addresses with code
    Limits,    \* gas left for the command
    Costs,     \* of a Wasm block or of a host function
    Amounts,
    MaxDepth,    \* bound on nested calls; the code has no other bound than gas
    MaxDeferred  \* bound on deferred commands, likewise

ASSUME CostsAssumption == Limits \subseteq Nat /\ Costs \subseteq Nat \ {0}
ASSUME ContractsAssumption == IsFiniteSet(Contracts)
ASSUME DepthAssumption == MaxDepth \in Nat \ {0} /\ MaxDeferred \in Nat /\ Amounts \subseteq U64

VARIABLES
    frames,       \* running contracts, the innermost last
    error,        \* what is unwinding the innermost frame, or "none"
    ws,           \* balances of the contracts in the world state
    balance,      \* and with the write set on top
    stored,       \* contracts whose storage is in the write set
    return_value, \* depth of the frame that set it, or 0
    deferred,     \* contracts in whose name commands were deferred, in order
    result        \* of the command, with the deferred commands the executor gets

vars == <<frames, error, ws, balance, stored, return_value, deferred, result>>

Frame == [target : Contracts, limit : Nat, gas : Nat, is_view : BOOLEAN]

NoResult == [error |-> "pending", gas_used |-> 0, limit |-> 0, deferred |-> <<>>]

depth == Len(frames)
top == frames[depth]

\* The Call opcode in front of every host function costs 2, any block that loops
\* costs something: one unit here.
CallCost == 1

\* The innermost frame after it was charged: WasmerGasGlobal::subtract_gas.
WithGas(g) == [frames EXCEPT ![depth] = [target |-> top.target, limit |-> top.limit,
                                          gas |-> g, is_view |-> top.is_view]]

Running == frames # <<>> /\ error = "none"

-----------------------------------------------------------------------------

Init ==
    /\ frames = <<>>
    /\ error = "none"
    /\ ws \in [Contracts -> Amounts]
    /\ balance = ws
    /\ stored = {}
    /\ return_value = 0
    /\ deferred = <<>>
    /\ result = NoResult

\* CallInstance::instantiate, from a command or from a view.
Instantiate(target, limit, is_view) ==
    /\ frames = <<>> /\ result = NoResult
    /\ frames' = <<[target |-> target, limit |-> limit, gas |-> limit, is_view |-> is_view]>>
    /\ UNCHANGED <<ws, deferred, error, balance, stored, return_value, result>>

\* Wasmer's metering checks the cost of a block before it runs.
WasmBlock(cost) ==
    /\ Running
    /\ IF top.gas < cost
       THEN frames' = WithGas(0) /\ error' = "trap"
       ELSE frames' = WithGas(top.gas - cost) /\ UNCHANGED error
    /\ UNCHANGED <<ws, deferred, balance, stored, return_value, result>>

\* A division by zero, unreachable, an access outside of the memory ...
WasmTrap ==
    /\ Running
    /\ error' = "trap"
    /\ UNCHANGED <<ws, deferred, frames, balance, stored, return_value, result>>

\* Mutant: the charge does not saturate.
HostGasUnsaturated(cost) == top.gas - CallCost - cost

\* Mutant: a host function and the opcode that calls it are free.
HostGasUncharged(cost) == top.gas

\* What a host function leaves of the gas. The charge saturates: the function is
\* carried out even if it cannot be paid for, and the next block traps.
HostGas(cost) == saturating_sub(top.gas - CallCost, cost)

Invoke(cost) == Running /\ top.gas >= CallCost /\ frames' = WithGas(HostGas(cost))

\* read_bytes, write_bytes, deserialize or the check of the command's kind fails; so do
\* set, transfer and the deferring functions in a view.
HostFunctionFails(cost) ==
    /\ Invoke(cost)
    /\ error' = "func"
    /\ UNCHANGED <<ws, deferred, balance, stored, return_value, result>>

SetStorage(cost) ==
    /\ Invoke(cost)
    /\ ~ top.is_view
    /\ stored' = stored \cup {top.target}
    /\ UNCHANGED <<ws, deferred, error, balance, return_value, result>>

\* Mutant: both balances are read before either is written.
TransferOfReadBalances(signer, amount, recipient) ==
    [balance EXCEPT ![signer] = balance[signer] - amount,
                    ![recipient] = saturating_add(balance[recipient], amount)]

\* transfer_from_contract: the balances it leaves.
transfer_from_contract(signer, amount, recipient) ==
    LET debited == [balance EXCEPT ![signer] = balance[signer] - amount]
    IN  [debited EXCEPT ![recipient] = saturating_add(debited[recipient], amount)]

Transfer(cost, amount, recipient) ==
    /\ Invoke(cost)
    /\ ~ top.is_view
    /\ IF balance[top.target] < amount
       THEN error' = "func" /\ UNCHANGED balance
       ELSE /\ balance' = transfer_from_contract(top.target, amount, recipient)
            /\ UNCHANGED error
    /\ UNCHANGED <<ws, deferred, stored, return_value, result>>

\* The six defer_* functions: the command will be executed in the contract's name.
Defer(cost) ==
    /\ Invoke(cost)
    /\ ~ top.is_view
    /\ Len(deferred) < MaxDeferred
    /\ deferred' = Append(deferred, top.target)
    /\ UNCHANGED <<ws, error, balance, stored, return_value, result>>

\* log and return_value pay for the bytes they read, of the gas that is left, and fail if the
\* rest is less than the cost of their output. An empty output costs nothing.
OutputCosts == Costs \cup {0}
OutputGas(cost, output) == saturating_sub(HostGas(cost), output)

\* The output of log is part of module GasMeter.
Log(cost, output) ==
    /\ Running /\ top.gas >= CallCost
    /\ frames' = WithGas(OutputGas(cost, output))
    /\ error' = IF output > HostGas(cost) THEN "exhausted" ELSE error
    /\ UNCHANGED <<ws, deferred, balance, stored, return_value, result>>

ReturnValue(cost, output) ==
    /\ Running /\ top.gas >= CallCost
    /\ frames' = WithGas(OutputGas(cost, output))
    /\ IF output > HostGas(cost)
       THEN error' = "exhausted" /\ UNCHANGED return_value
       ELSE return_value' = depth /\ UNCHANGED error
    /\ UNCHANGED <<ws, deferred, balance, stored, result>>

\* Mutant: a child gets the limit of its parent.
ChildFrameOfLimit(target, gas) ==
    [target |-> target, limit |-> top.limit, gas |-> top.limit, is_view |-> top.is_view]

\* Mutant: a child starts as an ordinary call.
ChildFrameNotView(target, gas) ==
    [target |-> target, limit |-> gas, gas |-> gas, is_view |-> FALSE]

\* The child of a view is a view and gets the gas the parent has left.
ChildFrame(target, gas) ==
    [target |-> target, limit |-> gas, gas |-> gas, is_view |-> top.is_view]

\* The first half of the host function call. An amount of 0 stands for None.
Call(cost, target, amount) ==
    /\ Running /\ top.gas >= CallCost /\ depth < MaxDepth
    /\ IF \/ top.is_view /\ amount # 0
          \/ balance[top.target] < amount
       THEN frames' = WithGas(HostGas(cost)) /\ error' = "func" /\ UNCHANGED balance
       ELSE /\ frames' = Append(WithGas(HostGas(cost)), ChildFrame(target, HostGas(cost)))
            /\ balance' = transfer_from_contract(top.target, amount, target)
            /\ UNCHANGED error
    /\ UNCHANGED <<ws, deferred, stored, return_value, result>>

\* The callee is not found or not instantiated, after the amount was transferred.
CallFindsNoContract(cost, target, amount) ==
    /\ Invoke(cost)
    /\ ~ (top.is_view /\ amount # 0)
    /\ balance[top.target] >= amount
    /\ balance' = transfer_from_contract(top.target, amount, target)
    /\ error' = "func"
    /\ UNCHANGED <<ws, deferred, stored, return_value, result>>

\* ContractInstance::call: the gas a frame used.
total_gas(f) == saturating_sub(f.limit, f.gas)

parent == frames[depth - 1]

\* Mutant: the parent is not charged for the child.
NotDeducted == parent.gas

\* The second half of call: deduct_gas(child_call_gas_consumed).
deducted == saturating_sub(parent.gas, total_gas(top))

ParentWithGas(g) == [SubSeq(frames, 1, depth - 1) EXCEPT ![depth - 1] =
    [target |-> parent.target, limit |-> parent.limit, gas |-> g, is_view |-> parent.is_view]]

\* Mutant: the return value is read and left in place.
ReturnKeepsValue(cost) ==
    /\ Running /\ depth > 1
    /\ frames' = ParentWithGas(IF return_value = 0 THEN deducted ELSE saturating_sub(deducted, cost))
    /\ UNCHANGED <<ws, deferred, error, balance, stored, return_value, result>>

\* The child returns, and its return value is taken and written to the parent's memory,
\* where write_bytes may fail.
Return(cost) ==
    /\ Running /\ depth > 1
    /\ frames' = ParentWithGas(IF return_value = 0 THEN deducted ELSE saturating_sub(deducted, cost))
    /\ return_value' = 0
    /\ error' = "none" \/ (return_value # 0 /\ error' = "func")
    /\ UNCHANGED <<ws, deferred, balance, stored, result>>

\* Mutant: the parent goes on after an error of the child that left gas.
UnwindIntoParent ==
    /\ error # "none" /\ depth > 1
    /\ frames' = ParentWithGas(deducted)
    /\ error' = IF deducted = 0 THEN "exhausted" ELSE "none"
    /\ UNCHANGED <<ws, deferred, balance, stored, return_value, result>>

\* A child's error is an error of the parent's host function.
Unwind ==
    /\ error # "none" /\ depth > 1
    /\ frames' = ParentWithGas(deducted)
    /\ error' = IF deducted = 0 THEN "exhausted" ELSE "func"
    /\ UNCHANGED <<ws, deferred, balance, stored, return_value, result>>

\* Mutant: the gas left is not looked at.
TransitionErrorOfTrap ==
    CASE error = "none" -> "none"
      [] error = "exhausted" -> "ExecutionProperGasExhausted"
      [] error = "func" -> "InternalRuntimeError"
      [] error = "trap" -> "RuntimeError"

\* Instance::call_method and TransitionError::from(MethodCallError).
TransitionError ==
    CASE error = "none" -> "none"
      [] error # "none" /\ top.gas = 0 -> "ExecutionProperGasExhausted"
      [] error = "exhausted" /\ top.gas # 0 -> "ExecutionProperGasExhausted"
      [] error = "func" /\ top.gas # 0 -> "InternalRuntimeError"
      [] error = "trap" /\ top.gas # 0 -> "RuntimeError"

\* What the executor pushes of the deferred commands that complete_cmd_execution takes.
deferred_cmds_from_execution == IF error = "none" THEN deferred ELSE <<>>

\* CallInstance::call and the end of the command. An error reverts the write set.
Finish ==
    /\ depth = 1
    /\ result' = [error |-> TransitionError, gas_used |-> total_gas(top), limit |-> top.limit,
                   deferred |-> deferred_cmds_from_execution]
    /\ balance' = IF error = "none" THEN balance ELSE ws
    /\ stored' = IF error = "none" THEN stored ELSE {}
    /\ deferred' = <<>>
    /\ frames' = <<>>
    /\ error' = "none"
    /\ UNCHANGED <<ws, return_value>>

WasmStep ==
    \/ \E cost \in Costs : WasmBlock(cost)
    \/ WasmTrap

HostStep ==
    \E cost \in Costs :
        \/ HostFunctionFails(cost)
        \/ SetStorage(cost)
        \/ \E amount \in Amounts, c \in Contracts : Transfer(cost, amount, c)
        \/ Defer(cost)
        \/ \E output \in OutputCosts : Log(cost, output) \/ ReturnValue(cost, output)

CallStep ==
    \/ \E cost \in Costs, c \in Contracts, amount \in Amounts :
           Call(cost, c, amount) \/ CallFindsNoContract(cost, c, amount)
    \/ \E cost \in Costs : Return(cost)
    \/ Unwind
    \/ Finish

Next ==
    \/ \E c \in Contracts, limit \in Limits, is_view \in BOOLEAN : Instantiate(c, limit, is_view)
    \/ WasmStep
    \/ HostStep
    \/ CallStep

Spec == Init /\ [][Next]_vars

FairSpec == Spec /\ WF_vars(Next)

-----------------------------------------------------------------------------

\* The types of the variables; the gas of a frame never exceeds its limit.
TypeOK ==
    /\ frames \in Seq(Frame)
    /\ \A i \in 1..depth : frames[i].gas <= frames[i].limit
    /\ error \in {"none", "trap", "func", "exhausted"}
    /\ ws \in [Contracts -> U64]
    /\ balance \in [Contracts -> U64]
    /\ return_value \in Nat
    /\ deferred \in Seq(Contracts)

\* While a child runs, its limit is what the parent has left: the gas of a nest of
\* calls is handed down whole and is never available twice.
GasIsHandedDown == \A i \in 1..depth - 1 : frames[i + 1].limit = frames[i].gas

\* The gas left for the contract that runs only decreases, through blocks, host
\* functions, calls, returns and unwinding: no sequence of nested calls makes more of
\* the limit given to the command.
GasOnlyDecreases ==
    [][frames # <<>> /\ frames' # <<>> => frames'[Len(frames')].gas <= top.gas]_vars

\* An error of any contract of the nest is an error of the command, and then no command
\* that any of the contracts deferred is executed.
ErrorsReachTheCommand ==
    [][error # "none" =>
          \/ error' # "none"
          \/ result'.error \notin {"none", "pending"} /\ result'.deferred = <<>>]_vars

\* A command reports that the gas was exhausted exactly when it failed with all of its
\* gas used, however deep in the nest that happened and whatever trapped.
ExhaustionIsReported ==
    result.error \notin {"pending", "none"} =>
        (result.error = "ExecutionProperGasExhausted" <=> result.gas_used = result.limit)

\* The amounts that contracts pass on, to themselves and in nested calls too, create no
\* balance, and destroy none while all balances together fit in a u64: then no addition
\* saturates.
BalancesConserved ==
    /\ SumFunction(balance) <= SumFunction(ws)
    /\ SumFunction(ws) <= MaxU64 => SumFunction(balance) = SumFunction(ws)

\* No contract of the nest that a view starts writes a balance or storage or defers a
\* command.
ViewsWriteNothing ==
    frames # <<>> /\ frames[1].is_view => balance = ws /\ stored = {} /\ deferred = <<>>

\* The return value in the receipt of a call that succeeds is one that the contract
\* called by the command set, not a contract called by that one.
ReturnValueIsOwn == result.error = "none" => return_value \in {0, 1}

\* Every call comes to an end, by gas if not by itself.
CallsEnd == frames # <<>> ~> frames = <<>>

\* As the comment in the host function call has it, what a parent takes is the result
\* of the child that returns.
ParentTakesChildResult ==
    [][error = "none" /\ depth > 1 /\ Len(frames') = depth - 1 => return_value \in {0, depth}]_vars

=============================================================================
