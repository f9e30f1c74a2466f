---------------------------- MODULE Transaction ----------------------------
(***************************************************************************)
(* The transition function: transition_v1, transition_v2 and               *)
(* transition_v1_to_v2, down to the phases of a transaction, the stack of  *)
(* commands, the write set of the world state cache, the gas meter and the *)
(* receipts.  A step of the model is a phase or one command; transitions   *)
(* run one at a time, on the world state the caller hands in.              *)
(*                                                                         *)
(* Release builds check for overflow (Cargo.toml), so an overflow panics.  *)
(***************************************************************************)
EXTENDS Ledger, FiniteSetsExt

VARIABLES
    world,    \* the world state in the hands of the caller
    phase,    \* "idle", "submitted", "commands" or "panicked"
    tx, bd,   \* transaction and blockchain parameters of the transition
    ws,       \* WorldState inside the cache: written directly by the phases
    writes,   \* write set of the cache: balance and deposit, None where not written
    gas,      \* gas meter: inclusion, executed
    stack,    \* ExecutableCommands, next command first
    receipts, \* CommandReceiptBuffer
    error,    \* the error that ended the commands phase, or None
    result    \* of the last transition: error, receipt, changes

execution == <<tx, bd, ws, writes, gas, stack, receipts, error>>
vars == <<world, phase, execution, result>>

NoWrites == [balance |-> [a \in Accounts |-> None], deposit |-> [a \in Accounts |-> None]]

NoGas == [inclusion |-> 0, executed |-> 0]

\* WorldStateCache: a read finds what was written before, else the world state.
balance(w, a) == IF w.balance[a] # None THEN w.balance[a] ELSE ws.balance[a]

deposit(w, a) == IF w.deposit[a] # None THEN w.deposit[a] ELSE ws.deposit[a]

set_balance(w, a, value) == [w EXCEPT !.balance = [@ EXCEPT ![a] = value]]

set_deposit(w, a, value) == [w EXCEPT !.deposit = [@ EXCEPT ![a] = value]]

commit_to_world_state(s, w) ==
    [s EXCEPT !.balance = [a \in Accounts |-> IF w.balance[a] # None THEN w.balance[a] ELSE @[a]],
              !.deposit = [a \in Accounts |-> IF w.deposit[a] # None THEN w.deposit[a] ELSE @[a]]]

\* Debit, read again, credit.
transfer(w, from, to, amount) ==
    LET debited == set_balance(w, from, balance(w, from) - amount)
    IN  set_balance(debited, to, saturating_add(balance(debited, to), amount))

-----------------------------------------------------------------------------
(***************************************************************************)
(* The effect of one command on the write set.  error ends a command       *)
(* before its gas is checked, trap (the error of a contract) after.        *)
(***************************************************************************)

Done(w, trap) == [error |-> None, trap |-> trap, writes |-> w]
Failed(e) == [error |-> e, trap |-> None, writes |-> writes]

ExecuteTransfer(cmd) ==
    IF balance(writes, tx.signer) < cmd.amount THEN Failed("NotEnoughBalanceForTransfer")
    ELSE Done(transfer(writes, tx.signer, cmd.to, cmd.amount), None)

\* The contract sends back cmd.pay, or fails when it cannot.
ExecuteCall(cmd) ==
    LET paid == transfer(writes, tx.signer, cmd.to, cmd.amount)
    IN  IF balance(writes, tx.signer) < cmd.amount THEN Failed("NotEnoughBalanceForTransfer")
        ELSE IF cmd.error = "InvalidCBI" THEN Failed("InvalidCBI")
        ELSE IF balance(paid, cmd.to) < cmd.pay THEN Done(paid, "InternalRuntimeError")
        ELSE Done(transfer(paid, cmd.to, tx.signer, cmd.pay), cmd.error)

ExecuteTopUp(actor, amount) ==
    IF balance(writes, actor) < amount THEN Failed("NotEnoughBalanceForTransfer")
    ELSE Done(set_deposit(set_balance(writes, actor, balance(writes, actor) - amount),
                          actor, saturating_add(deposit(writes, actor), amount)), None)

\* An entry of the stack is a command of the transaction or a deferred one.
Sent(cmd) == [sent |-> TRUE, cmd |-> cmd]
Deferred(contract, amount) == [sent |-> FALSE, contract |-> contract, amount |-> amount]

Execute(entry) ==
    CASE ~entry.sent -> ExecuteTopUp(entry.contract, entry.amount)
      [] entry.sent /\ entry.cmd.kind = "Transfer" -> ExecuteTransfer(entry.cmd)
      [] entry.sent /\ entry.cmd.kind = "Call" -> ExecuteCall(entry.cmd)
      [] entry.sent /\ entry.cmd.kind = "TopUpDeposit" -> ExecuteTopUp(tx.signer, entry.cmd.amount)

\* What a successful command adds on top of the stack.
deferred_commands(entry) ==
    IF entry.sent /\ entry.cmd.kind = "Call"
    THEN [i \in DOMAIN entry.cmd.defer |-> Deferred(entry.cmd.to, entry.cmd.defer[i])]
    ELSE <<>>

\* Mutant: deferred commands run after all commands of the transaction.
PushDeferredAtBottom(commands, rest) == rest \o commands

\* The stack is a Vec in reverse; what is pushed last runs first.
push_deferred_commands(commands, rest) == commands \o rest

total_gas_used_for_executed_commands == saturating_add(gas.inclusion, gas.executed)

exit_code(e) ==
    IF e = None THEN "Ok"
    ELSE IF e = "ExecutionProperGasExhausted" THEN "GasExhausted"
    ELSE "Error"

\* Mutant: the gas of the last command is not clamped.
Unclamped(cost) == cost

\* take_current_command_result: what the current command is charged.
clamped(cost) == min(cost, saturating_sub(tx.gas_limit, total_gas_used_for_executed_commands))

\* Mutant: only a successful command leaves a receipt.
PushOnSuccess(kind, e, gas_used) ==
    IF e = None THEN Append(receipts, [kind |-> kind, exit_code |-> "Ok", gas_used |-> gas_used])
    ELSE receipts

\* The receipt of a command of the transaction, and of a deferred command, which
\* is folded into the last one.
push_command_receipt(kind, e, gas_used) ==
    Append(receipts, [kind |-> kind, exit_code |-> exit_code(e), gas_used |-> gas_used])

push_deferred_command_receipt(e, gas_used) ==
    LET last == receipts[Len(receipts)]
    IN  [receipts EXCEPT ![Len(receipts)] =
            [kind |-> last.kind, exit_code |-> exit_code(e),
             gas_used |-> saturating_add(last.gas_used, gas_used)]]

\* Mutant: the tail starts one command too late.
NotExecutedOffByOne(rs) ==
    [i \in 1 .. saturating_sub(Len(tx.commands), Len(rs) + 1) |->
        [kind |-> tx.commands[Len(rs) + 1 + i].kind, exit_code |-> "NotExecuted", gas_used |-> 0]]

\* What a V2 receipt adds for the commands after the last executed one.
not_executed(rs) ==
    [i \in 1 .. Len(tx.commands) - Len(rs) |->
        [kind |-> tx.commands[Len(rs) + i].kind, exit_code |-> "NotExecuted", gas_used |-> 0]]

into_receipt(rs) ==
    IF tx.version = 1
    THEN [gas_used |-> None, exit_code |-> None, command_receipts |-> rs]
    ELSE [gas_used |-> total_gas_used_for_executed_commands,
          exit_code |-> IF rs = <<>> THEN "Ok" ELSE rs[Len(rs)].exit_code,
          command_receipts |-> rs \o not_executed(rs)]

\* The unwrap of into_receipt: commands, but no receipt.
into_receipt_panics == tx.version = 2 /\ tx.commands # <<>> /\ receipts = <<>>

-----------------------------------------------------------------------------

Init ==
    /\ world \in Geneses
    /\ phase = "idle"
    /\ tx = None /\ bd = None
    /\ ws = world
    /\ writes = NoWrites
    /\ gas = NoGas
    /\ stack = <<>>
    /\ receipts = <<>>
    /\ error = None
    /\ result = None

\* A transition builds its ExecutionState around the world state ...
Submit(t, b) ==
    /\ phase = "idle"
    /\ world.nonce[t.signer] <= MaxNonce
    /\ phase' = "submitted"
    /\ tx' = t
    /\ bd' = b
    /\ ws' = world
    /\ result' = None
    /\ UNCHANGED <<world, writes, gas, stack, receipts, error>>

\* ... and consumes it to return the next world state and a result.
Return(new_state, res) ==
    /\ phase' = "idle"
    /\ world' = new_state
    /\ result' = res
    /\ tx' = None
    /\ bd' = None
    /\ ws' = new_state
    /\ writes' = NoWrites
    /\ gas' = NoGas
    /\ stack' = <<>>
    /\ receipts' = <<>>
    /\ error' = None

Panic == phase' = "panicked" /\ UNCHANGED <<world, execution, result>>

has_next_epoch == \E i \in DOMAIN tx.commands : tx.commands[i].kind = "NextEpoch"

fee_per_gas == bd.base_fee + tx.priority_fee

pre_charge_error ==
    IF tx_inclusion_cost(tx) > tx.gas_limit THEN "PreExecutionGasExhausted"
    ELSE IF tx.nonce # ws.nonce[tx.signer] THEN "WrongNonce"
    ELSE IF fee_per_gas > MaxU64 \/ tx.gas_limit * fee_per_gas > min(MaxU64, ws.balance[tx.signer])
    THEN "NotEnoughBalanceForGasLimit"
    ELSE None

PreCharge ==
    /\ phase = "submitted"
    /\ ~has_next_epoch
    /\ \/ /\ pre_charge_error # None
          /\ ~into_receipt_panics
          /\ Return(commit_to_world_state(ws, writes),
                    [error |-> pre_charge_error, receipt |-> None, changes |-> FALSE])
       \/ /\ pre_charge_error # None
          /\ into_receipt_panics
          /\ Panic
       \/ /\ pre_charge_error = None
          /\ phase' = "commands"
          /\ ws' = [ws EXCEPT !.balance[tx.signer] = @ - tx.gas_limit * fee_per_gas]
          /\ gas' = [gas EXCEPT !.inclusion = tx_inclusion_cost(tx)]
          /\ stack' = [i \in DOMAIN tx.commands |-> Sent(tx.commands[i])]
          /\ UNCHANGED <<world, tx, bd, writes, receipts, error, result>>

\* One round of the loop of execute_commands: execute the next command, take its
\* result from the gas meter, push its receipt, then defer or abort.
ExecuteCommand(cost) ==
    LET entry     == Head(stack)
        outcome   == Execute(entry)
        exhausted == tx.gas_limit < saturating_add(total_gas_used_for_executed_commands, cost)
        err       == IF outcome.error # None THEN outcome.error
                     ELSE IF exhausted THEN "ExecutionProperGasExhausted"
                     ELSE outcome.trap
        gas_used  == clamped(cost)
    IN  /\ phase = "commands"
        /\ error = None
        /\ stack # <<>>
        /\ writes' = IF err = None THEN outcome.writes ELSE NoWrites
        /\ gas' = [gas EXCEPT !.executed = saturating_add(@, gas_used)]
        /\ receipts' = IF entry.sent THEN push_command_receipt(entry.cmd.kind, err, gas_used)
                       ELSE push_deferred_command_receipt(err, gas_used)
        /\ stack' = IF err = None THEN push_deferred_commands(deferred_commands(entry), Tail(stack))
                    ELSE Tail(stack)
        /\ error' = err
        /\ UNCHANGED <<world, phase, tx, bd, ws, result>>

\* Mutant: an error does not end the loop.
StackIsEmpty == stack = <<>>

\* The loop ends with the stack, or with the first error.
commands_done == error # None \/ stack = <<>>

\* The balances that charge computes, in the order of its statements; each
\* account may play several of the roles.
charged_gas == min(total_gas_used_for_executed_commands, tx.gas_limit)

new_signer_balance ==
    balance(writes, tx.signer) + saturating_sub(tx.gas_limit, charged_gas) * fee_per_gas

new_proposer_balance ==
    LET before == IF tx.signer = bd.proposer THEN new_signer_balance
                  ELSE balance(writes, bd.proposer)
    IN  saturating_add(before, charged_gas * tx.priority_fee)

treasury_cut == (charged_gas * bd.base_fee * TreasuryNum) \div TreasuryDenom

\* Mutant: a treasury that proposes the block is not recognised.
TreasuryIgnoresProposer ==
    saturating_add(IF tx.signer = bd.treasury THEN new_signer_balance
                   ELSE balance(writes, bd.treasury), treasury_cut)

\* Mutant: the sum of the treasury's balance and its cut does not saturate.
TreasuryUnsaturated ==
    treasury_cut + (IF bd.proposer = bd.treasury THEN new_proposer_balance
                    ELSE IF tx.signer = bd.treasury THEN new_signer_balance
                    ELSE balance(writes, bd.treasury))

new_treasury_balance ==
    LET before == IF bd.proposer = bd.treasury THEN new_proposer_balance
                  ELSE IF tx.signer = bd.treasury THEN new_signer_balance
                  ELSE balance(writes, bd.treasury)
    IN  saturating_add(before, treasury_cut)

charge_panics ==
    \/ new_signer_balance > MaxU64
    \/ charged_gas * bd.base_fee * TreasuryNum > MaxU64
    \/ into_receipt_panics

\* purge_balance takes the three accounts out of the write set, charge sets
\* them in the world state, finalize_receipt commits the rest.
Charge ==
    LET purged  == [writes EXCEPT !.balance = [@ EXCEPT ![tx.signer] = None,
                                                        ![bd.proposer] = None,
                                                        ![bd.treasury] = None]]
        charged == [ws EXCEPT
                       !.balance = [@ EXCEPT ![tx.signer] = new_signer_balance,
                                             ![bd.proposer] = new_proposer_balance,
                                             ![bd.treasury] = new_treasury_balance],
                       !.nonce[tx.signer] = saturating_add(@, 1)]
    IN  /\ phase = "commands"
        /\ commands_done
        /\ \/ charge_panics /\ Panic
           \/ /\ ~charge_panics
              /\ Return(commit_to_world_state(charged, purged),
                        [error |-> error, receipt |-> into_receipt(receipts), changes |-> FALSE])

\* execute_next_epoch, on the network account behind module Staking.
next_epoch_valid ==
    /\ Len(tx.commands) = 1
    /\ tx.commands[1].kind = "NextEpoch"
    /\ bd.performance
    /\ tx.nonce = ws.nonce[tx.signer]

next_epoch_state ==
    [ws EXCEPT !.epoch = @ + 1, !.nonce[tx.signer] = saturating_add(@, 1)]

next_epoch_receipt == into_receipt(<<[kind |-> "NextEpoch", exit_code |-> "Ok", gas_used |-> 0]>>)

EpochTransaction ==
    /\ phase = "submitted"
    /\ has_next_epoch
    /\ \/ /\ next_epoch_valid
          /\ Return(next_epoch_state,
                    [error |-> None, receipt |-> next_epoch_receipt, changes |-> TRUE])
       \/ /\ ~next_epoch_valid
          /\ Return(ws, [error |-> "InvalidNextEpochCommand", receipt |-> None, changes |-> FALSE])

\* transition_v1_to_v2 runs the epoch transaction and upgrades its result; its
\* caller keeps the old world state when either fails.
Upgrade ==
    /\ phase = "submitted"
    /\ tx.version = 1
    /\ world.version = 1
    /\ \/ /\ ~next_epoch_valid
          /\ Return(world, [error |-> "InvalidNextEpochCommand", receipt |-> None, changes |-> FALSE])
       \/ /\ next_epoch_valid
          /\ Return([next_epoch_state EXCEPT !.version = 2],
                    [error |-> None, receipt |-> next_epoch_receipt, changes |-> TRUE])
       \/ /\ next_epoch_valid
          /\ Return(world, [error |-> "FailedWorldStateUpgrade", receipt |-> None, changes |-> FALSE])

-----------------------------------------------------------------------------

Next ==
    \/ \E t \in Txns, b \in Blocks : Submit(t, b)
    \/ PreCharge
    \/ \E cost \in Costs : ExecuteCommand(cost)
    \/ Charge
    \/ EpochTransaction
    \/ Upgrade

Spec == Init /\ [][Next]_vars

\* A transition is a sequence of calls in one thread: it does not stop half way.
FairSpec ==
    Spec /\ WF_vars(PreCharge \/ (\E cost \in Costs : ExecuteCommand(cost)) \/ Charge
                        \/ EpochTransaction \/ Upgrade)

-----------------------------------------------------------------------------

CommandReceipt ==
    [kind : Kinds, exit_code : {"Ok", "Error", "GasExhausted", "NotExecuted"}, gas_used : U64]

\* The types of the variables.
TypeOK ==
    /\ world \in WorldState
    /\ phase \in {"idle", "submitted", "commands", "panicked"}
    /\ phase = "idle" => tx = None /\ bd = None
    /\ phase # "idle" => tx \in Transaction /\ bd \in Block
    /\ ws \in WorldState
    /\ writes \in [balance : [Accounts -> U64 \cup {None}], deposit : [Accounts -> U64 \cup {None}]]
    /\ gas \in [inclusion : U64, executed : U64]
    /\ \A i \in DOMAIN receipts : receipts[i] \in CommandReceipt

\* All tokens of a world state.
Wealth(w) == SumFunction(w.balance) + SumFunction(w.deposit)

gas_in(rs) == SumFunction([i \in DOMAIN rs |-> rs[i].gas_used])

\* The gas meter never runs past the gas limit that the signer has paid for in
\* advance: inclusion and all clamped commands together stay within it
\* (take_current_command_result), and the receipts account for every unit, the
\* receipts into which deferred commands were folded included.
GasAccounted ==
    phase = "commands" =>
        /\ gas.inclusion + gas.executed <= tx.gas_limit
        /\ gas_in(receipts) = gas.executed

\* Between a transaction's submission and its answer, tokens change hands and are
\* burnt in the amount that the receipts tell: the gas in the receipts and the
\* inclusion, at the base fee, less the treasury's cut.  Whoever of signer,
\* proposer and treasury coincide, charge creates and loses nothing else, while all
\* tokens together fit in a u64.
FeesMatchReceipts ==
    [][phase = "commands" /\ phase' = "idle" /\ Wealth(world) <= MaxU64 =>
          LET used == gas.inclusion + gas_in(result'.receipt.command_receipts)
              base == used * bd.base_fee
          IN  Wealth(world) - Wealth(world') = base - (base * TreasuryNum) \div TreasuryDenom]_vars

\* The receipts of an answered transaction: executed commands, in order, all Ok
\* but possibly the last; the exit code of the last is Ok exactly when there is
\* no error.  A V2 receipt has an entry for every command of the transaction, the
\* ones after the last executed command NotExecuted, and repeats its exit code.
ReceiptsTellOutcome ==
    [][phase = "commands" /\ phase' = "idle" /\ tx.commands # <<>> =>
          LET receipt == result'.receipt
              rs      == receipt.command_receipts
              n       == Len(receipts)
          IN  /\ n \in 1 .. Len(tx.commands)
              /\ Len(rs) = IF tx.version = 1 THEN n ELSE Len(tx.commands)
              /\ \A i \in DOMAIN rs :
                     /\ rs[i].kind = tx.commands[i].kind
                     /\ i < n => rs[i].exit_code = "Ok"
                     /\ i > n => rs[i].exit_code = "NotExecuted"
              /\ rs[n].exit_code = exit_code(result'.error)
              /\ result'.error = None => n = Len(tx.commands)
              /\ tx.version = 2 => receipt.exit_code = rs[n].exit_code]_vars

\* While TREASURY_CUT_OF_BASE_FEE_NUM times all tokens fit in a u64, none of the
\* unchecked additions and multiplications of charge overflows.
ChargeDoesNotPanic ==
    /\ phase = "commands"
    /\ commands_done
    /\ TreasuryNum * Wealth(world) <= MaxU64
    => ~charge_panics

\* Every transition comes to its end: deferred commands do not keep the stack
\* from running empty.
Answered == phase # "idle" ~> phase \in {"idle", "panicked"}

\* As documented for TransitionV2Result: a transaction that fails a check of the
\* pre-charge phase is answered, without a receipt.
PreChargeErrorsAreAnswered == phase = "panicked" => receipts # <<>>

=============================================================================
