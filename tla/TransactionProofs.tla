-------------------------- MODULE TransactionProofs --------------------------
(***************************************************************************)
(* Proofs about the transition function, for any number of accounts,       *)
(* transactions of any length and calls that defer any number of commands. *)
(***************************************************************************)
EXTENDS Transaction, SumProofs

\* A leaf goes to the SMT solver, for a minute at most, unless it names Zenon.
USE SMTT(60)

Writes == [balance : [Accounts -> U64 \cup {None}], deposit : [Accounts -> U64 \cup {None}]]

SentEntry == [sent : {TRUE}, cmd : Command]
DeferredEntry == [sent : {FALSE}, contract : Accounts, amount : U64]
Entry == SentEntry \cup DeferredEntry

\* The stack while there is no error: k deferred commands of the last executed command,
\* then the commands of the transaction that have no receipt yet.
Pending(k) ==
    /\ k \in Nat
    /\ Len(stack) = k + (Len(tx.commands) - Len(receipts))
    /\ \A i \in 1 .. k : ~ stack[i].sent
    /\ \A i \in 1 .. Len(tx.commands) - Len(receipts) :
           stack[k + i] = Sent(tx.commands[Len(receipts) + i])
    /\ k > 0 => receipts # <<>>

\* The receipts so far: those of the first commands, all Ok but possibly the last.
ReceiptsInv ==
    /\ receipts \in Seq(CommandReceipt)
    /\ Len(receipts) <= Len(tx.commands)
    /\ \A i \in 1 .. Len(receipts) : receipts[i].kind = tx.commands[i].kind
    /\ \A i \in 1 .. Len(receipts) : i < Len(receipts) => receipts[i].exit_code = "Ok"
    /\ receipts # <<>> => receipts[Len(receipts)].exit_code = exit_code(error)
    /\ error # None => receipts # <<>>

\* The inductive invariant.
TransactionInv ==
    /\ TypeOK
    /\ phase \in {"idle", "submitted"} => receipts = <<>> /\ error = None /\ gas = NoGas
    /\ phase = "commands" =>
           /\ ReceiptsInv
           /\ ~ has_next_epoch
           /\ stack \in Seq(Entry)
           /\ error = None => \E k \in Nat : Pending(k)
           /\ gas.inclusion + gas.executed <= tx.gas_limit

-----------------------------------------------------------------------------

\* Saturating arithmetic yields a u64.
LEMMA Saturated ==
    \A a, b : saturating_add(a, b) \in U64
  BY U64Assumption DEF saturating_add, saturate, U64

\* None is no u64, so a value that was written is one.
LEMMA ReadType ==
    ASSUME NEW w \in Writes, ws \in WorldState, NEW a \in Accounts
    PROVE  balance(w, a) \in U64 /\ deposit(w, a) \in U64
  BY ZenonT(60) DEF balance, deposit, Writes, WorldState

\* A write to the cache.
LEMMA WriteType ==
    ASSUME NEW w \in Writes, NEW a \in Accounts, NEW value \in U64
    PROVE  set_balance(w, a, value) \in Writes /\ set_deposit(w, a, value) \in Writes
  BY ZenonT(60) DEF set_balance, set_deposit, Writes

\* A transfer of what the payer has.
LEMMA TransferType ==
    ASSUME NEW w \in Writes, ws \in WorldState, NEW from \in Accounts, NEW to \in Accounts,
           NEW amount \in U64, balance(w, from) >= amount
    PROVE  transfer(w, from, to, amount) \in Writes
  <1> DEFINE debited == set_balance(w, from, balance(w, from) - amount)
  <1>1. balance(w, from) - amount \in U64
    BY ReadType, U64Assumption DEF U64
  <1>2. debited \in Writes
    BY <1>1, WriteType, ZenonT(60)
  <1> HIDE DEF debited
  <1>3. set_balance(debited, to, saturating_add(balance(debited, to), amount)) \in Writes
    BY <1>2, Saturated, WriteType, ZenonT(60)
  <1> QED
    BY <1>3, ZenonT(60) DEF transfer, debited

\* The commits of the cache.
LEMMA CommitType ==
    ASSUME NEW s \in WorldState, NEW w \in Writes
    PROVE  commit_to_world_state(s, w) \in WorldState
  BY ZenonT(60) DEF commit_to_world_state, WorldState, Writes

\* The effect of a command is a write set of the right type.
LEMMA ExecuteType ==
    ASSUME TypeOK, phase = "commands", NEW entry \in Entry,
           entry.sent => entry.cmd.kind # "NextEpoch"
    PROVE  Execute(entry).writes \in Writes
  <1>1. writes \in Writes /\ ws \in WorldState /\ tx.signer \in Accounts
    BY ZenonT(60) DEF TypeOK, Writes, Transaction
  <1>2. \A e : Failed(e).writes \in Writes
    BY <1>1, ZenonT(60) DEF Failed
  <1>3. \A w \in Writes : \A trap : Done(w, trap).writes \in Writes
    BY ZenonT(60) DEF Done
  <1>4. ASSUME NEW actor \in Accounts, NEW amount \in U64
        PROVE  ExecuteTopUp(actor, amount).writes \in Writes
    <2>1. CASE balance(writes, actor) < amount
      BY <1>2, <2>1, ZenonT(60) DEF ExecuteTopUp
    <2>2. CASE ~ (balance(writes, actor) < amount)
      <3>1. balance(writes, actor) \in U64
        BY <1>1, ReadType, ZenonT(60)
      <3>2. balance(writes, actor) - amount \in U64
        BY <2>2, <3>1, U64Assumption DEF U64
      <3>3. set_balance(writes, actor, balance(writes, actor) - amount) \in Writes
        BY <1>1, <3>2, WriteType, ZenonT(60)
      <3>4. set_deposit(set_balance(writes, actor, balance(writes, actor) - amount),
                        actor, saturating_add(deposit(writes, actor), amount)) \in Writes
        BY <3>3, Saturated, WriteType, ZenonT(60)
      <3> QED
        BY <1>3, <2>2, <3>4, ZenonT(60) DEF ExecuteTopUp
    <2> QED
      BY <2>1, <2>2, ZenonT(60)
  <1>5. ASSUME NEW cmd \in Command
        PROVE  ExecuteTransfer(cmd).writes \in Writes /\ ExecuteCall(cmd).writes \in Writes
    <2> DEFINE paid == transfer(writes, tx.signer, cmd.to, cmd.amount)
    <2>1. cmd.to \in Accounts /\ cmd.amount \in U64 /\ cmd.pay \in U64
      BY ZenonT(60) DEF Command, Amounts
    <2>2. CASE balance(writes, tx.signer) < cmd.amount
      BY <1>2, <2>2, ZenonT(60) DEF ExecuteTransfer, ExecuteCall
    <2>3. CASE ~ (balance(writes, tx.signer) < cmd.amount)
      <3>1. balance(writes, tx.signer) >= cmd.amount
        BY <1>1, <2>1, <2>3, ReadType, U64Assumption DEF U64
      <3>2. paid \in Writes
        BY <1>1, <2>1, <3>1, TransferType, ZenonT(60)
      <3>3. ExecuteTransfer(cmd).writes \in Writes
        BY <1>3, <2>3, <3>2, ZenonT(60) DEF ExecuteTransfer
      <3> HIDE DEF paid
      <3>4. balance(paid, cmd.to) \in U64
        BY <1>1, <2>1, <3>2, ReadType, ZenonT(60)
      <3>5. ~ (balance(paid, cmd.to) < cmd.pay) => transfer(paid, cmd.to, tx.signer, cmd.pay) \in Writes
        <4> SUFFICES ASSUME ~ (balance(paid, cmd.to) < cmd.pay)
                     PROVE  transfer(paid, cmd.to, tx.signer, cmd.pay) \in Writes
          BY ZenonT(60)
        <4>1. balance(paid, cmd.to) >= cmd.pay
          BY <2>1, <3>4, U64Assumption DEF U64
        <4> QED
          BY <1>1, <2>1, <3>2, <4>1, TransferType, ZenonT(60)
      <3>6. ExecuteCall(cmd).writes \in Writes
        BY <1>2, <1>3, <2>3, <3>2, <3>5, ZenonT(60) DEF ExecuteCall, paid
      <3> QED
        BY <3>3, <3>6, ZenonT(60)
    <2> QED
      BY <2>2, <2>3, ZenonT(60)
  <1>6. CASE ~ entry.sent
    <2>1. Execute(entry) = ExecuteTopUp(entry.contract, entry.amount)
      BY <1>6, ZenonT(60) DEF Execute
    <2>2. entry.contract \in Accounts /\ entry.amount \in U64
      BY <1>6, ZenonT(60) DEF Entry, SentEntry, DeferredEntry
    <2> QED
      BY <1>4, <2>1, <2>2, ZenonT(60)
  <1>7. CASE entry.sent
    <2>1. entry.cmd \in Command
      BY <1>7, ZenonT(60) DEF Entry, SentEntry, DeferredEntry
    <2>2. entry.cmd.kind \in {"Transfer", "Call", "TopUpDeposit"} /\ entry.cmd.amount \in U64
      BY <1>7, <2>1, ZenonT(60) DEF Command, Kinds, Amounts
    <2>3. entry.cmd.kind = "Transfer" => Execute(entry) = ExecuteTransfer(entry.cmd)
      BY <1>7, ZenonT(60) DEF Execute
    <2>4. entry.cmd.kind = "Call" => Execute(entry) = ExecuteCall(entry.cmd)
      BY <1>7, ZenonT(60) DEF Execute
    <2>5. entry.cmd.kind = "TopUpDeposit" => Execute(entry) = ExecuteTopUp(tx.signer, entry.cmd.amount)
      BY <1>7, ZenonT(60) DEF Execute
    <2> QED
      BY <1>1, <1>4, <1>5, <2>1, <2>2, <2>3, <2>4, <2>5
  <1> QED
    BY <1>6, <1>7, ZenonT(60)

\* A call defers a sequence of commands of its target.
LEMMA DeferredType ==
    ASSUME NEW entry \in Entry
    PROVE  /\ deferred_commands(entry) \in Seq(Entry)
           /\ \A i \in 1 .. Len(deferred_commands(entry)) : ~ deferred_commands(entry)[i].sent
           /\ ~ entry.sent => deferred_commands(entry) = <<>>
  <1>1. CASE entry.sent /\ entry.cmd.kind = "Call"
    <2>1. entry.cmd.defer \in Seq(U64) /\ entry.cmd.to \in Accounts
      BY <1>1, ZenonT(60) DEF Entry, SentEntry, DeferredEntry, Command, Amounts
    <2>2. \A i \in 1 .. Len(entry.cmd.defer) :
              /\ Deferred(entry.cmd.to, entry.cmd.defer[i]) \in Entry
              /\ ~ Deferred(entry.cmd.to, entry.cmd.defer[i]).sent
      BY <2>1 DEF Deferred, Entry, DeferredEntry
    <2>3. deferred_commands(entry) =
              [i \in 1 .. Len(entry.cmd.defer) |-> Deferred(entry.cmd.to, entry.cmd.defer[i])]
      BY <1>1, <2>1 DEF deferred_commands
    <2> QED
      BY <1>1, <2>1, <2>2, <2>3
  <1>2. CASE ~ (entry.sent /\ entry.cmd.kind = "Call")
    BY <1>2 DEF deferred_commands
  <1> QED
    BY <1>1, <1>2, ZenonT(60)

\* The exit code of no error is Ok, and exit codes are those of a command receipt.
LEMMA ExitCodes ==
    /\ exit_code(None) = "Ok"
    /\ \A e : exit_code(e) \in {"Ok", "Error", "GasExhausted", "NotExecuted"}
  BY ZenonT(60) DEF exit_code

\* The clamped gas of a command fits in what the limit leaves.
LEMMA Clamped ==
    ASSUME gas \in [inclusion : U64, executed : U64], tx.gas_limit \in U64,
           gas.inclusion + gas.executed <= tx.gas_limit, NEW cost \in U64
    PROVE  /\ clamped(cost) \in U64
           /\ gas.inclusion + saturating_add(gas.executed, clamped(cost)) <= tx.gas_limit
           /\ saturating_add(gas.executed, clamped(cost)) = gas.executed + clamped(cost)
  <1>1. total_gas_used_for_executed_commands = gas.inclusion + gas.executed
    BY U64Assumption DEF total_gas_used_for_executed_commands, saturating_add, saturate, U64
  <1>2. clamped(cost) \in U64 /\ clamped(cost) <= tx.gas_limit - (gas.inclusion + gas.executed)
    BY <1>1, U64Assumption DEF clamped, min, saturating_sub, U64
  <1> HIDE DEF clamped
  <1>3. gas.executed \in Nat /\ gas.inclusion \in Nat /\ tx.gas_limit \in Nat /\ tx.gas_limit <= MaxU64
    BY U64Assumption DEF U64
  <1>4. gas.executed + clamped(cost) \in U64
    BY <1>2, <1>3, U64Assumption DEF U64
  <1>5. saturating_add(gas.executed, clamped(cost)) = gas.executed + clamped(cost)
    BY <1>4, ZenonT(60) DEF saturating_add, saturate
  <1> QED
    BY <1>2, <1>3, <1>5, U64Assumption DEF U64

\* The next entry of the stack: a deferred command of the last receipt, or the first
\* command without one.
LEMMA NextEntry ==
    ASSUME TransactionInv, phase = "commands", error = None, stack # <<>>,
           NEW k \in Nat, Pending(k)
    PROVE  /\ Head(stack) = stack[1] /\ Head(stack) \in Entry
           /\ Head(stack).sent => /\ k = 0 /\ Len(receipts) < Len(tx.commands)
                                  /\ Head(stack) = Sent(tx.commands[Len(receipts) + 1])
           /\ ~ Head(stack).sent => k > 0
  <1>1. stack \in Seq(Entry) /\ receipts \in Seq(CommandReceipt) /\ tx.commands \in Seq(Command)
        /\ Len(receipts) <= Len(tx.commands)
    BY ZenonT(60) DEF TransactionInv, ReceiptsInv, TypeOK, Transaction
  <1>2. Head(stack) = stack[1] /\ Len(stack) >= 1 /\ stack[1] \in Entry
    BY <1>1
  <1>3. k > 0 => ~ stack[1].sent
    BY <1>2 DEF Pending
  <1>4. k = 0 => /\ Len(receipts) < Len(tx.commands)
                 /\ stack[1] = Sent(tx.commands[Len(receipts) + 1]) /\ stack[1].sent
    <2> SUFFICES ASSUME k = 0
                 PROVE  /\ Len(receipts) < Len(tx.commands)
                        /\ stack[1] = Sent(tx.commands[Len(receipts) + 1]) /\ stack[1].sent
      BY ZenonT(60)
    <2>1. Len(receipts) < Len(tx.commands)
      BY <1>1, <1>2 DEF Pending
    <2>2. 1 \in 1 .. Len(tx.commands) - Len(receipts)
      BY <1>1, <2>1
    <2>3. stack[k + 1] = Sent(tx.commands[Len(receipts) + 1])
      BY <2>2, ZenonT(60) DEF Pending
    <2>4. stack[1] = Sent(tx.commands[Len(receipts) + 1])
      BY <2>3
    <2> QED
      BY <2>1, <2>4 DEF Sent
  <1> QED
    BY <1>2, <1>3, <1>4

\* One command more, with any outcome, keeps the invariant.
LEMMA CommandStep ==
    ASSUME TransactionInv, NEW cost \in Costs, ExecuteCommand(cost)
    PROVE  TransactionInv'
  <1> DEFINE entry     == Head(stack)
             n         == Len(receipts)
             outcome   == Execute(entry)
             exhausted == tx.gas_limit < saturating_add(total_gas_used_for_executed_commands, cost)
             err       == IF outcome.error # None THEN outcome.error
                          ELSE IF exhausted THEN "ExecutionProperGasExhausted"
                          ELSE outcome.trap
             gas_used  == clamped(cost)
             more      == deferred_commands(entry)
  <1>1. /\ phase = "commands" /\ error = None /\ stack # <<>>
        /\ writes' = IF err = None THEN outcome.writes ELSE NoWrites
        /\ gas' = [gas EXCEPT !.executed = saturating_add(@, gas_used)]
        /\ receipts' = IF entry.sent THEN push_command_receipt(entry.cmd.kind, err, gas_used)
                       ELSE push_deferred_command_receipt(err, gas_used)
        /\ stack' = IF err = None THEN more \o Tail(stack) ELSE Tail(stack)
        /\ error' = err
        /\ UNCHANGED <<world, phase, tx, bd, ws, result>>
    BY ZenonT(60) DEF ExecuteCommand, push_deferred_commands
  <1> HIDE DEF err, outcome
  <1>2. /\ TypeOK /\ ReceiptsInv /\ ~ has_next_epoch /\ stack \in Seq(Entry)
        /\ gas.inclusion + gas.executed <= tx.gas_limit
    BY <1>1, ZenonT(60) DEF TransactionInv
  <1>3. /\ tx \in Transaction /\ bd \in Block /\ tx.gas_limit \in U64 /\ tx.commands \in Seq(Command)
        /\ gas \in [inclusion : U64, executed : U64]
    BY <1>1, <1>2, ZenonT(60) DEF TypeOK, Transaction
  <1>4. PICK k \in Nat : Pending(k)
    BY <1>1, ZenonT(60) DEF TransactionInv
  <1>5. /\ entry = stack[1] /\ entry \in Entry
        /\ entry.sent => k = 0 /\ n < Len(tx.commands) /\ entry = Sent(tx.commands[n + 1])
        /\ ~ entry.sent => k > 0
    BY <1>1, <1>4, NextEntry, ZenonT(60)
  <1>6. entry.sent => /\ entry.cmd = tx.commands[n + 1] /\ entry.cmd.kind # "NextEpoch"
                      /\ entry.cmd.kind \in Kinds
    <2> SUFFICES ASSUME entry.sent
                 PROVE  /\ entry.cmd = tx.commands[n + 1] /\ entry.cmd.kind # "NextEpoch"
                        /\ entry.cmd.kind \in Kinds
      BY ZenonT(60)
    <2>1. entry.cmd = tx.commands[n + 1]
      BY <1>5 DEF Sent
    <2>2. n + 1 \in DOMAIN tx.commands
      BY <1>2, <1>3, <1>5 DEF ReceiptsInv
    <2>3. tx.commands[n + 1] \in Command
      BY <1>3, <2>2
    <2>4. tx.commands[n + 1].kind # "NextEpoch"
      BY <1>2, <2>2, ZenonT(60) DEF has_next_epoch
    <2>5. tx.commands[n + 1].kind \in Kinds
      BY <2>3, ZenonT(60) DEF Command
    <2> QED
      BY <2>1, <2>4, <2>5, ZenonT(60)
  <1>7. cost \in U64
    BY LedgerAssumption, ZenonT(60)
  <1>8. gas_used \in U64 /\ gas.inclusion + saturating_add(gas.executed, gas_used) <= tx.gas_limit
    BY <1>2, <1>3, <1>7, Clamped, ZenonT(60)
  <1> HIDE DEF gas_used
  <1>9. gas' \in [inclusion : U64, executed : U64] /\ gas'.inclusion + gas'.executed <= tx'.gas_limit
    BY <1>1, <1>3, <1>8, Saturated, ZenonT(60)
  <1>10. writes' \in Writes
    <2>1. outcome.writes \in Writes
      BY <1>1, <1>2, <1>5, <1>6, ExecuteType, ZenonT(60) DEF outcome
    <2>2. NoWrites \in Writes
      BY ZenonT(60) DEF NoWrites, Writes
    <2> QED
      BY <1>1, <2>1, <2>2, ZenonT(60)
  <1>11. more \in Seq(Entry) /\ (\A i \in 1 .. Len(more) : ~ more[i].sent) /\ (~ entry.sent => more = <<>>)
    BY <1>5, DeferredType, ZenonT(60)
  <1> HIDE DEF more
  <1>12. /\ Tail(stack) \in Seq(Entry) /\ Len(Tail(stack)) = Len(stack) - 1
         /\ \A i \in 1 .. Len(stack) - 1 : Tail(stack)[i] = stack[i + 1]
    BY <1>1, <1>2
  <1>13. stack' \in Seq(Entry)
    BY <1>1, <1>11, <1>12
  <1>14. receipts \in Seq(CommandReceipt) /\ n \in Nat /\ n <= Len(tx.commands)
    BY <1>2 DEF ReceiptsInv
  <1>15. CASE entry.sent
    <2> DEFINE r == [kind |-> entry.cmd.kind, exit_code |-> exit_code(err), gas_used |-> gas_used]
    <2>1. r \in CommandReceipt
      BY <1>6, <1>8, <1>15, ExitCodes, ZenonT(60) DEF CommandReceipt
    <2>2. receipts' = Append(receipts, r)
      BY <1>1, <1>15, ZenonT(60) DEF push_command_receipt
    <2>3. r.kind = tx.commands[n + 1].kind /\ r.exit_code = exit_code(err)
      BY <1>6, <1>15, ZenonT(60)
    <2> HIDE DEF r
    <2>4. /\ receipts' \in Seq(CommandReceipt) /\ Len(receipts') = n + 1 /\ receipts'[n + 1] = r
          /\ \A i \in 1 .. n : receipts'[i] = receipts[i]
      BY <1>14, <2>1, <2>2
    <2>5. \A i \in 1 .. n : receipts[i].exit_code = "Ok" /\ receipts[i].kind = tx.commands[i].kind
      BY <1>1, <1>2, <1>14, ExitCodes DEF ReceiptsInv
    <2>6. ReceiptsInv'
      <3>1. \A i \in 1 .. n + 1 : i = n + 1 \/ i \in 1 .. n
        BY <1>14
      <3>2. receipts' # <<>> /\ error' = err /\ tx' = tx
        BY <1>1, <1>14, <2>4
      <3>3. \A i \in 1 .. n + 1 : receipts'[i].kind = tx.commands[i].kind
        BY <2>3, <2>4, <2>5, <3>1, ZenonT(60)
      <3>4. \A i \in 1 .. n + 1 : i < n + 1 => receipts'[i].exit_code = "Ok"
        BY <1>14, <2>4, <2>5, <3>1
      <3>5. n + 1 <= Len(tx.commands)
        BY <1>3, <1>5, <1>14, <1>15
      <3> QED
        BY <2>3, <2>4, <3>2, <3>3, <3>4, <3>5, ZenonT(60) DEF ReceiptsInv, exit_code
    <2>m. PICK m \in Nat : m = Len(more)
      BY <1>11
    <2>7. error' = None => Pending(m)'
      <3> SUFFICES ASSUME error' = None
                   PROVE  Pending(m)'
        BY ZenonT(60)
      <3>1. stack' = more \o Tail(stack) /\ tx' = tx
        BY <1>1, ZenonT(60)
      <3>2. Len(stack) = Len(tx.commands) - n
        BY <1>4, <1>5, <1>15 DEF Pending
      <3>3. Len(stack') = Len(more) + (Len(tx.commands) - (n + 1)) /\ Len(more) \in Nat
        <4>1. Len(stack') = Len(more) + Len(Tail(stack)) /\ Len(more) \in Nat
          BY <1>11, <1>12, <3>1
        <4>2. Len(tx.commands) \in Nat
          BY <1>3
        <4> QED
          BY <1>12, <1>14, <3>2, <4>1, <4>2
      <3>4. \A i \in 1 .. Len(more) : ~ stack'[i].sent
        BY <1>11, <1>12, <3>1
      <3>5. ASSUME NEW i \in 1 .. Len(tx.commands) - (n + 1)
            PROVE  stack'[Len(more) + i] = Sent(tx.commands[(n + 1) + i])
        <4>1. i \in 1 .. Len(stack) - 1 /\ i + 1 \in 1 .. Len(tx.commands) - n
          BY <1>3, <1>14, <3>2
        <4>2. stack'[Len(more) + i] = Tail(stack)[i]
          BY <1>11, <1>12, <3>1, <4>1
        <4>3. stack[0 + (i + 1)] = Sent(tx.commands[n + (i + 1)])
          BY <1>4, <1>5, <1>15, <4>1, ZenonT(60) DEF Pending
        <4>4. n + (i + 1) = (n + 1) + i /\ 0 + (i + 1) = i + 1
          BY <1>14
        <4> QED
          BY <1>12, <4>1, <4>2, <4>3, <4>4, ZenonT(60)
      <3>6. receipts' # <<>> /\ Len(receipts') = n + 1
        BY <1>14, <2>4
      <3> QED
        BY <2>m, <3>1, <3>3, <3>4, <3>5, <3>6, ZenonT(60) DEF Pending, Sent
    <2>8. error' = None => \E j \in Nat : Pending(j)'
      BY <2>7, ZenonT(60)
    <2> QED
      BY <1>1, <1>2, <1>9, <1>10, <1>13, <2>4, <2>6, <2>8
         DEF TransactionInv, TypeOK, Writes, has_next_epoch
  <1>16. CASE ~ entry.sent
    <2> DEFINE last == receipts[n]
               r    == [kind |-> last.kind, exit_code |-> exit_code(err),
                        gas_used |-> saturating_add(last.gas_used, gas_used)]
    <2>1. n >= 1 /\ last \in CommandReceipt
      BY <1>4, <1>5, <1>14, <1>16 DEF Pending
    <2>2. r \in CommandReceipt /\ r.kind = last.kind /\ r.exit_code = exit_code(err)
      BY <2>1, ExitCodes, Saturated, ZenonT(60) DEF CommandReceipt
    <2>3. receipts' = [receipts EXCEPT ![n] = r]
      BY <1>1, <1>16, ZenonT(60) DEF push_deferred_command_receipt
    <2> HIDE DEF r, last
    <2>4. /\ receipts' \in Seq(CommandReceipt) /\ Len(receipts') = n /\ receipts'[n] = r
          /\ \A i \in 1 .. n : i < n => receipts'[i] = receipts[i]
      BY <1>14, <2>1, <2>2, <2>3
    <2>5. \A i \in 1 .. n : receipts'[i].kind = tx.commands[i].kind
      BY <1>2, <1>14, <2>1, <2>2, <2>4 DEF ReceiptsInv, last
    <2>6. ReceiptsInv'
      <3>1. receipts' # <<>> /\ error' = err /\ tx' = tx
        BY <1>1, <2>1, <2>4
      <3>2. \A i \in 1 .. n : i < n => receipts'[i].exit_code = "Ok"
        BY <1>2, <2>4, ZenonT(60) DEF ReceiptsInv
      <3> QED
        BY <1>14, <2>2, <2>4, <2>5, <3>1, <3>2, ZenonT(60) DEF ReceiptsInv, exit_code
    <2>7. error' = None => Pending(k - 1)'
      <3> SUFFICES ASSUME error' = None
                   PROVE  Pending(k - 1)'
        BY ZenonT(60)
      <3>1. stack' = Tail(stack) /\ tx' = tx
        <4>1. \A t \in Seq(Entry) : <<>> \o t = t
          OBVIOUS
        <4> QED
          BY <1>1, <1>11, <1>12, <1>16, <4>1, ZenonT(60)
      <3>2. k - 1 \in Nat /\ Len(stack') = (k - 1) + (Len(tx.commands) - n)
        BY <1>3, <1>4, <1>5, <1>12, <1>14, <1>16, <3>1 DEF Pending
      <3>3. ASSUME NEW i \in 1 .. k - 1
            PROVE  ~ stack'[i].sent
        <4>1. i + 1 \in 1 .. k /\ i \in 1 .. Len(stack) - 1
          BY <1>3, <1>4, <1>12, <1>14, <3>1, <3>2
        <4> QED
          BY <1>4, <1>12, <3>1, <4>1, ZenonT(60) DEF Pending
      <3>4. ASSUME NEW i \in 1 .. Len(tx.commands) - n
            PROVE  stack'[(k - 1) + i] = Sent(tx.commands[n + i])
        <4>1. (k - 1) + i \in 1 .. Len(stack) - 1 /\ ((k - 1) + i) + 1 = k + i
          BY <1>3, <1>4, <1>12, <1>14, <3>1, <3>2
        <4>2. stack'[(k - 1) + i] = stack[k + i]
          BY <1>12, <3>1, <4>1, ZenonT(60)
        <4> QED
          BY <1>4, <4>2, ZenonT(60) DEF Pending
      <3>5. receipts' # <<>> /\ Len(receipts') = n
        BY <2>1, <2>4
      <3> QED
        BY <3>1, <3>2, <3>3, <3>4, <3>5, ZenonT(60) DEF Pending, Sent
    <2>8. error' = None => \E j \in Nat : Pending(j)'
      BY <1>5, <1>16, <2>7
    <2> QED
      BY <1>1, <1>2, <1>9, <1>10, <1>13, <2>4, <2>6, <2>8
         DEF TransactionInv, TypeOK, Writes, has_next_epoch
  <1> QED
    BY <1>15, <1>16, ZenonT(60)

\* A transition that returns leaves nothing behind but the new world state.
LEMMA Returns ==
    ASSUME NEW s \in WorldState, NEW res, Return(s, res)
    PROVE  TransactionInv'
  <1>1. NoWrites \in Writes /\ NoGas \in [inclusion : U64, executed : U64]
    BY U64Assumption DEF NoWrites, Writes, NoGas, U64
  <1> QED
    BY <1>1 DEF Return, TransactionInv, TypeOK, Writes

\* A panic leaves everything as it is.
LEMMA Panics ==
    ASSUME TransactionInv, phase # "idle", Panic
    PROVE  TransactionInv'
  BY ZenonT(60) DEF Panic, execution, TransactionInv, TypeOK

\* The phase before the commands.
LEMMA PreChargeStep ==
    ASSUME TransactionInv, PreCharge
    PROVE  TransactionInv'
  <1>1. /\ phase = "submitted" /\ tx \in Transaction /\ bd \in Block /\ ws \in WorldState
        /\ writes \in Writes /\ receipts = <<>> /\ error = None /\ gas = NoGas
    BY ZenonT(60) DEF PreCharge, TransactionInv, TypeOK, Writes
  <1>2. CASE pre_charge_error # None
    <2>1. commit_to_world_state(ws, writes) \in WorldState
      BY <1>1, CommitType, ZenonT(60)
    <2> QED
      BY <1>1, <1>2, <2>1, Returns, Panics, ZenonT(60) DEF PreCharge
  <1>3. CASE pre_charge_error = None
    <2> DEFINE cost == tx.gas_limit * fee_per_gas
    <2>1. /\ phase' = "commands"
          /\ ws' = [ws EXCEPT !.balance[tx.signer] = @ - cost]
          /\ gas' = [gas EXCEPT !.inclusion = tx_inclusion_cost(tx)]
          /\ stack' = [i \in DOMAIN tx.commands |-> Sent(tx.commands[i])]
          /\ UNCHANGED <<world, tx, bd, writes, receipts, error, result>>
          /\ ~ has_next_epoch
      BY <1>3, ZenonT(60) DEF PreCharge
    <2>2. /\ tx.signer \in Accounts /\ tx.gas_limit \in U64 /\ tx.commands \in Seq(Command)
          /\ fee_per_gas \in Nat /\ ws.balance[tx.signer] \in U64
      <3>1. tx.priority_fee \in U64 /\ bd.base_fee \in U64
        BY <1>1, ZenonT(60) DEF Transaction, Block
      <3>2. fee_per_gas \in Nat
        BY <3>1, U64Assumption DEF fee_per_gas, U64
      <3> QED
        BY <1>1, <3>2, ZenonT(60) DEF Transaction, WorldState
    <2>3. cost \in Nat
      BY <2>2, U64Assumption DEF U64
    <2>4. tx_inclusion_cost(tx) <= tx.gas_limit /\ cost <= ws.balance[tx.signer]
      <3>1. /\ ~ (tx_inclusion_cost(tx) > tx.gas_limit)
            /\ ~ (cost > min(MaxU64, ws.balance[tx.signer]))
        <4>1. /\ None # "PreExecutionGasExhausted" /\ None # "WrongNonce"
              /\ None # "NotEnoughBalanceForGasLimit"
          BY LedgerAssumption, ZenonT(60) DEF Errors
        <4> QED
          BY <1>3, <4>1, ZenonT(60) DEF pre_charge_error
      <3>2. tx_inclusion_cost(tx) \in U64
        BY Saturated, ZenonT(60) DEF tx_inclusion_cost
      <3> HIDE DEF cost
      <3> QED
        BY <2>2, <2>3, <3>1, <3>2, U64Assumption DEF min, U64
    <2> HIDE DEF cost
    <2>5. ws.balance[tx.signer] - cost \in U64
      BY <2>2, <2>3, <2>4, U64Assumption DEF U64
    <2>6. ws' \in WorldState
      BY <1>1, <2>1, <2>2, <2>5, ZenonT(60) DEF WorldState
    <2>7. gas' \in [inclusion : U64, executed : U64] /\ gas'.inclusion + gas'.executed <= tx.gas_limit
      <3>1. tx_inclusion_cost(tx) \in U64
        BY Saturated, ZenonT(60) DEF tx_inclusion_cost
      <3> QED
        BY <1>1, <2>1, <2>2, <2>4, <3>1, U64Assumption DEF NoGas, U64
    <2>8. stack' \in Seq(Entry) /\ Len(stack') = Len(tx.commands)
      <3>1. \A i \in 1 .. Len(tx.commands) : Sent(tx.commands[i]) \in Entry
        BY <2>2 DEF Sent, Entry, SentEntry
      <3> QED
        BY <2>1, <2>2, <3>1
    <2>9. Pending(0)'
      BY <1>1, <2>1, <2>2, <2>8 DEF Pending, Sent
    <2>10. ReceiptsInv'
      BY <1>1, <2>1, <2>2 DEF ReceiptsInv
    <2> QED
      BY <1>1, <2>1, <2>6, <2>7, <2>8, <2>9, <2>10, ZenonT(60) DEF TransactionInv, TypeOK, has_next_epoch, Writes
  <1> QED
    BY <1>2, <1>3, ZenonT(60)

\* The phase after the commands.
LEMMA ChargeStep ==
    ASSUME TransactionInv, Charge
    PROVE  TransactionInv'
  <1> DEFINE purged  == [writes EXCEPT !.balance = [@ EXCEPT ![tx.signer] = None,
                                                             ![bd.proposer] = None,
                                                             ![bd.treasury] = None]]
             charged == [ws EXCEPT
                            !.balance = [@ EXCEPT ![tx.signer] = new_signer_balance,
                                                  ![bd.proposer] = new_proposer_balance,
                                                  ![bd.treasury] = new_treasury_balance],
                            !.nonce[tx.signer] = saturating_add(@, 1)]
  <1>1. /\ phase = "commands" /\ tx \in Transaction /\ bd \in Block /\ ws \in WorldState
        /\ writes \in Writes /\ gas \in [inclusion : U64, executed : U64]
    BY ZenonT(60) DEF Charge, TransactionInv, TypeOK, Writes
  <1>2. CASE charge_panics
    BY <1>1, <1>2, Panics, ZenonT(60) DEF Charge
  <1>3. CASE ~ charge_panics
    <2>1. /\ tx.signer \in Accounts /\ bd.proposer \in Accounts /\ bd.treasury \in Accounts
          /\ tx.gas_limit \in U64 /\ fee_per_gas \in Nat
      BY <1>1, U64Assumption DEF Transaction, Block, fee_per_gas, U64
    <2>2. new_signer_balance \in U64
      <3>1. balance(writes, tx.signer) \in Nat
        BY <1>1, <2>1, ReadType, U64Assumption DEF U64
      <3>2. saturating_sub(tx.gas_limit, charged_gas) \in Nat
        <4>1. total_gas_used_for_executed_commands \in U64
          BY Saturated, ZenonT(60) DEF total_gas_used_for_executed_commands
        <4> QED
          BY <2>1, <4>1, U64Assumption DEF charged_gas, min, saturating_sub, U64
      <3>3. saturating_sub(tx.gas_limit, charged_gas) * fee_per_gas \in Nat
        BY <2>1, <3>2
      <3>4. new_signer_balance \in Nat
        BY <3>1, <3>3 DEF new_signer_balance
      <3> QED
        BY <1>3, <3>4, U64Assumption DEF charge_panics, U64
    <2>3. new_proposer_balance \in U64 /\ new_treasury_balance \in U64
      BY Saturated, ZenonT(60) DEF new_proposer_balance, new_treasury_balance
    <2>4. charged \in WorldState
      BY <1>1, <2>1, <2>2, <2>3, Saturated, ZenonT(60) DEF WorldState
    <2>5. purged \in Writes
      BY <1>1, <2>1, ZenonT(60) DEF Writes
    <2> HIDE DEF charged, purged
    <2>6. commit_to_world_state(charged, purged) \in WorldState
      BY <2>4, <2>5, CommitType, ZenonT(60)
    <2> QED
      BY <1>3, <2>6, Returns, ZenonT(60) DEF Charge, charged, purged
  <1> QED
    BY <1>2, <1>3, ZenonT(60)

\* The invariant holds for all transactions, blocks and costs of commands.
THEOREM Invariance == Spec => []TransactionInv
  <1>1. Init => TransactionInv
    <2>1. NoWrites \in Writes /\ NoGas \in [inclusion : U64, executed : U64]
      BY U64Assumption DEF NoWrites, Writes, NoGas, U64
    <2> QED
      BY <2>1, LedgerAssumption DEF Init, TransactionInv, TypeOK, Writes
  <1>2. TransactionInv /\ [Next]_vars => TransactionInv'
    <2> SUFFICES ASSUME TransactionInv, [Next]_vars PROVE TransactionInv'
      BY ZenonT(60)
    <2>1. ASSUME NEW t \in Txns, NEW b \in Blocks, Submit(t, b)
          PROVE  TransactionInv'
      BY <2>1, LedgerAssumption, ZenonT(60) DEF Submit, TransactionInv, TypeOK
    <2>2. phase = "submitted" => /\ tx \in Transaction /\ ws \in WorldState /\ world \in WorldState
                                 /\ next_epoch_state \in WorldState
                                 /\ [next_epoch_state EXCEPT !.version = 2] \in WorldState
      <3> SUFFICES ASSUME phase = "submitted"
                   PROVE  /\ tx \in Transaction /\ ws \in WorldState /\ world \in WorldState
                          /\ next_epoch_state \in WorldState
                          /\ [next_epoch_state EXCEPT !.version = 2] \in WorldState
        BY ZenonT(60)
      <3>1. tx \in Transaction /\ ws \in WorldState /\ world \in WorldState
        BY ZenonT(60) DEF TransactionInv, TypeOK
      <3>2. tx.signer \in Accounts
        BY <3>1, ZenonT(60) DEF Transaction
      <3>3. next_epoch_state \in WorldState
        <4>1. [ws EXCEPT !.epoch = @ + 1] \in WorldState
          BY <3>1 DEF WorldState
        <4>2. \A w \in WorldState, x \in U64 : [w EXCEPT !.nonce[tx.signer] = x] \in WorldState
          BY <3>2, ZenonT(60) DEF WorldState
        <4> QED
          BY <4>1, <4>2, Saturated, ZenonT(60) DEF next_epoch_state
      <3>4. [next_epoch_state EXCEPT !.version = 2] \in WorldState
        BY <3>3, ZenonT(60) DEF WorldState
      <3> QED
        BY <3>1, <3>3, <3>4, ZenonT(60)
    <2>3. CASE EpochTransaction
      BY <2>2, <2>3, Returns, ZenonT(60) DEF EpochTransaction
    <2>4. CASE Upgrade
      BY <2>2, <2>4, Returns, ZenonT(60) DEF Upgrade
    <2>5. CASE UNCHANGED vars
      BY <2>5, ZenonT(60) DEF vars, execution, TransactionInv, TypeOK, ReceiptsInv, Pending, has_next_epoch, Sent, exit_code
    <2> QED
      BY <2>1, <2>3, <2>4, <2>5, PreChargeStep, CommandStep, ChargeStep, ZenonT(60) DEF Next
  <1> QED
    BY <1>1, <1>2, PTL DEF Spec

\* World states, write sets, gas and receipts keep their types: no balance underflows
\* and none exceeds a u64.
THEOREM TypeCorrect == Spec => []TypeOK
  <1>1. TransactionInv => TypeOK
    BY ZenonT(60) DEF TransactionInv
  <1> QED
    BY <1>1, Invariance, PTL

\* The receipts of an answered transaction are those of its first commands, in order, and
\* tell its outcome, for any number of commands and of deferred commands between them.
THEOREM ReceiptsAreComplete == Spec => ReceiptsTellOutcome
  <1> DEFINE receipt == result'.receipt
             rs      == receipt.command_receipts
             n       == Len(receipts)
             Told    == /\ n \in 1 .. Len(tx.commands)
                        /\ Len(rs) = IF tx.version = 1 THEN n ELSE Len(tx.commands)
                        /\ \A i \in DOMAIN rs :
                               /\ rs[i].kind = tx.commands[i].kind
                               /\ i < n => rs[i].exit_code = "Ok"
                               /\ i > n => rs[i].exit_code = "NotExecuted"
                        /\ rs[n].exit_code = exit_code(result'.error)
                        /\ result'.error = None => n = Len(tx.commands)
                        /\ tx.version = 2 => receipt.exit_code = rs[n].exit_code
  <1>1. ASSUME TransactionInv, Next, phase = "commands", phase' = "idle", tx.commands # <<>>
        PROVE  Told
    <2>1. Charge
      BY <1>1, ZenonT(60) DEF Next, Submit, PreCharge, ExecuteCommand, EpochTransaction, Upgrade
    <2>2. commands_done /\ result'.error = error /\ result'.receipt = into_receipt(receipts)
      BY <1>1, <2>1 DEF Charge, Return, Panic
    <2>3. /\ tx \in Transaction /\ tx.commands \in Seq(Command) /\ tx.version \in {1, 2}
          /\ receipts \in Seq(CommandReceipt) /\ n <= Len(tx.commands) /\ n \in Nat
          /\ \A i \in 1 .. n : receipts[i].kind = tx.commands[i].kind
          /\ \A i \in 1 .. n : i < n => receipts[i].exit_code = "Ok"
          /\ receipts # <<>> => receipts[n].exit_code = exit_code(error)
          /\ error # None => receipts # <<>>
      BY <1>1 DEF TransactionInv, ReceiptsInv, TypeOK, Transaction
    <2>4. error = None => n = Len(tx.commands)
      <3> SUFFICES ASSUME error = None PROVE n = Len(tx.commands)
        BY ZenonT(60)
      <3>1. PICK k \in Nat : Pending(k)
        BY <1>1, ZenonT(60) DEF TransactionInv
      <3>2. Len(stack) = 0
        BY <2>2 DEF commands_done
      <3> QED
        BY <2>3, <3>1, <3>2 DEF Pending
    <2>5. n >= 1 /\ receipts # <<>>
      BY <1>1, <2>3, <2>4
    <2>6. CASE tx.version = 1
      <3>1. rs = receipts
        BY <2>2, <2>6 DEF into_receipt
      <3> QED
        BY <2>2, <2>3, <2>4, <2>5, <2>6, <3>1
    <2>7. CASE tx.version = 2
      <3> DEFINE rest == not_executed(receipts)
      <3>1. rs = receipts \o rest /\ receipt.exit_code = receipts[n].exit_code
        BY <2>2, <2>5, <2>7 DEF into_receipt
      <3>2. /\ DOMAIN rest = 1 .. Len(tx.commands) - n
            /\ \A i \in 1 .. Len(tx.commands) - n :
                   rest[i] = [kind |-> tx.commands[n + i].kind, exit_code |-> "NotExecuted", gas_used |-> 0]
        BY ZenonT(60) DEF not_executed
      <3>3. rest \in Seq([kind : {tx.commands[i].kind : i \in DOMAIN tx.commands},
                         exit_code : {"NotExecuted"}, gas_used : {0}])
            /\ Len(rest) = Len(tx.commands) - n
        <4>1. Len(tx.commands) - n \in Nat
          BY <2>3
        <4>2. \A i \in 1 .. Len(tx.commands) - n : n + i \in DOMAIN tx.commands
          BY <2>3
        <4> QED
          BY <3>2, <4>1, <4>2 DEF not_executed
      <3> HIDE DEF rest
      <3>4. /\ DOMAIN rs = 1 .. Len(tx.commands) /\ Len(rs) = Len(tx.commands)
            /\ \A i \in 1 .. n : rs[i] = receipts[i]
            /\ \A i \in 1 .. Len(tx.commands) : i > n => rs[i] = rest[i - n]
        BY <2>3, <3>1, <3>3
      <3>5. \A i \in 1 .. Len(tx.commands) :
                i > n => rs[i].kind = tx.commands[i].kind /\ rs[i].exit_code = "NotExecuted"
        <4> SUFFICES ASSUME NEW i \in 1 .. Len(tx.commands), i > n
                     PROVE  rs[i].kind = tx.commands[i].kind /\ rs[i].exit_code = "NotExecuted"
          BY ZenonT(60)
        <4>1. i - n \in 1 .. Len(tx.commands) - n /\ n + (i - n) = i
          BY <2>3
        <4>2. rs[i] = [kind |-> tx.commands[n + (i - n)].kind, exit_code |-> "NotExecuted", gas_used |-> 0]
          BY <3>2, <3>4, <4>1, ZenonT(60)
        <4> QED
          BY <4>1, <4>2
      <3>6. \A i \in 1 .. Len(tx.commands) : i \in 1 .. n \/ i > n
        BY <2>3
      <3> HIDE DEF rs
      <3>7. n \in 1 .. n /\ n \in 1 .. Len(tx.commands) /\ ~ (tx.version = 1)
        BY <2>3, <2>5, <2>7
      <3>8. \A i \in DOMAIN rs :
                /\ rs[i].kind = tx.commands[i].kind
                /\ i < n => rs[i].exit_code = "Ok"
                /\ i > n => rs[i].exit_code = "NotExecuted"
        BY <2>3, <3>4, <3>5, <3>6
      <3>9. rs[n].exit_code = exit_code(error) /\ receipt.exit_code = rs[n].exit_code
        BY <2>3, <2>5, <3>1, <3>4, <3>7, ZenonT(60)
      <3> QED
        BY <2>2, <2>4, <3>4, <3>7, <3>8, <3>9, ZenonT(60) DEF rs
    <2> QED
      BY <2>3, <2>6, <2>7, ZenonT(60)
  <1>2. TransactionInv /\ [Next]_vars =>
            [phase = "commands" /\ phase' = "idle" /\ tx.commands # <<>> => Told]_vars
    BY <1>1, ZenonT(60)
  <1> QED
    BY <1>2, Invariance, PTL DEF Spec, ReceiptsTellOutcome

-----------------------------------------------------------------------------
(***************************************************************************)
(* The gas in the receipts.                                                *)
(***************************************************************************)

GasUsed(rs) == [i \in DOMAIN rs |-> rs[i].gas_used]

\* The sum of the gas in receipts.
LEMMA GasInType ==
    ASSUME NEW rs \in Seq(CommandReceipt)
    PROVE  /\ gas_in(rs) = SumFunctionOnSet(GasUsed(rs), 1 .. Len(rs))
           /\ IsFiniteSet(1 .. Len(rs))
           /\ gas_in(rs) \in Nat
           /\ \A i \in 1 .. Len(rs) : /\ GasUsed(rs)[i] = rs[i].gas_used
                                      /\ GasUsed(rs)[i] \in Nat /\ GasUsed(rs)[i] \in Int
                                      /\ rs[i].gas_used <= gas_in(rs)
  <1>1. DOMAIN rs = 1 .. Len(rs) /\ Len(rs) \in Nat /\ \A i \in 1 .. Len(rs) : rs[i] \in CommandReceipt
    OBVIOUS
  <1>2. \A i \in 1 .. Len(rs) : GasUsed(rs)[i] = rs[i].gas_used
    BY <1>1, ZenonT(60) DEF GasUsed
  <1>3. \A r \in CommandReceipt : r.gas_used \in Nat
    BY U64Assumption DEF CommandReceipt, U64
  <1>4. \A i \in 1 .. Len(rs) : GasUsed(rs)[i] \in Nat /\ GasUsed(rs)[i] \in Int
    BY <1>1, <1>2, <1>3
  <1>5. gas_in(rs) = SumFunctionOnSet(GasUsed(rs), 1 .. Len(rs))
    BY <1>1, ZenonT(60) DEF gas_in, SumFunction, GasUsed
  <1>6. IsFiniteSet(1 .. Len(rs))
    BY <1>1, FiniteInterval, ZenonT(60)
  <1> DEFINE S == 1 .. Len(rs)
             f == GasUsed(rs)
  <1>7. /\ SumFunctionOnSet(f, S) \in Nat
        /\ \A i \in S : f[i] <= SumFunctionOnSet(f, S)
    <2>1. IsFiniteSet(S) /\ \A i \in S : f[i] \in Nat
      BY <1>4, <1>6, ZenonT(60)
    <2> HIDE DEF S, f
    <2> QED BY <2>1, SumNat, SumBounds, ZenonT(60)
  <1> QED
    BY <1>2, <1>4, <1>5, <1>6, <1>7, ZenonT(60)

\* The receipt of one command more.
LEMMA GasInAppend ==
    ASSUME NEW rs \in Seq(CommandReceipt), NEW r \in CommandReceipt
    PROVE  gas_in(Append(rs, r)) = gas_in(rs) + r.gas_used
  <1> DEFINE n == Len(rs)
             new == Append(rs, r)
             S == 1 .. (n + 1)
             T == 1 .. n
             f == GasUsed(new)
             g == GasUsed(rs)
  <1>1. /\ new \in Seq(CommandReceipt) /\ Len(new) = n + 1 /\ n \in Nat
        /\ new[n + 1] = r /\ \A i \in 1 .. n : new[i] = rs[i]
    OBVIOUS
  <1> HIDE DEF new
  <1>2. /\ gas_in(new) = SumFunctionOnSet(f, S) /\ IsFiniteSet(S)
        /\ \A i \in S : f[i] = new[i].gas_used /\ f[i] \in Int
    BY <1>1, GasInType, ZenonT(60)
  <1>3. /\ gas_in(rs) = SumFunctionOnSet(g, T) /\ IsFiniteSet(T) /\ gas_in(rs) \in Nat
        /\ \A i \in T : g[i] = rs[i].gas_used
    BY GasInType, ZenonT(60)
  <1>4. n + 1 \in S /\ S \ {n + 1} = T /\ T \subseteq S
    BY <1>1
  <1>5. \A i \in T : f[i] = g[i]
    BY <1>1, <1>2, <1>3, <1>4, ZenonT(60)
  <1>6. f[n + 1] = r.gas_used /\ r.gas_used \in Int
    BY <1>1, <1>2, <1>4, ZenonT(60)
  <1> HIDE DEF S, T, f, g
  <1>7. SumFunctionOnSet(f, S) = f[n + 1] + SumFunctionOnSet(f, S \ {n + 1})
    BY <1>2, <1>4, SumRemove
  <1>8. SumFunctionOnSet(f, T) = SumFunctionOnSet(g, T)
    BY <1>3, <1>5, SumSame, ZenonT(60)
  <1>9. gas_in(new) = r.gas_used + gas_in(rs)
    BY <1>2, <1>3, <1>4, <1>6, <1>7, <1>8, ZenonT(60)
  <1> QED
    BY <1>3, <1>6, <1>9 DEF new

\* The last receipt, when a deferred command is folded into it.
LEMMA GasInFold ==
    ASSUME NEW rs \in Seq(CommandReceipt), rs # <<>>, NEW r \in CommandReceipt
    PROVE  gas_in([rs EXCEPT ![Len(rs)] = r]) = gas_in(rs) + (r.gas_used - rs[Len(rs)].gas_used)
  <1> DEFINE n == Len(rs)
             new == [rs EXCEPT ![n] = r]
             S == 1 .. n
             f == GasUsed(new)
             g == GasUsed(rs)
  <1>1. /\ new \in Seq(CommandReceipt) /\ Len(new) = n /\ n \in S
        /\ new[n] = r /\ \A i \in S \ {n} : new[i] = rs[i]
    OBVIOUS
  <1> HIDE DEF new
  <1>2. /\ gas_in(new) = SumFunctionOnSet(f, S) /\ IsFiniteSet(S)
        /\ \A i \in S : f[i] = new[i].gas_used /\ f[i] \in Int
    BY <1>1, GasInType, ZenonT(60)
  <1>3. /\ gas_in(rs) = SumFunctionOnSet(g, S)
        /\ \A i \in S : g[i] = rs[i].gas_used /\ g[i] \in Int
    BY GasInType, ZenonT(60)
  <1> HIDE DEF S, f, g
  <1>4. \A i \in S \ {n} : f[i] = g[i]
    BY <1>1, <1>2, <1>3, ZenonT(60)
  <1>5. SumFunctionOnSet(f, S) = SumFunctionOnSet(g, S) + (f[n] - g[n])
    BY <1>1, <1>2, <1>3, <1>4, SumChange
  <1> QED
    BY <1>1, <1>2, <1>3, <1>5, ZenonT(60) DEF new

\* No receipts, no gas.
LEMMA GasInNone == gas_in(<<>>) = 0
  <1>1. DOMAIN <<>> = {}
    OBVIOUS
  <1> QED
    BY <1>1, SumEmpty, ZenonT(60) DEF gas_in, SumFunction

\* A command adds to its receipt what it adds to the gas meter.
LEMMA CommandGas ==
    ASSUME TransactionInv, GasAccounted, NEW cost \in Costs, ExecuteCommand(cost)
    PROVE  gas_in(receipts') = gas'.executed
  <1> DEFINE entry == Head(stack)
             g == clamped(cost)
             n == Len(receipts)
  <1>1. PICK err : /\ receipts' = IF entry.sent THEN push_command_receipt(entry.cmd.kind, err, g)
                                  ELSE push_deferred_command_receipt(err, g)
                   /\ gas' = [gas EXCEPT !.executed = saturating_add(@, g)]
                   /\ phase = "commands" /\ error = None /\ stack # <<>>
    BY ZenonT(60) DEF ExecuteCommand
  <1>2. /\ receipts \in Seq(CommandReceipt) /\ tx.gas_limit \in U64 /\ ~ has_next_epoch
        /\ gas \in [inclusion : U64, executed : U64] /\ gas.inclusion + gas.executed <= tx.gas_limit
        /\ tx.commands \in Seq(Command) /\ Len(receipts) <= Len(tx.commands)
    BY <1>1, ZenonT(60) DEF TransactionInv, ReceiptsInv, TypeOK, Transaction
  <1>3. cost \in U64
    BY LedgerAssumption, ZenonT(60)
  <1>4. /\ g \in U64 /\ saturating_add(gas.executed, g) = gas.executed + g
        /\ saturating_add(gas.executed, g) \in U64
    BY <1>2, <1>3, Clamped, Saturated, ZenonT(60)
  <1> HIDE DEF g
  <1>5. gas'.executed = gas.executed + g
    <2>1. gas'.executed = saturating_add(gas.executed, g)
      BY <1>1, <1>2, ZenonT(60)
    <2> QED
      BY <1>4, <2>1, ZenonT(60)
  <1>6. gas_in(receipts) = gas.executed
    BY <1>1, ZenonT(60) DEF GasAccounted
  <1>7. PICK k \in Nat : Pending(k)
    BY <1>1, ZenonT(60) DEF TransactionInv
  <1>8. /\ entry.sent => n < Len(tx.commands) /\ entry = Sent(tx.commands[n + 1])
        /\ ~ entry.sent => k > 0
    BY <1>1, <1>7, NextEntry, ZenonT(60)
  <1>9. CASE entry.sent
    <2> DEFINE r == [kind |-> entry.cmd.kind, exit_code |-> exit_code(err), gas_used |-> g]
    <2>1. entry.cmd = tx.commands[n + 1]
      BY <1>8, <1>9 DEF Sent
    <2>2. n + 1 \in 1 .. Len(tx.commands)
      BY <1>2, <1>8, <1>9
    <2>c. tx.commands[n + 1] \in Command
      BY <1>2, <2>2
    <2>k. entry.cmd.kind \in Kinds
      BY <2>1, <2>c, ZenonT(60) DEF Command
    <2>3. r \in CommandReceipt /\ r.gas_used = g
      BY <1>4, <2>k, ExitCodes, ZenonT(60) DEF CommandReceipt
    <2>4. receipts' = Append(receipts, r)
      BY <1>1, <1>9, ZenonT(60) DEF push_command_receipt
    <2> HIDE DEF r
    <2> QED
      BY <1>2, <1>5, <1>6, <2>3, <2>4, GasInAppend, ZenonT(60)
  <1>10. CASE ~ entry.sent
    <2> DEFINE last == receipts[n]
               total == saturating_add(last.gas_used, g)
               r == [kind |-> last.kind, exit_code |-> exit_code(err), gas_used |-> total]
    <2>1. receipts # <<>> /\ last \in CommandReceipt /\ n \in 1 .. Len(receipts)
      BY <1>2, <1>7, <1>8, <1>10 DEF Pending
    <2>2. r \in CommandReceipt /\ r.gas_used = total
      BY <2>1, ExitCodes, Saturated, ZenonT(60) DEF CommandReceipt
    <2>3. receipts' = [receipts EXCEPT ![n] = r]
      BY <1>1, <1>10, ZenonT(60) DEF push_deferred_command_receipt
    <2>4. last.gas_used <= gas.executed /\ last.gas_used \in Nat
      BY <1>2, <1>6, <2>1, GasInType, ZenonT(60)
    <2>5. gas.executed + g <= MaxU64 /\ gas.executed \in Nat /\ g \in Nat
      BY <1>2, <1>4, U64Assumption DEF U64
    <2> HIDE DEF last, r
    <2>6. total = last.gas_used + g
      BY <2>4, <2>5, U64Assumption DEF saturating_add, saturate, U64
    <2>7. gas_in(receipts') = gas_in(receipts) + (r.gas_used - last.gas_used)
      BY <1>2, <2>1, <2>2, <2>3, GasInFold, ZenonT(60) DEF last
    <2> HIDE DEF total
    <2> QED
      BY <1>5, <1>6, <2>2, <2>4, <2>5, <2>6, <2>7
  <1> QED
    BY <1>9, <1>10, ZenonT(60)

\* The gas in the receipts is the gas on the meter, and both are within the gas limit,
\* for any number of commands and of deferred commands folded into the receipts.
THEOREM ReceiptsAccountForGas == Spec => []GasAccounted
  <1>1. Init => GasAccounted
    BY ZenonT(60) DEF Init, GasAccounted
  <1>2. ASSUME TransactionInv, TransactionInv', GasAccounted, [Next]_vars
        PROVE  GasAccounted'
    <2> SUFFICES ASSUME phase' = "commands"
                 PROVE  gas_in(receipts') = gas'.executed
      BY <1>2, ZenonT(60) DEF GasAccounted, TransactionInv, gas_in
    <2>1. ASSUME NEW cost \in Costs, ExecuteCommand(cost)
          PROVE  gas_in(receipts') = gas'.executed
      BY <1>2, <2>1, CommandGas, ZenonT(60)
    <2>2. CASE PreCharge
      <3>1. /\ phase = "submitted" /\ receipts' = receipts
            /\ gas' = [gas EXCEPT !.inclusion = tx_inclusion_cost(tx)]
        BY <2>2, ZenonT(60) DEF PreCharge, Return, Panic
      <3>2. receipts = <<>> /\ gas = NoGas
        BY <1>2, <3>1, ZenonT(60) DEF TransactionInv
      <3>3. gas'.executed = 0
        BY <3>1, <3>2, ZenonT(60) DEF NoGas
      <3> QED
        BY <3>1, <3>2, <3>3, GasInNone, ZenonT(60)
    <2>3. CASE UNCHANGED vars
      BY <1>2, <2>3, ZenonT(60) DEF vars, execution, GasAccounted
    <2> QED
      BY <1>2, <2>1, <2>2, <2>3, ZenonT(60) DEF Next, Submit, Charge, EpochTransaction, Upgrade, Return, Panic
  <1> QED
    BY <1>1, <1>2, Invariance, PTL DEF Spec

-----------------------------------------------------------------------------
(***************************************************************************)
(* The tokens behind the cache.                                            *)
(***************************************************************************)

Balances(w) == [a \in Accounts |-> balance(w, a)]
Deposits(w) == [a \in Accounts |-> deposit(w, a)]

\* All tokens as the commands of a transaction see them.
Funds(w) == SumFunction(Balances(w)) + SumFunction(Deposits(w))

\* A sum over all accounts.
LEMMA AccountSum ==
    ASSUME NEW f \in [Accounts -> U64]
    PROVE  /\ SumFunction(f) = SumFunctionOnSet(f, Accounts)
           /\ SumFunction(f) \in Nat
           /\ \A a \in Accounts : f[a] \in Nat /\ f[a] <= SumFunction(f)
  <1>1. SumFunction(f) = SumFunctionOnSet(f, Accounts)
    BY ZenonT(60) DEF SumFunction
  <1>2. \A a \in Accounts : f[a] \in Nat
    BY U64Assumption DEF U64
  <1> QED
    BY <1>1, <1>2, LedgerAssumption, SumNat, SumBounds

\* The sum after the entry of one account was changed.
LEMMA AccountSumChange ==
    ASSUME NEW f \in [Accounts -> U64], NEW g \in [Accounts -> U64], NEW a \in Accounts,
           \A x \in Accounts \ {a} : g[x] = f[x]
    PROVE  SumFunction(g) = SumFunction(f) + (g[a] - f[a])
  <1>1. \A x \in Accounts : f[x] \in Int /\ g[x] \in Int
    BY AccountSum
  <1>2. SumFunctionOnSet(g, Accounts) = SumFunctionOnSet(f, Accounts) + (g[a] - f[a])
    BY <1>1, LedgerAssumption, SumChange
  <1> QED
    BY <1>2, AccountSum, ZenonT(60)

\* What is known of the tokens behind a write set.
LEMMA FundsType ==
    ASSUME ws \in WorldState, NEW w \in Writes
    PROVE  /\ Balances(w) \in [Accounts -> U64] /\ Deposits(w) \in [Accounts -> U64]
           /\ SumFunction(Balances(w)) \in Nat /\ SumFunction(Deposits(w)) \in Nat
           /\ Funds(w) \in Nat
           /\ \A a \in Accounts : /\ Balances(w)[a] = balance(w, a) /\ Deposits(w)[a] = deposit(w, a)
                                  /\ balance(w, a) \in Nat /\ deposit(w, a) \in Nat
                                  /\ balance(w, a) <= SumFunction(Balances(w))
                                  /\ balance(w, a) + deposit(w, a) <= Funds(w)
  <1>1. \A a \in Accounts : balance(w, a) \in U64 /\ deposit(w, a) \in U64
    BY ReadType, ZenonT(60)
  <1>2. \A a \in Accounts : Balances(w)[a] = balance(w, a) /\ Deposits(w)[a] = deposit(w, a)
    BY ZenonT(60) DEF Balances, Deposits
  <1>3. Balances(w) \in [Accounts -> U64] /\ Deposits(w) \in [Accounts -> U64]
    BY <1>1, ZenonT(60) DEF Balances, Deposits
  <1>4. /\ SumFunction(Balances(w)) \in Nat /\ SumFunction(Deposits(w)) \in Nat
        /\ \A a \in Accounts : /\ Balances(w)[a] \in Nat /\ Balances(w)[a] <= SumFunction(Balances(w))
                               /\ Deposits(w)[a] \in Nat /\ Deposits(w)[a] <= SumFunction(Deposits(w))
    BY <1>3, AccountSum, ZenonT(60)
  <1>5. Funds(w) \in Nat
    BY <1>4 DEF Funds
  <1>6. ASSUME NEW a \in Accounts
        PROVE  balance(w, a) + deposit(w, a) <= Funds(w)
    <2> DEFINE B == SumFunction(Balances(w))
               D == SumFunction(Deposits(w))
    <2>1. Funds(w) = B + D
      BY ZenonT(60) DEF Funds
    <2>2. /\ B \in Nat /\ D \in Nat /\ balance(w, a) \in Nat /\ deposit(w, a) \in Nat
          /\ balance(w, a) <= B /\ deposit(w, a) <= D
      BY <1>2, <1>4, ZenonT(60)
    <2> HIDE DEF B, D
    <2> QED
      BY <2>1, <2>2
  <1> QED
    BY <1>2, <1>3, <1>4, <1>5, <1>6, ZenonT(60)

\* A write changes the sum by what it adds to the account.
LEMMA WriteFunds ==
    ASSUME ws \in WorldState, NEW w \in Writes, NEW a \in Accounts, NEW value \in U64
    PROVE  /\ Funds(set_balance(w, a, value)) = Funds(w) + (value - balance(w, a))
           /\ Funds(set_deposit(w, a, value)) = Funds(w) + (value - deposit(w, a))
           /\ deposit(set_balance(w, a, value), a) = deposit(w, a)
  <1> DEFINE b == set_balance(w, a, value)
             d == set_deposit(w, a, value)
  <1>1. b \in Writes /\ d \in Writes
    BY WriteType, ZenonT(60)
  <1>2. value # None
    BY LedgerAssumption, ZenonT(60)
  <1>3. /\ balance(b, a) = value
        /\ \A x \in Accounts \ {a} : balance(b, x) = balance(w, x)
        /\ \A x \in Accounts : deposit(b, x) = deposit(w, x)
    BY <1>2, ZenonT(60) DEF balance, deposit, set_balance, Writes
  <1>4. /\ deposit(d, a) = value
        /\ \A x \in Accounts \ {a} : deposit(d, x) = deposit(w, x)
        /\ \A x \in Accounts : balance(d, x) = balance(w, x)
    BY <1>2, ZenonT(60) DEF balance, deposit, set_deposit, Writes
  <1> HIDE DEF b, d
  <1>5. /\ Balances(w) \in [Accounts -> U64] /\ Deposits(w) \in [Accounts -> U64]
        /\ Balances(b) \in [Accounts -> U64] /\ Deposits(d) \in [Accounts -> U64]
        /\ \A x \in Accounts : /\ Balances(w)[x] = balance(w, x) /\ Balances(b)[x] = balance(b, x)
                               /\ Deposits(w)[x] = deposit(w, x) /\ Deposits(d)[x] = deposit(d, x)
        /\ SumFunction(Balances(w)) \in Nat /\ SumFunction(Deposits(w)) \in Nat
        /\ balance(w, a) \in Nat /\ deposit(w, a) \in Nat /\ value \in Nat
    BY <1>1, FundsType, U64Assumption DEF U64
  <1>6. Deposits(b) = Deposits(w) /\ Balances(d) = Balances(w)
    BY <1>3, <1>4, ZenonT(60) DEF Deposits, Balances
  <1>7. SumFunction(Balances(b)) = SumFunction(Balances(w)) + (value - balance(w, a))
    <2>1. \A x \in Accounts \ {a} : Balances(b)[x] = Balances(w)[x]
      BY <1>3, <1>5, ZenonT(60)
    <2>2. SumFunction(Balances(b)) = SumFunction(Balances(w)) + (Balances(b)[a] - Balances(w)[a])
      BY <1>5, <2>1, AccountSumChange, ZenonT(60)
    <2> QED
      BY <1>3, <1>5, <2>2, ZenonT(60)
  <1>8. SumFunction(Deposits(d)) = SumFunction(Deposits(w)) + (value - deposit(w, a))
    <2>1. \A x \in Accounts \ {a} : Deposits(d)[x] = Deposits(w)[x]
      BY <1>4, <1>5, ZenonT(60)
    <2>2. SumFunction(Deposits(d)) = SumFunction(Deposits(w)) + (Deposits(d)[a] - Deposits(w)[a])
      BY <1>5, <2>1, AccountSumChange, ZenonT(60)
    <2> QED
      BY <1>4, <1>5, <2>2, ZenonT(60)
  <1> DEFINE B == SumFunction(Balances(w))
             D == SumFunction(Deposits(w))
             v == balance(w, a)
             u == deposit(w, a)
  <1>9. /\ Funds(w) = B + D /\ Funds(b) = (B + (value - v)) + D /\ Funds(d) = B + (D + (value - u))
        /\ B \in Nat /\ D \in Nat /\ v \in Nat /\ u \in Nat /\ value \in Nat
    BY <1>5, <1>6, <1>7, <1>8 DEF Funds
  <1>10. deposit(b, a) = u
    BY <1>3, ZenonT(60)
  <1> HIDE DEF B, D, v, u
  <1>11. Funds(b) = Funds(w) + (value - v) /\ Funds(d) = Funds(w) + (value - u)
    BY <1>9
  <1> QED
    BY <1>10, <1>11, ZenonT(60) DEF b, d, v, u

\* A transfer conserves the tokens, to another account or to the payer's own.
LEMMA TransferFunds ==
    ASSUME ws \in WorldState, NEW w \in Writes, NEW from \in Accounts, NEW to \in Accounts,
           NEW amount \in U64, balance(w, from) >= amount, Funds(w) <= MaxU64
    PROVE  Funds(transfer(w, from, to, amount)) = Funds(w)
  <1> DEFINE v == balance(w, from)
             debited == set_balance(w, from, v - amount)
             u == balance(debited, to)
             sum == saturating_add(u, amount)
  <1>1. v \in Nat /\ v \in U64 /\ amount \in Nat /\ Funds(w) \in Nat
    BY FundsType, ReadType, U64Assumption DEF U64
  <1>2. v - amount \in U64
    BY <1>1, U64Assumption DEF U64
  <1>3. debited \in Writes /\ Funds(debited) = Funds(w) + ((v - amount) - v)
    BY <1>2, WriteType, WriteFunds, ZenonT(60)
  <1>4. Funds(debited) = Funds(w) - amount
    <2> HIDE DEF v, debited
    <2> QED BY <1>1, <1>3
  <1> HIDE DEF debited
  <1>5. u \in Nat /\ u <= Funds(debited)
    <2>1. u \in Nat /\ deposit(debited, to) \in Nat /\ u + deposit(debited, to) <= Funds(debited)
          /\ Funds(debited) \in Nat
      BY <1>3, FundsType, ZenonT(60)
    <2> HIDE DEF u
    <2> QED BY <2>1
  <1>6. sum = u + amount
    <2> HIDE DEF u
    <2> QED BY <1>1, <1>4, <1>5, U64Assumption DEF saturating_add, saturate, U64
  <1>7. Funds(set_balance(debited, to, sum)) = Funds(debited) + (sum - u)
    BY <1>3, Saturated, WriteFunds, ZenonT(60)
  <1>8. transfer(w, from, to, amount) = set_balance(debited, to, sum)
    BY ZenonT(60) DEF transfer, debited
  <1> HIDE DEF u, sum
  <1>9. Funds(debited) + (sum - u) = Funds(w)
    BY <1>1, <1>4, <1>5, <1>6
  <1> QED
    BY <1>7, <1>8, <1>9, ZenonT(60)

\* A command conserves the tokens that it sees, whether it succeeds or fails.
LEMMA ExecuteFunds ==
    ASSUME TypeOK, phase = "commands", NEW entry \in Entry,
           entry.sent => entry.cmd.kind # "NextEpoch", Funds(writes) <= MaxU64
    PROVE  Funds(Execute(entry).writes) = Funds(writes)
  <1>1. writes \in Writes /\ ws \in WorldState /\ tx.signer \in Accounts
    BY ZenonT(60) DEF TypeOK, Writes, Transaction
  <1>2. \A e : Failed(e).writes = writes
    BY ZenonT(60) DEF Failed
  <1>3. \A w, trap : Done(w, trap).writes = w
    BY ZenonT(60) DEF Done
  <1>4. ASSUME NEW actor \in Accounts, NEW amount \in U64
        PROVE  Funds(ExecuteTopUp(actor, amount).writes) = Funds(writes)
    <2>1. CASE balance(writes, actor) < amount
      BY <1>2, <2>1, ZenonT(60) DEF ExecuteTopUp
    <2>2. CASE ~ (balance(writes, actor) < amount)
      <3> DEFINE v == balance(writes, actor)
                 u == deposit(writes, actor)
                 debited == set_balance(writes, actor, v - amount)
                 sum == saturating_add(u, amount)
      <3>1. v \in Nat /\ v \in U64 /\ u \in Nat /\ amount \in Nat /\ v >= amount
        BY <1>1, <2>2, FundsType, ReadType, U64Assumption DEF U64
      <3>2. v - amount \in U64
        BY <3>1, U64Assumption DEF U64
      <3>3. /\ debited \in Writes /\ Funds(debited) = Funds(writes) + ((v - amount) - v)
            /\ deposit(debited, actor) = u
        BY <1>1, <3>2, WriteType, WriteFunds, ZenonT(60)
      <3>4. v + u <= Funds(writes) /\ Funds(writes) \in Nat
        BY <1>1, FundsType, ZenonT(60)
      <3>5. sum = u + amount
        <4> HIDE DEF u, v
        <4> QED BY <3>1, <3>4, U64Assumption DEF saturating_add, saturate, U64
      <3>6. Funds(set_deposit(debited, actor, sum)) = Funds(debited) + (sum - u)
        <4> HIDE DEF debited
        <4> QED BY <1>1, <3>3, Saturated, WriteFunds
      <3>7. ExecuteTopUp(actor, amount).writes = set_deposit(debited, actor, sum)
        BY <1>3, <2>2, ZenonT(60) DEF ExecuteTopUp
      <3> HIDE DEF u, v, debited, sum
      <3>8. Funds(debited) + (sum - u) = Funds(writes)
        BY <3>1, <3>3, <3>4, <3>5
      <3> QED
        BY <3>6, <3>7, <3>8, ZenonT(60)
    <2> QED
      BY <2>1, <2>2, ZenonT(60)
  <1>5. ASSUME NEW cmd \in Command
        PROVE  /\ Funds(ExecuteTransfer(cmd).writes) = Funds(writes)
               /\ Funds(ExecuteCall(cmd).writes) = Funds(writes)
    <2> DEFINE paid == transfer(writes, tx.signer, cmd.to, cmd.amount)
               back == transfer(paid, cmd.to, tx.signer, cmd.pay)
    <2>1. cmd.to \in Accounts /\ cmd.amount \in U64 /\ cmd.pay \in U64
      BY ZenonT(60) DEF Command, Amounts
    <2>2. CASE balance(writes, tx.signer) < cmd.amount
      BY <1>2, <2>2, ZenonT(60) DEF ExecuteTransfer, ExecuteCall
    <2>3. CASE ~ (balance(writes, tx.signer) < cmd.amount)
      <3>1. balance(writes, tx.signer) >= cmd.amount
        BY <1>1, <2>1, <2>3, ReadType, U64Assumption DEF U64
      <3>2. paid \in Writes /\ Funds(paid) = Funds(writes)
        BY <1>1, <2>1, <3>1, TransferType, TransferFunds, ZenonT(60)
      <3>3. ExecuteTransfer(cmd).writes = paid
        BY <1>3, <2>3, ZenonT(60) DEF ExecuteTransfer
      <3> HIDE DEF paid
      <3>4. ~ (balance(paid, cmd.to) < cmd.pay) => Funds(back) = Funds(writes)
        <4> SUFFICES ASSUME ~ (balance(paid, cmd.to) < cmd.pay)
                     PROVE  Funds(back) = Funds(writes)
          BY ZenonT(60)
        <4>1. balance(paid, cmd.to) \in U64
          BY <1>1, <2>1, <3>2, ReadType, ZenonT(60)
        <4>2. balance(paid, cmd.to) >= cmd.pay
          BY <2>1, <4>1, U64Assumption DEF U64
        <4>3. Funds(paid) <= MaxU64
          BY <3>2, ZenonT(60)
        <4> QED
          BY <1>1, <2>1, <3>2, <4>2, <4>3, TransferFunds, ZenonT(60)
      <3> HIDE DEF back
      <3>5. \/ ExecuteCall(cmd).writes = writes
            \/ ExecuteCall(cmd).writes = paid
            \/ ~ (balance(paid, cmd.to) < cmd.pay) /\ ExecuteCall(cmd).writes = back
        BY <1>2, <1>3, <2>3, ZenonT(60) DEF ExecuteCall, paid, back
      <3> QED
        BY <3>2, <3>3, <3>4, <3>5, ZenonT(60)
    <2> QED
      BY <2>2, <2>3, ZenonT(60)
  <1>6. CASE ~ entry.sent
    <2>1. Execute(entry) = ExecuteTopUp(entry.contract, entry.amount)
      BY <1>6, ZenonT(60) DEF Execute
    <2>2. entry.contract \in Accounts /\ entry.amount \in U64
      BY <1>6, ZenonT(60) DEF Entry, SentEntry, DeferredEntry
    <2> QED
      BY <1>4, <2>1, <2>2
  <1>7. CASE entry.sent
    <2>1. entry.cmd \in Command
      BY <1>7, ZenonT(60) DEF Entry, SentEntry, DeferredEntry
    <2>2. entry.cmd.kind \in {"Transfer", "Call", "TopUpDeposit"} /\ entry.cmd.amount \in U64
      BY <1>7, <2>1, ZenonT(60) DEF Command, Kinds, Amounts
    <2>3. entry.cmd.kind = "Transfer" => Execute(entry) = ExecuteTransfer(entry.cmd)
      BY <1>7, ZenonT(60) DEF Execute
    <2>4. entry.cmd.kind = "Call" => Execute(entry) = ExecuteCall(entry.cmd)
      BY <1>7, ZenonT(60) DEF Execute
    <2>5. entry.cmd.kind = "TopUpDeposit" => Execute(entry) = ExecuteTopUp(tx.signer, entry.cmd.amount)
      BY <1>7, ZenonT(60) DEF Execute
    <2> QED
      BY <1>1, <1>4, <1>5, <2>1, <2>2, <2>3, <2>4, <2>5
  <1> QED
    BY <1>6, <1>7, ZenonT(60)

\* What the signer pays in advance.
Held == tx.gas_limit * fee_per_gas

\* The world state that the commands run on, and the tokens in it.
FundsInv ==
    /\ phase \in {"idle", "submitted"} => writes = NoWrites
    /\ phase = "submitted" => ws = world
    /\ phase = "commands" =>
           /\ Held <= world.balance[tx.signer]
           /\ ws = [world EXCEPT !.balance = [world.balance EXCEPT ![tx.signer] = world.balance[tx.signer] - Held]]
           /\ error # None => writes = NoWrites
           /\ Wealth(world) <= MaxU64 => Funds(writes) + Held = Wealth(world)

\* The tokens of a world state.
LEMMA WealthType ==
    ASSUME NEW s \in WorldState
    PROVE  /\ s.balance \in [Accounts -> U64] /\ s.deposit \in [Accounts -> U64]
           /\ SumFunction(s.balance) \in Nat /\ SumFunction(s.deposit) \in Nat
           /\ Wealth(s) = SumFunction(s.balance) + SumFunction(s.deposit)
           /\ Wealth(s) \in Nat
           /\ \A a \in Accounts : s.balance[a] \in Nat /\ s.balance[a] <= Wealth(s)
  <1>1. s.balance \in [Accounts -> U64] /\ s.deposit \in [Accounts -> U64]
    BY ZenonT(60) DEF WorldState
  <1>2. Wealth(s) = SumFunction(s.balance) + SumFunction(s.deposit)
    BY ZenonT(60) DEF Wealth
  <1>3. /\ SumFunction(s.balance) \in Nat /\ SumFunction(s.deposit) \in Nat
        /\ \A a \in Accounts : s.balance[a] \in Nat /\ s.balance[a] <= SumFunction(s.balance)
    BY <1>1, AccountSum, ZenonT(60)
  <1> QED
    BY <1>1, <1>2, <1>3

\* A command that was rolled back leaves what the world state holds.
LEMMA NoWritesFunds ==
    ASSUME ws \in WorldState
    PROVE  NoWrites \in Writes /\ Funds(NoWrites) = Wealth(ws)
  <1>1. NoWrites \in Writes
    BY ZenonT(60) DEF NoWrites, Writes
  <1>2. \A a \in Accounts : balance(NoWrites, a) = ws.balance[a] /\ deposit(NoWrites, a) = ws.deposit[a]
    BY ZenonT(60) DEF balance, deposit, NoWrites
  <1>3. Balances(NoWrites) = ws.balance /\ Deposits(NoWrites) = ws.deposit
    BY <1>2, WealthType, ZenonT(60) DEF Balances, Deposits
  <1> QED
    BY <1>1, <1>3, ZenonT(60) DEF Funds, Wealth

\* The advance payment takes the fee for the gas limit out of the world state.
LEMMA HeldBack ==
    ASSUME NEW s \in WorldState, NEW t \in WorldState, NEW a \in Accounts, NEW h \in Nat,
           h <= s.balance[a],
           t = [s EXCEPT !.balance = [s.balance EXCEPT ![a] = s.balance[a] - h]]
    PROVE  Wealth(t) + h = Wealth(s)
  <1>1. /\ t.deposit = s.deposit /\ t.balance[a] = s.balance[a] - h
        /\ \A x \in Accounts \ {a} : t.balance[x] = s.balance[x]
    BY ZenonT(60) DEF WorldState
  <1>2. /\ s.balance \in [Accounts -> U64] /\ t.balance \in [Accounts -> U64]
        /\ SumFunction(s.balance) \in Nat /\ SumFunction(s.deposit) \in Nat /\ s.balance[a] \in Nat
        /\ Wealth(s) = SumFunction(s.balance) + SumFunction(s.deposit)
        /\ Wealth(t) = SumFunction(t.balance) + SumFunction(s.deposit)
    BY <1>1, WealthType, ZenonT(60)
  <1>3. SumFunction(t.balance) = SumFunction(s.balance) + (t.balance[a] - s.balance[a])
    BY <1>1, <1>2, AccountSumChange, ZenonT(60)
  <1> QED
    BY <1>1, <1>2, <1>3

\* A transaction whose commands run can pay for its gas limit.
LEMMA HeldType ==
    ASSUME TypeOK, phase # "idle"
    PROVE  /\ Held \in Nat /\ fee_per_gas \in Nat /\ tx.gas_limit \in U64 /\ tx.gas_limit \in Nat
           /\ tx.priority_fee \in Nat /\ bd.base_fee \in Nat
           /\ tx.signer \in Accounts /\ bd.proposer \in Accounts /\ bd.treasury \in Accounts
  <1>1. tx \in Transaction /\ bd \in Block
    BY ZenonT(60) DEF TypeOK
  <1>2. /\ tx.gas_limit \in U64 /\ tx.priority_fee \in U64 /\ bd.base_fee \in U64
        /\ tx.signer \in Accounts /\ bd.proposer \in Accounts /\ bd.treasury \in Accounts
    BY <1>1, ZenonT(60) DEF Transaction, Block
  <1>3. tx.gas_limit \in Nat /\ tx.priority_fee \in Nat /\ bd.base_fee \in Nat
    BY <1>2, U64Assumption DEF U64
  <1>4. fee_per_gas \in Nat
    BY <1>3 DEF fee_per_gas
  <1>5. Held \in Nat
    BY <1>3, <1>4 DEF Held
  <1> QED
    BY <1>2, <1>3, <1>4, <1>5

\* The check of the pre-charge phase.
LEMMA HeldFits ==
    ASSUME TypeOK, phase = "submitted", pre_charge_error = None
    PROVE  Held <= ws.balance[tx.signer]
  <1>1. Held \in Nat /\ tx.signer \in Accounts
    BY HeldType, ZenonT(60)
  <1>2. ws.balance[tx.signer] \in U64
    BY <1>1, ZenonT(60) DEF TypeOK, WorldState
  <1>3. ~ (Held > min(MaxU64, ws.balance[tx.signer]))
    <2>1. /\ None # "PreExecutionGasExhausted" /\ None # "WrongNonce"
          /\ None # "NotEnoughBalanceForGasLimit"
      BY LedgerAssumption, ZenonT(60) DEF Errors
    <2> QED
      BY <2>1, ZenonT(60) DEF pre_charge_error, Held
  <1> QED
    BY <1>1, <1>2, <1>3, U64Assumption DEF min, U64

\* The tokens are accounted for in every phase.
LEMMA FundsInvariance == Spec => []FundsInv
  <1>1. Init => FundsInv
    BY ZenonT(60) DEF Init, FundsInv
  <1>2. ASSUME TransactionInv, TransactionInv', FundsInv, [Next]_vars
        PROVE  FundsInv'
    <2>0. TypeOK /\ TypeOK'
      BY <1>2, ZenonT(60) DEF TransactionInv
    <2>1. ASSUME NEW t \in Txns, NEW b \in Blocks, Submit(t, b)
          PROVE  FundsInv'
      <3>1. phase = "idle" /\ phase' = "submitted" /\ ws' = world /\ world' = world /\ writes' = writes
        BY <2>1, ZenonT(60) DEF Submit
      <3> QED
        BY <1>2, <3>1, ZenonT(60) DEF FundsInv, NoWrites
    <2>2. ASSUME phase' = "panicked"
          PROVE  FundsInv'
      BY <2>2, ZenonT(60) DEF FundsInv
    <2>3. ASSUME NEW s, NEW res, Return(s, res)
          PROVE  FundsInv'
      BY <2>3, ZenonT(60) DEF FundsInv, Return
    <2>4. ASSUME PreCharge, pre_charge_error = None
          PROVE  FundsInv'
      <3>1. /\ phase = "submitted" /\ phase' = "commands"
            /\ ws' = [ws EXCEPT !.balance[tx.signer] = @ - Held]
            /\ UNCHANGED <<world, tx, bd, writes, receipts, error, result>>
        BY <2>4, ZenonT(60) DEF PreCharge, Held
      <3>2. writes = NoWrites /\ ws = world /\ error = None
        BY <1>2, <3>1, ZenonT(60) DEF FundsInv, TransactionInv
      <3>3. /\ Held \in Nat /\ tx.signer \in Accounts /\ world \in WorldState /\ ws' \in WorldState
            /\ Held <= world.balance[tx.signer]
        BY <2>0, <2>4, <3>1, <3>2, HeldType, HeldFits DEF TypeOK
      <3>4. ws' = [world EXCEPT !.balance = [world.balance EXCEPT ![tx.signer] = world.balance[tx.signer] - Held]]
        BY <3>1, <3>2, ZenonT(60)
      <3>5. Wealth(ws') + Held = Wealth(world)
        BY <3>3, <3>4, HeldBack, ZenonT(60)
      <3>6. Funds(writes)' = Wealth(ws')
        <4>1. ws' \in WorldState => (Funds(NoWrites))' = Wealth(ws')
          <5>1. \A a \in Accounts : balance(NoWrites, a)' = ws'.balance[a] /\ deposit(NoWrites, a)' = ws'.deposit[a]
            BY ZenonT(60) DEF balance, deposit, NoWrites
          <5>2. ws' \in WorldState => Balances(NoWrites)' = ws'.balance /\ Deposits(NoWrites)' = ws'.deposit
            BY <5>1, WealthType, ZenonT(60) DEF Balances, Deposits
          <5> QED
            BY <5>2, ZenonT(60) DEF Funds, Wealth
        <4>2. writes' = NoWrites
          BY <3>1, <3>2, ZenonT(60)
        <4>3. NoWrites' = NoWrites
          BY ZenonT(60) DEF NoWrites
        <4> QED
          BY <3>3, <4>1, <4>2, <4>3, ZenonT(60) DEF Funds, Balances, Deposits, balance, deposit
      <3>7. Held' = Held /\ world' = world /\ tx' = tx /\ error' = None
        BY <3>1, <3>2, ZenonT(60) DEF Held, fee_per_gas
      <3> QED
        BY <3>1, <3>3, <3>4, <3>5, <3>6, <3>7, ZenonT(60) DEF FundsInv
    <2>5. ASSUME NEW cost \in Costs, ExecuteCommand(cost)
          PROVE  FundsInv'
      <3> DEFINE entry == Head(stack)
      <3>1. /\ phase = "commands" /\ phase' = "commands" /\ error = None /\ stack # <<>>
            /\ UNCHANGED <<world, tx, bd, ws>>
            /\ \/ error' # None /\ writes' = NoWrites
               \/ error' = None /\ writes' = Execute(entry).writes
        BY <2>5, ZenonT(60) DEF ExecuteCommand
      <3>2. /\ Held <= world.balance[tx.signer]
            /\ ws = [world EXCEPT !.balance = [world.balance EXCEPT ![tx.signer] = world.balance[tx.signer] - Held]]
            /\ Wealth(world) <= MaxU64 => Funds(writes) + Held = Wealth(world)
        BY <1>2, <3>1, ZenonT(60) DEF FundsInv
      <3>3. /\ Held \in Nat /\ tx.signer \in Accounts /\ world \in WorldState /\ ws \in WorldState
            /\ writes \in Writes
        BY <2>0, <3>1, HeldType, ZenonT(60) DEF TypeOK, Writes
      <3>4. Wealth(ws) + Held = Wealth(world) /\ Wealth(ws) \in Nat /\ Wealth(world) \in Nat
        BY <3>2, <3>3, HeldBack, WealthType
      <3>5. Funds(NoWrites) = Wealth(ws) /\ Funds(writes) \in Nat
        BY <3>3, NoWritesFunds, FundsType, ZenonT(60)
      <3>6. entry \in Entry /\ (entry.sent => entry.cmd.kind # "NextEpoch")
        <4>1. PICK k \in Nat : Pending(k)
          BY <1>2, <3>1, ZenonT(60) DEF TransactionInv
        <4>2. /\ entry \in Entry
              /\ entry.sent => Len(receipts) < Len(tx.commands) /\ entry = Sent(tx.commands[Len(receipts) + 1])
          BY <1>2, <3>1, <4>1, NextEntry, ZenonT(60)
        <4>3. /\ tx.commands \in Seq(Command) /\ Len(receipts) \in Nat /\ ~ has_next_epoch
          BY <1>2, <3>1 DEF TransactionInv, ReceiptsInv, TypeOK, Transaction
        <4>4. ASSUME entry.sent PROVE entry.cmd.kind # "NextEpoch"
          <5>1. entry.cmd = tx.commands[Len(receipts) + 1]
            BY <4>2, <4>4 DEF Sent
          <5>2. Len(receipts) + 1 \in DOMAIN tx.commands
            BY <4>2, <4>3, <4>4
          <5> QED
            BY <4>3, <5>1, <5>2, ZenonT(60) DEF has_next_epoch
        <4> QED
          BY <4>2, <4>4, ZenonT(60)
      <3> HIDE DEF entry
      <3>7. Wealth(world) <= MaxU64 => Funds(writes') + Held = Wealth(world)
        <4> SUFFICES ASSUME Wealth(world) <= MaxU64
                     PROVE  Funds(writes') + Held = Wealth(world)
          BY ZenonT(60)
        <4>1. Funds(writes) <= MaxU64
          BY <3>2, <3>3, <3>4, <3>5, U64Assumption
        <4>2. Funds(Execute(entry).writes) = Funds(writes)
          BY <2>0, <3>1, <3>6, <4>1, ExecuteFunds, ZenonT(60)
        <4>3. CASE writes' = NoWrites
          BY <3>4, <3>5, <4>3, ZenonT(60)
        <4>4. CASE writes' = Execute(entry).writes
          BY <3>2, <4>2, <4>4, ZenonT(60)
        <4> QED
          BY <3>1, <4>3, <4>4, ZenonT(60)
      <3>8. Funds(writes)' = Funds(writes')
        BY <3>1, ZenonT(60) DEF Funds, Balances, Deposits, balance, deposit
      <3>9. Held' = Held /\ NoWrites' = NoWrites
        BY <3>1, ZenonT(60) DEF Held, fee_per_gas, NoWrites
      <3> QED
        BY <3>1, <3>2, <3>7, <3>8, <3>9, ZenonT(60) DEF FundsInv
    <2>6. CASE UNCHANGED vars
      BY <1>2, <2>6, ZenonT(60)
        DEF vars, execution, FundsInv, Held, fee_per_gas, Funds, Balances, Deposits, balance, deposit, NoWrites
    <2>7. CASE PreCharge
      BY <2>2, <2>3, <2>4, <2>7, ZenonT(60) DEF PreCharge, Panic
    <2>8. CASE Charge
      BY <2>2, <2>3, <2>8, ZenonT(60) DEF Charge, Panic
    <2>9. CASE EpochTransaction
      BY <2>3, <2>9, ZenonT(60) DEF EpochTransaction
    <2>10. CASE Upgrade
      BY <2>3, <2>10, ZenonT(60) DEF Upgrade
    <2> QED
      BY <1>2, <2>1, <2>5, <2>6, <2>7, <2>8, <2>9, <2>10, ZenonT(60) DEF Next
  <1> QED
    BY <1>1, <1>2, Invariance, PTL DEF Spec

\* The gas that is charged is the gas on the meter, which the advance payment covers.
LEMMA ChargedGas ==
    ASSUME TransactionInv, phase = "commands"
    PROVE  /\ charged_gas = gas.inclusion + gas.executed
           /\ charged_gas \in Nat /\ charged_gas <= tx.gas_limit
           /\ saturating_sub(tx.gas_limit, charged_gas) = tx.gas_limit - charged_gas
  <1>1. /\ gas \in [inclusion : U64, executed : U64] /\ tx.gas_limit \in U64
        /\ gas.inclusion + gas.executed <= tx.gas_limit
    BY HeldType, ZenonT(60) DEF TransactionInv, TypeOK
  <1>2. gas.inclusion \in Nat /\ gas.executed \in Nat /\ tx.gas_limit \in Nat /\ tx.gas_limit <= MaxU64
    BY <1>1, U64Assumption DEF U64
  <1>3. total_gas_used_for_executed_commands = gas.inclusion + gas.executed
    BY <1>1, <1>2, U64Assumption DEF total_gas_used_for_executed_commands, saturating_add, saturate, U64
  <1>4. charged_gas = gas.inclusion + gas.executed
    BY <1>1, <1>2, <1>3, ZenonT(60) DEF charged_gas, min
  <1> QED
    BY <1>1, <1>2, <1>4 DEF saturating_sub

\* The advance payment is the refund, the priority fee and the base fee of the gas used.
LEMMA FeeParts ==
    ASSUME NEW limit \in Nat, NEW used \in Nat, used <= limit, NEW tip \in Nat, NEW base \in Nat
    PROVE  /\ (limit - used) * (base + tip) \in Nat /\ used * tip \in Nat /\ used * base \in Nat
           /\ limit * (base + tip) = (limit - used) * (base + tip) + used * tip + used * base
  <1>1. PICK d \in Nat : limit = used + d
    <2>1. limit - used \in Nat /\ limit = used + (limit - used)
      OBVIOUS
    <2> QED BY <2>1, ZenonT(60)
  <1>2. limit - used = d
    BY <1>1
  <1>3. (used + d) * (base + tip) = d * (base + tip) + used * tip + used * base
    OBVIOUS
  <1>4. d * (base + tip) \in Nat /\ used * tip \in Nat /\ used * base \in Nat
    OBVIOUS
  <1> QED
    BY <1>1, <1>2, <1>3, <1>4, ZenonT(60)

\* The same for the transaction at hand.
LEMMA FeesHeld ==
    ASSUME TransactionInv, phase = "commands"
    PROVE  /\ (tx.gas_limit - charged_gas) * fee_per_gas \in Nat
           /\ charged_gas * bd.base_fee \in Nat /\ charged_gas * tx.priority_fee \in Nat
           /\ Held = (tx.gas_limit - charged_gas) * fee_per_gas
                         + charged_gas * tx.priority_fee + charged_gas * bd.base_fee
  <1> DEFINE limit == tx.gas_limit
             used == charged_gas
             tip == tx.priority_fee
             base == bd.base_fee
  <1>1. limit \in Nat /\ tip \in Nat /\ base \in Nat /\ used \in Nat /\ used <= limit
    BY HeldType, ChargedGas, ZenonT(60) DEF TransactionInv
  <1>2. fee_per_gas = base + tip /\ Held = limit * fee_per_gas
    BY ZenonT(60) DEF fee_per_gas, Held
  <1> HIDE DEF limit, used, tip, base
  <1>3. /\ (limit - used) * (base + tip) \in Nat /\ used * tip \in Nat /\ used * base \in Nat
        /\ limit * (base + tip) = (limit - used) * (base + tip) + used * tip + used * base
    BY <1>1, FeeParts
  <1>4. /\ (limit - used) * fee_per_gas \in Nat /\ used * tip \in Nat /\ used * base \in Nat
        /\ Held = (limit - used) * fee_per_gas + used * tip + used * base
    BY <1>2, <1>3, ZenonT(60)
  <1> QED
    BY <1>4, ZenonT(60) DEF limit, used, tip, base

\* When the commands are done, there is a receipt if there was a command.
LEMMA ReceiptAtEnd ==
    ASSUME TransactionInv, phase = "commands", commands_done
    PROVE  ~ into_receipt_panics
  <1> SUFFICES ASSUME tx.commands # <<>>, receipts = <<>> PROVE FALSE
    BY ZenonT(60) DEF into_receipt_panics
  <1>1. tx.commands \in Seq(Command) /\ (error # None => receipts # <<>>)
    BY ZenonT(60) DEF TransactionInv, ReceiptsInv, TypeOK, Transaction
  <1>2. error = None /\ stack = <<>>
    BY <1>1, ZenonT(60) DEF commands_done
  <1>3. PICK k \in Nat : Pending(k)
    BY <1>2, ZenonT(60) DEF TransactionInv
  <1>4. Len(stack) = 0 /\ Len(receipts) = 0
    BY <1>2, ZenonT(60)
  <1>5. Len(tx.commands) = 0
    <2>1. Len(tx.commands) \in Nat
      BY <1>1
    <2> QED BY <1>3, <1>4, <2>1 DEF Pending
  <1> QED
    BY <1>1, <1>5

\* No addition or multiplication of charge overflows as long as the treasury's share of
\* all tokens fits in a u64: the balance of the signer and the refund are parts of all tokens,
\* and so is the base fee.
THEOREM ChargeIsSafe == Spec => []ChargeDoesNotPanic
  <1>1. ASSUME TransactionInv, FundsInv, phase = "commands", commands_done,
               TreasuryNum * Wealth(world) <= MaxU64
        PROVE  ~ charge_panics
    <2> DEFINE W == Wealth(world)
               F == Funds(writes)
               v == balance(writes, tx.signer)
               refund == (tx.gas_limit - charged_gas) * fee_per_gas
               base == charged_gas * bd.base_fee
               tip == charged_gas * tx.priority_fee
    <2>1. TypeOK /\ world \in WorldState /\ ws \in WorldState /\ writes \in Writes
      BY <1>1, ZenonT(60) DEF TransactionInv, TypeOK, Writes
    <2>2. /\ Held \in Nat /\ tx.gas_limit \in Nat /\ tx.priority_fee \in Nat /\ bd.base_fee \in Nat
          /\ tx.signer \in Accounts /\ fee_per_gas = bd.base_fee + tx.priority_fee
      BY <1>1, <2>1, HeldType, ZenonT(60) DEF fee_per_gas
    <2>3. W \in Nat /\ F \in Nat /\ v \in Nat /\ deposit(writes, tx.signer) \in Nat
          /\ v + deposit(writes, tx.signer) <= F
      BY <2>1, <2>2, WealthType, FundsType
    <2>4. /\ charged_gas \in Nat /\ charged_gas <= tx.gas_limit
          /\ saturating_sub(tx.gas_limit, charged_gas) = tx.gas_limit - charged_gas
      BY <1>1, ChargedGas, ZenonT(60)
    <2>5. refund \in Nat /\ base \in Nat /\ tip \in Nat /\ Held = refund + tip + base
      BY <1>1, FeesHeld, ZenonT(60)
    <2>6. TreasuryNum \in Nat /\ TreasuryNum >= 1
      BY LedgerAssumption
    <2>7. W <= MaxU64
      <3> HIDE DEF W
      <3>1. W <= TreasuryNum * W /\ TreasuryNum * W \in Nat
        BY <2>3, <2>6
      <3>2. TreasuryNum * W <= MaxU64
        BY <1>1, ZenonT(60) DEF W
      <3> QED BY <2>3, <3>1, <3>2, U64Assumption
    <2>8. F + Held = W
      BY <1>1, <2>7, ZenonT(60) DEF FundsInv
    <2>9. new_signer_balance = v + refund
      BY <2>4, ZenonT(60) DEF new_signer_balance
    <2>10. charged_gas * bd.base_fee * TreasuryNum = base * TreasuryNum
      BY ZenonT(60)
    <2> HIDE DEF W, F, v, refund, base, tip
    <2>11. v + refund <= MaxU64 /\ base <= W
      BY <2>2, <2>3, <2>5, <2>7, <2>8, U64Assumption
    <2>12. base * TreasuryNum <= MaxU64
      <3>1. base * TreasuryNum <= TreasuryNum * W
        BY <2>3, <2>5, <2>6, <2>11
      <3>2. base * TreasuryNum \in Nat /\ TreasuryNum * W \in Nat
        BY <2>3, <2>5, <2>6
      <3>3. TreasuryNum * W <= MaxU64
        BY <1>1, ZenonT(60) DEF W
      <3> QED BY <3>1, <3>2, <3>3, U64Assumption
    <2>13. ~ (v + refund > MaxU64) /\ ~ (base * TreasuryNum > MaxU64)
      <3>1. v + refund \in Nat /\ base * TreasuryNum \in Nat
        BY <2>3, <2>5, <2>6
      <3> QED BY <2>11, <2>12, <3>1, U64Assumption
    <2>14. ~ into_receipt_panics
      BY <1>1, ReceiptAtEnd, ZenonT(60)
    <2> QED
      BY <2>9, <2>10, <2>13, <2>14, ZenonT(60) DEF charge_panics
  <1>2. TransactionInv /\ FundsInv => ChargeDoesNotPanic
    BY <1>1, ZenonT(60) DEF ChargeDoesNotPanic
  <1> QED
    BY <1>2, Invariance, FundsInvariance, PTL

-----------------------------------------------------------------------------
(***************************************************************************)
(* The fees.                                                               *)
(***************************************************************************)

\* The balances after each of the steps of charge: the refund to the signer, the priority
\* fee for the proposer, the treasury's cut of the base fee.
Refunded ==
    [Balances(writes) EXCEPT ![tx.signer] =
        Balances(writes)[tx.signer] + (tx.gas_limit - charged_gas) * fee_per_gas]
Tipped ==
    [Refunded EXCEPT ![bd.proposer] =
        saturating_add(Refunded[bd.proposer], charged_gas * tx.priority_fee)]
Taxed == [Tipped EXCEPT ![bd.treasury] = saturating_add(Tipped[bd.treasury], treasury_cut)]

\* Whoever of signer, proposer and treasury coincide, the three balances that charge
\* writes are those of three steps one after the other.
LEMMA ChargedBalances ==
    ASSUME TransactionInv, phase = "commands", ~ charge_panics
    PROVE  /\ Refunded \in [Accounts -> U64] /\ Tipped \in [Accounts -> U64] /\ Taxed \in [Accounts -> U64]
           /\ new_signer_balance = Refunded[tx.signer]
           /\ new_proposer_balance = Tipped[bd.proposer]
           /\ new_treasury_balance = Taxed[bd.treasury]
  <1>1. /\ tx.signer \in Accounts /\ bd.proposer \in Accounts /\ bd.treasury \in Accounts
        /\ ws \in WorldState /\ writes \in Writes
    BY HeldType, ZenonT(60) DEF TransactionInv, TypeOK, Writes
  <1>2. /\ Balances(writes) \in [Accounts -> U64]
        /\ \A a \in Accounts : Balances(writes)[a] = balance(writes, a) /\ balance(writes, a) \in Nat
    BY <1>1, FundsType, ZenonT(60)
  <1>3. (tx.gas_limit - charged_gas) * fee_per_gas \in Nat
    BY FeesHeld, ZenonT(60)
  <1>4. new_signer_balance = Balances(writes)[tx.signer] + (tx.gas_limit - charged_gas) * fee_per_gas
    BY <1>1, <1>2, ChargedGas, ZenonT(60) DEF new_signer_balance
  <1>5. new_signer_balance \in U64
    <2> DEFINE r == (tx.gas_limit - charged_gas) * fee_per_gas
               v == Balances(writes)[tx.signer]
    <2>1. v \in Nat /\ r \in Nat /\ new_signer_balance = v + r /\ ~ (new_signer_balance > MaxU64)
      BY <1>1, <1>2, <1>3, <1>4, ZenonT(60) DEF charge_panics
    <2> HIDE DEF r, v
    <2> QED BY <2>1, U64Assumption DEF U64
  <1>6. /\ Refunded = [Balances(writes) EXCEPT ![tx.signer] = new_signer_balance]
        /\ Refunded \in [Accounts -> U64]
        /\ Refunded[tx.signer] = new_signer_balance
        /\ \A a \in Accounts \ {tx.signer} : Refunded[a] = balance(writes, a)
    <2>1. Refunded = [Balances(writes) EXCEPT ![tx.signer] = new_signer_balance]
      BY <1>4, ZenonT(60) DEF Refunded
    <2> QED BY <1>1, <1>2, <1>5, <2>1, ZenonT(60)
  <1>7. /\ Tipped \in [Accounts -> U64]
        /\ Tipped[bd.proposer] = saturating_add(Refunded[bd.proposer], charged_gas * tx.priority_fee)
        /\ \A a \in Accounts \ {bd.proposer} : Tipped[a] = Refunded[a]
    BY <1>1, <1>6, Saturated, ZenonT(60) DEF Tipped
  <1>8. /\ Taxed \in [Accounts -> U64]
        /\ Taxed[bd.treasury] = saturating_add(Tipped[bd.treasury], treasury_cut)
        /\ \A a \in Accounts \ {bd.treasury} : Taxed[a] = Tipped[a]
    BY <1>1, <1>7, Saturated, ZenonT(60) DEF Taxed
  <1>9. new_proposer_balance = Tipped[bd.proposer]
    <2>1. Refunded[bd.proposer] = IF tx.signer = bd.proposer THEN new_signer_balance
                                  ELSE balance(writes, bd.proposer)
      BY <1>1, <1>6, ZenonT(60)
    <2> QED BY <1>7, <2>1, ZenonT(60) DEF new_proposer_balance
  <1>10. new_treasury_balance = Taxed[bd.treasury]
    <2>1. Tipped[bd.treasury] = IF bd.proposer = bd.treasury THEN new_proposer_balance
                                ELSE IF tx.signer = bd.treasury THEN new_signer_balance
                                ELSE balance(writes, bd.treasury)
      BY <1>1, <1>6, <1>7, <1>9
    <2> QED BY <1>8, <2>1, ZenonT(60) DEF new_treasury_balance
  <1> QED
    BY <1>6, <1>7, <1>8, <1>9, <1>10, ZenonT(60)

\* The world state that charge returns.
LEMMA ChargedWorld ==
    ASSUME TransactionInv, phase = "commands", Charge, ~ charge_panics
    PROVE  /\ world'.balance = Taxed /\ world'.deposit = Deposits(writes)
           /\ world'.nonce = [ws.nonce EXCEPT ![tx.signer] = saturating_add(@, 1)]
           /\ world'.epoch = ws.epoch /\ world'.version = ws.version
           /\ result'.receipt = into_receipt(receipts)
  <1> DEFINE purged  == [writes EXCEPT !.balance = [@ EXCEPT ![tx.signer] = None,
                                                             ![bd.proposer] = None,
                                                             ![bd.treasury] = None]]
             charged == [ws EXCEPT
                            !.balance = [@ EXCEPT ![tx.signer] = new_signer_balance,
                                                  ![bd.proposer] = new_proposer_balance,
                                                  ![bd.treasury] = new_treasury_balance],
                            !.nonce[tx.signer] = saturating_add(@, 1)]
             S == tx.signer
             P == bd.proposer
             T == bd.treasury
  <1>1. world' = commit_to_world_state(charged, purged) /\ result'.receipt = into_receipt(receipts)
    BY DEF Charge, Return
  <1>2. S \in Accounts /\ P \in Accounts /\ T \in Accounts /\ ws \in WorldState /\ writes \in Writes
    BY HeldType, ZenonT(60) DEF TransactionInv, TypeOK, Writes
  <1>3. /\ Refunded \in [Accounts -> U64] /\ Tipped \in [Accounts -> U64] /\ Taxed \in [Accounts -> U64]
        /\ new_signer_balance = Refunded[S]
        /\ new_proposer_balance = Tipped[P]
        /\ new_treasury_balance = Taxed[T]
    BY ChargedBalances, ZenonT(60)
  <1>4. /\ purged.deposit = writes.deposit
        /\ \A a \in Accounts : purged.balance[a] = IF a \in {S, P, T} THEN None ELSE writes.balance[a]
    BY <1>2, ZenonT(60) DEF Writes
  <1>5. /\ charged \in [balance : [Accounts -> U64], deposit : [Accounts -> U64], nonce : [Accounts -> U64],
                        epoch : Nat, version : {1, 2}]
        /\ charged.deposit = ws.deposit /\ charged.epoch = ws.epoch /\ charged.version = ws.version
        /\ charged.nonce = [ws.nonce EXCEPT ![S] = saturating_add(@, 1)]
        /\ \A a \in Accounts : charged.balance[a] = IF a = T THEN new_treasury_balance
                                                    ELSE IF a = P THEN new_proposer_balance
                                                    ELSE IF a = S THEN new_signer_balance
                                                    ELSE ws.balance[a]
    <2>1. new_signer_balance \in U64 /\ new_proposer_balance \in U64 /\ new_treasury_balance \in U64
      BY <1>2, <1>3, ZenonT(60)
    <2> DEFINE bal == [ws.balance EXCEPT ![S] = new_signer_balance, ![P] = new_proposer_balance,
                                         ![T] = new_treasury_balance]
               non == [ws.nonce EXCEPT ![S] = saturating_add(@, 1)]
    <2>2. ws.balance \in [Accounts -> U64] /\ ws.nonce \in [Accounts -> U64]
      BY <1>2, ZenonT(60) DEF WorldState
    <2>3. non \in [Accounts -> U64]
      BY <1>2, <2>2, Saturated, ZenonT(60)
    <2>4. /\ bal \in [Accounts -> U64]
          /\ \A a \in Accounts : bal[a] = IF a = T THEN new_treasury_balance
                                         ELSE IF a = P THEN new_proposer_balance
                                         ELSE IF a = S THEN new_signer_balance
                                         ELSE ws.balance[a]
      BY <1>2, <2>1, <2>2, ZenonT(60)
    <2>5. charged = [ws EXCEPT !.balance = bal, !.nonce = non]
      BY ZenonT(60)
    <2> HIDE DEF bal, non, charged
    <2>6. /\ charged \in WorldState /\ charged.balance = bal /\ charged.deposit = ws.deposit
          /\ charged.nonce = non /\ charged.epoch = ws.epoch /\ charged.version = ws.version
      BY <1>2, <2>3, <2>4, <2>5, ZenonT(60) DEF WorldState
    <2> QED BY <2>4, <2>6, ZenonT(60) DEF WorldState, non
  <1> HIDE DEF charged, purged
  <1>6. world' = [charged EXCEPT
                     !.balance = [a \in Accounts |-> IF purged.balance[a] # None THEN purged.balance[a]
                                                     ELSE charged.balance[a]],
                     !.deposit = [a \in Accounts |-> IF purged.deposit[a] # None THEN purged.deposit[a]
                                                     ELSE charged.deposit[a]]]
    BY <1>1, ZenonT(60) DEF commit_to_world_state
  <1>7. /\ world'.balance = [a \in Accounts |-> IF purged.balance[a] # None THEN purged.balance[a]
                                                ELSE charged.balance[a]]
        /\ world'.deposit = [a \in Accounts |-> IF purged.deposit[a] # None THEN purged.deposit[a]
                                                ELSE charged.deposit[a]]
        /\ world'.nonce = charged.nonce /\ world'.epoch = charged.epoch
        /\ world'.version = charged.version
    BY <1>5, <1>6, ZenonT(60)
  <1>8. world'.deposit = Deposits(writes)
    <2>1. \A a \in Accounts : (IF purged.deposit[a] # None THEN purged.deposit[a] ELSE charged.deposit[a])
                                = deposit(writes, a)
      BY <1>4, <1>5, ZenonT(60) DEF deposit
    <2> QED BY <1>7, <2>1, ZenonT(60) DEF Deposits
  <1>9. \A a \in Accounts : Balances(writes)[a] = balance(writes, a)
    BY <1>2, FundsType, ZenonT(60)
  <1>10. /\ \A a \in Accounts \ {S} : Refunded[a] = Balances(writes)[a]
         /\ \A a \in Accounts \ {P} : Tipped[a] = Refunded[a]
         /\ \A a \in Accounts \ {T} : Taxed[a] = Tipped[a]
    <2>1. Balances(writes) \in [Accounts -> U64]
      BY <1>2, FundsType, ZenonT(60)
    <2>2. \A a \in Accounts \ {S} : Refunded[a] = Balances(writes)[a]
      BY <1>2, <2>1, ZenonT(60) DEF Refunded
    <2>3. \A a \in Accounts \ {P} : Tipped[a] = Refunded[a]
      BY <1>2, <1>3, ZenonT(60) DEF Tipped
    <2>4. \A a \in Accounts \ {T} : Taxed[a] = Tipped[a]
      BY <1>2, <1>3, ZenonT(60) DEF Taxed
    <2> QED BY <2>2, <2>3, <2>4
  <1>11. ASSUME NEW a \in Accounts
         PROVE  world'.balance[a] = Taxed[a]
    <2>1. world'.balance[a] = IF purged.balance[a] # None THEN purged.balance[a] ELSE charged.balance[a]
      BY <1>7, ZenonT(60)
    <2>2. CASE a \in {S, P, T}
      <3>1. purged.balance[a] = None
        BY <1>4, <2>2, ZenonT(60)
      <3>2. world'.balance[a] = charged.balance[a]
        BY <2>1, <3>1, ZenonT(60)
      <3>3. charged.balance[a] = IF a = T THEN Taxed[T] ELSE IF a = P THEN Tipped[P] ELSE Refunded[S]
        BY <1>3, <1>5, <2>2, ZenonT(60)
      <3>4. Taxed[a] = IF a = T THEN Taxed[T] ELSE IF a = P THEN Tipped[P] ELSE Refunded[S]
        BY <1>10, <2>2
      <3> QED BY <3>2, <3>3, <3>4, ZenonT(60)
    <2>3. CASE a \notin {S, P, T}
      <3>1. Taxed[a] = balance(writes, a)
        BY <1>9, <1>10, <2>3, ZenonT(60)
      <3>2. purged.balance[a] = writes.balance[a] /\ charged.balance[a] = ws.balance[a]
        BY <1>4, <1>5, <2>3
      <3> QED BY <2>1, <3>1, <3>2, ZenonT(60) DEF balance
    <2> QED BY <2>2, <2>3, ZenonT(60)
  <1>12. world'.balance = Taxed
    <2>1. DOMAIN world'.balance = Accounts /\ DOMAIN Taxed = Accounts
      BY <1>3, <1>7, ZenonT(60)
    <2>2. world'.balance = [a \in Accounts |-> world'.balance[a]]
      BY <1>7, ZenonT(60)
    <2>3. Taxed = [a \in Accounts |-> Taxed[a]]
      BY <1>3, ZenonT(60)
    <2> QED BY <1>11, <2>2, <2>3, ZenonT(60)
  <1> QED
    BY <1>1, <1>5, <1>7, <1>8, <1>12, ZenonT(60)

\* The treasury's cut is a part of the base fee.
LEMMA CutOfBaseFee ==
    ASSUME NEW base \in Nat
    PROVE  /\ (base * TreasuryNum) \div TreasuryDenom \in Nat
           /\ (base * TreasuryNum) \div TreasuryDenom <= base
  <1> DEFINE d == TreasuryDenom
             x == base * TreasuryNum
  <1>1. d \in Nat /\ d > 0 /\ TreasuryNum \in Nat /\ TreasuryNum <= d
    BY LedgerAssumption
  <1> HIDE DEF d
  <1>2. x \in Nat /\ x < d * (base + 1)
    <2>1. x \in Nat /\ x <= base * d /\ base * d \in Nat
      BY <1>1
    <2>2. d * (base + 1) = base * d + d
      BY <1>1
    <2> HIDE DEF x
    <2> QED BY <1>1, <2>1, <2>2
  <1> HIDE DEF x
  <1>3. x \div d \in Nat /\ x \div d <= base
    BY <1>1, <1>2, Quotient, QuotientBound, ZenonT(60)
  <1> QED
    BY <1>3, ZenonT(60) DEF x, d

\* The entries for commands that were not executed add no gas.
LEMMA GasInTail ==
    ASSUME NEW rs \in Seq(CommandReceipt), NEW zs \in Seq(CommandReceipt),
           \A i \in 1 .. Len(zs) : zs[i].gas_used = 0
    PROVE  gas_in(rs \o zs) = gas_in(rs)
  <1> DEFINE n == Len(rs)
             all == rs \o zs
             S == 1 .. Len(all)
             T == 1 .. n
             f == GasUsed(all)
             g == GasUsed(rs)
  <1>1. /\ all \in Seq(CommandReceipt) /\ n \in Nat /\ Len(zs) \in Nat /\ Len(all) = n + Len(zs)
        /\ \A i \in 1 .. n : all[i] = rs[i]
        /\ \A i \in 1 .. Len(all) : i > n => all[i] = zs[i - n]
    OBVIOUS
  <1> HIDE DEF all
  <1>2. /\ gas_in(all) = SumFunctionOnSet(f, S) /\ IsFiniteSet(S)
        /\ \A i \in S : f[i] = all[i].gas_used /\ f[i] \in Int
    BY <1>1, GasInType, ZenonT(60)
  <1>3. /\ gas_in(rs) = SumFunctionOnSet(g, T) /\ IsFiniteSet(T)
        /\ \A i \in T : g[i] = rs[i].gas_used
    BY GasInType, ZenonT(60)
  <1>4. T \in SUBSET S
    BY <1>1
  <1>5. \A i \in T : f[i] = g[i]
    BY <1>1, <1>2, <1>3, <1>4, ZenonT(60)
  <1>6. \A i \in S \ T : f[i] = 0
    <2> TAKE i \in S \ T
    <2>1. i > n /\ i - n \in 1 .. Len(zs)
      BY <1>1
    <2> QED BY <1>1, <1>2, <2>1, ZenonT(60)
  <1> HIDE DEF S, T, f, g
  <1>7. SumFunctionOnSet(f, S) = SumFunctionOnSet(f, T)
    BY <1>2, <1>4, <1>6, SumSubset, ZenonT(60)
  <1>8. SumFunctionOnSet(f, T) = SumFunctionOnSet(g, T)
    BY <1>3, <1>5, SumSame, ZenonT(60)
  <1> QED
    BY <1>2, <1>3, <1>7, <1>8, ZenonT(60) DEF all

\* A receipt of either version tells the gas of the executed commands.
LEMMA GasInReceipt ==
    ASSUME TransactionInv, GasAccounted, phase = "commands"
    PROVE  gas_in(into_receipt(receipts).command_receipts) = gas.executed
  <1>1. /\ receipts \in Seq(CommandReceipt) /\ tx.commands \in Seq(Command) /\ tx.version \in {1, 2}
        /\ Len(receipts) <= Len(tx.commands)
    BY ZenonT(60) DEF TransactionInv, ReceiptsInv, TypeOK, Transaction
  <1>2. gas_in(receipts) = gas.executed
    BY ZenonT(60) DEF GasAccounted
  <1>3. CASE tx.version = 1
    BY <1>2, <1>3, ZenonT(60) DEF into_receipt
  <1>4. CASE tx.version = 2
    <2> DEFINE zs == not_executed(receipts)
               n == Len(receipts)
               m == Len(tx.commands) - n
    <2>1. m \in Nat /\ n \in Nat
      BY <1>1
    <2>2. zs = [i \in 1 .. m |-> [kind |-> tx.commands[n + i].kind, exit_code |-> "NotExecuted", gas_used |-> 0]]
      BY ZenonT(60) DEF not_executed
    <2>3. ASSUME NEW i \in 1 .. m
          PROVE  /\ [kind |-> tx.commands[n + i].kind, exit_code |-> "NotExecuted", gas_used |-> 0] \in CommandReceipt
                 /\ zs[i].gas_used = 0
      <3>1. n + i \in 1 .. Len(tx.commands)
        BY <1>1, <2>1
      <3> DEFINE cmd == tx.commands[n + i]
      <3>2. cmd \in Command
        BY <1>1, <3>1
      <3> HIDE DEF cmd
      <3>3. cmd.kind \in Kinds
        BY <3>2, ZenonT(60) DEF Command
      <3>4. 0 \in U64
        BY U64Assumption DEF U64
      <3> QED BY <2>2, <3>3, <3>4 DEF CommandReceipt, cmd
    <2>4. zs \in Seq(CommandReceipt) /\ Len(zs) = m
      <3> DEFINE e(i) == [kind |-> tx.commands[n + i].kind, exit_code |-> "NotExecuted", gas_used |-> 0]
      <3>1. zs = [i \in 1 .. m |-> e(i)] /\ \A i \in 1 .. m : e(i) \in CommandReceipt
        BY <2>2, <2>3, ZenonT(60)
      <3> HIDE DEF e, m, zs
      <3> QED BY <2>1, <3>1
    <2>5. into_receipt(receipts).command_receipts = receipts \o zs
      BY <1>4 DEF into_receipt
    <2> HIDE DEF zs, m
    <2> QED BY <1>1, <1>2, <2>3, <2>4, <2>5, GasInTail, ZenonT(60)
  <1> QED
    BY <1>1, <1>3, <1>4, ZenonT(60)

\* A credit that fits in a u64 with all other tokens adds to them exactly.
LEMMA CreditAdds ==
    ASSUME NEW f \in [Accounts -> U64], NEW g \in [Accounts -> U64], NEW a \in Accounts, NEW x \in Nat,
           SumFunction(f) + x <= MaxU64,
           g[a] = saturating_add(f[a], x),
           \A o \in Accounts \ {a} : g[o] = f[o]
    PROVE  SumFunction(g) = SumFunction(f) + x
  <1>1. SumFunction(f) \in Nat /\ f[a] \in Nat /\ f[a] <= SumFunction(f)
    BY AccountSum, ZenonT(60)
  <1>2. saturating_add(f[a], x) = f[a] + x
    BY <1>1, U64Assumption DEF saturating_add, saturate, U64
  <1>3. SumFunction(g) = SumFunction(f) + (g[a] - f[a])
    BY AccountSumChange, ZenonT(60)
  <1> QED BY <1>1, <1>2, <1>3

\* The tokens after the three steps of charge: none of its saturating additions cuts
\* anything off while all tokens together fit in a u64.
LEMMA FeesPaid ==
    ASSUME TransactionInv, FundsInv, phase = "commands", ~ charge_panics, Wealth(world) <= MaxU64
    PROVE  /\ SumFunction(Taxed) + SumFunction(Deposits(writes))
                  = Wealth(world) - (charged_gas * bd.base_fee - treasury_cut)
           /\ treasury_cut \in Nat
  <1> DEFINE W == Wealth(world)
             B == SumFunction(Balances(writes))
             D == SumFunction(Deposits(writes))
             refund == (tx.gas_limit - charged_gas) * fee_per_gas
             tip == charged_gas * tx.priority_fee
             base == charged_gas * bd.base_fee
             cut == treasury_cut
  <1>1. /\ tx.signer \in Accounts /\ bd.proposer \in Accounts /\ bd.treasury \in Accounts
        /\ ws \in WorldState /\ writes \in Writes /\ world \in WorldState
    BY HeldType, ZenonT(60) DEF TransactionInv, TypeOK, Writes
  <1>2. /\ Balances(writes) \in [Accounts -> U64] /\ B \in Nat /\ D \in Nat /\ W \in Nat
        /\ Funds(writes) = B + D
    <2>1. Balances(writes) \in [Accounts -> U64] /\ B \in Nat /\ D \in Nat
      BY <1>1, FundsType, ZenonT(60)
    <2>2. W \in Nat
      BY <1>1, WealthType, ZenonT(60)
    <2>3. Funds(writes) = B + D
      BY ZenonT(60) DEF Funds
    <2> QED BY <2>1, <2>2, <2>3, ZenonT(60)
  <1>3. refund \in Nat /\ tip \in Nat /\ base \in Nat /\ Held = refund + tip + base
    BY FeesHeld, ZenonT(60)
  <1>4. W = (B + D) + (refund + tip + base)
    <2>1. Funds(writes) + Held = W
      BY ZenonT(60) DEF FundsInv
    <2> QED BY <1>2, <1>3, <2>1, ZenonT(60)
  <1>5. cut \in Nat /\ cut <= base
    <2>1. cut = (base * TreasuryNum) \div TreasuryDenom
      BY ZenonT(60) DEF treasury_cut
    <2> HIDE DEF base, cut
    <2> QED BY <1>3, <2>1, CutOfBaseFee, ZenonT(60)
  <1>6. Refunded \in [Accounts -> U64] /\ Tipped \in [Accounts -> U64] /\ Taxed \in [Accounts -> U64]
    BY ChargedBalances, ZenonT(60)
  <1>7. SumFunction(Refunded) = B + refund
    <2>1. /\ Refunded[tx.signer] = Balances(writes)[tx.signer] + refund
          /\ \A a \in Accounts \ {tx.signer} : Refunded[a] = Balances(writes)[a]
      BY <1>1, <1>2, ZenonT(60) DEF Refunded
    <2>2. SumFunction(Refunded) = B + (Refunded[tx.signer] - Balances(writes)[tx.signer])
      BY <1>1, <1>2, <1>6, <2>1, AccountSumChange, ZenonT(60)
    <2>3. Balances(writes)[tx.signer] \in Nat
      BY <1>1, <1>2, AccountSum, ZenonT(60)
    <2> DEFINE v == Balances(writes)[tx.signer]
               u == Refunded[tx.signer]
    <2>4. u = v + refund /\ SumFunction(Refunded) = B + (u - v) /\ v \in Nat
      BY <2>1, <2>2, <2>3
    <2> HIDE DEF v, u, B, refund
    <2> QED BY <1>2, <1>3, <2>4
  <1>8. W <= MaxU64
    BY ZenonT(60)
  <1>9. SumFunction(Tipped) = (B + refund) + tip
    <2>1. SumFunction(Refunded) + tip <= MaxU64
      <3> HIDE DEF W, B, D, refund, tip, base
      <3> QED BY <1>2, <1>3, <1>4, <1>7, <1>8, U64Assumption
    <2>2. /\ Tipped[bd.proposer] = saturating_add(Refunded[bd.proposer], tip)
          /\ \A o \in Accounts \ {bd.proposer} : Tipped[o] = Refunded[o]
      BY <1>1, <1>6, ZenonT(60) DEF Tipped
    <2> HIDE DEF W, B, D, refund, tip, base
    <2>3. SumFunction(Tipped) = SumFunction(Refunded) + tip
      BY <1>1, <1>3, <1>6, <2>1, <2>2, CreditAdds
    <2> QED BY <1>7, <2>3, ZenonT(60)
  <1>10. SumFunction(Taxed) = ((B + refund) + tip) + cut
    <2>1. SumFunction(Tipped) + cut <= MaxU64
      <3> HIDE DEF W, B, D, refund, tip, base, cut
      <3> QED BY <1>2, <1>3, <1>4, <1>5, <1>8, <1>9, U64Assumption
    <2>2. /\ Taxed[bd.treasury] = saturating_add(Tipped[bd.treasury], cut)
          /\ \A o \in Accounts \ {bd.treasury} : Taxed[o] = Tipped[o]
      BY <1>1, <1>6, ZenonT(60) DEF Taxed
    <2> HIDE DEF W, B, D, refund, tip, base, cut
    <2>3. SumFunction(Taxed) = SumFunction(Tipped) + cut
      BY <1>1, <1>5, <1>6, <2>1, <2>2, CreditAdds
    <2> QED BY <1>9, <2>3
  <1> HIDE DEF W, B, D, refund, tip, base, cut
  <1>11. SumFunction(Taxed) + D = W - (base - cut)
    BY <1>2, <1>3, <1>4, <1>5, <1>10
  <1> QED
    BY <1>5, <1>11, ZenonT(60) DEF W, D, base, cut

\* Every answered transaction burns exactly what its receipts tell: the base fee of the
\* gas in them and of the inclusion, less the treasury's cut.
THEOREM FeesAreExact == Spec => FeesMatchReceipts
  <1> DEFINE used == gas.inclusion + gas_in(result'.receipt.command_receipts)
             base == used * bd.base_fee
             Match == Wealth(world) - Wealth(world') = base - (base * TreasuryNum) \div TreasuryDenom
  <1>1. ASSUME TransactionInv, GasAccounted, FundsInv, Next, phase = "commands", phase' = "idle",
               Wealth(world) <= MaxU64
        PROVE  Match
    <2>1. Charge /\ ~ charge_panics
      <3>1. Charge
        BY <1>1, ZenonT(60) DEF Next, Submit, PreCharge, ExecuteCommand, EpochTransaction, Upgrade
      <3> QED BY <1>1, <3>1, ZenonT(60) DEF Charge, Panic
    <2>2. /\ world'.balance = Taxed /\ world'.deposit = Deposits(writes)
          /\ result'.receipt = into_receipt(receipts)
      BY <1>1, <2>1, ChargedWorld, ZenonT(60)
    <2>3. used = charged_gas
      <3>1. gas_in(result'.receipt.command_receipts) = gas.executed
        BY <1>1, <2>2, GasInReceipt, ZenonT(60)
      <3> QED BY <1>1, <3>1, ChargedGas, ZenonT(60)
    <2>4. treasury_cut = (base * TreasuryNum) \div TreasuryDenom /\ charged_gas * bd.base_fee = base
      BY <2>3, ZenonT(60) DEF treasury_cut
    <2>5. Wealth(world') = SumFunction(Taxed) + SumFunction(Deposits(writes))
      BY <2>2, ZenonT(60) DEF Wealth
    <2>6. /\ SumFunction(Taxed) + SumFunction(Deposits(writes))
                 = Wealth(world) - (charged_gas * bd.base_fee - treasury_cut)
          /\ treasury_cut \in Nat
      BY <1>1, <2>1, FeesPaid, ZenonT(60)
    <2>7. Wealth(world) \in Nat /\ charged_gas * bd.base_fee \in Nat
      BY <1>1, WealthType, FeesHeld, ZenonT(60) DEF TransactionInv, TypeOK
    <2> DEFINE W == Wealth(world)
               V == Wealth(world')
               b == charged_gas * bd.base_fee
    <2>8. V = W - (b - treasury_cut) /\ W \in Nat /\ b \in Nat /\ treasury_cut \in Nat
      BY <2>5, <2>6, <2>7, ZenonT(60)
    <2> HIDE DEF W, V, b
    <2>9. W - V = b - treasury_cut
      BY <2>8
    <2> QED
      BY <2>4, <2>9, ZenonT(60) DEF W, V, b
  <1>2. TransactionInv /\ GasAccounted /\ FundsInv /\ [Next]_vars =>
            [phase = "commands" /\ phase' = "idle" /\ Wealth(world) <= MaxU64 => Match]_vars
    BY <1>1, ZenonT(60)
  <1> QED
    BY <1>2, Invariance, ReceiptsAccountForGas, FundsInvariance, PTL DEF Spec, FeesMatchReceipts

=============================================================================
