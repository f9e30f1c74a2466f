------------------------- MODULE CacheAndGasProofs -------------------------
(***************************************************************************)
(* The gas meter and the two caches between the commands and what is       *)
(* stored.  Gas is metered as GasMeter promises for all prices within a    *)
(* u64 of at least 1_000_000, all lengths of keys, values and code, and    *)
(* all gas limits.  The read and write sets of a transaction implement     *)
(* StorageTransaction, for any keys and values.  The cache of compiled     *)
(* contracts on disk agrees with what is deployed, for any codes and any   *)
(* number of transactions and commands.                                    *)
(***************************************************************************)
EXTENDS GasMeter, WorldStateCache, ContractCode, TLAPS

\* A leaf goes to the SMT solver, for a minute at most, unless it names Zenon.
USE SMTT(60)

-----------------------------------------------------------------------------
\* The gas meter.

\* Saturating arithmetic yields a u64, the exact result if that is one.
LEMMA Saturate ==
    /\ \A n : saturate(n) \in U64
    /\ \A n \in Nat : saturate(n) <= n /\ (n <= MaxU64 => saturate(n) = n)
    /\ \A n \in Nat : n > MaxU64 => saturate(n) = MaxU64
  BY U64Assumption DEF saturate, U64

\* What is paid for an operation is taken from the gas and from nothing else.
LEMMA Pay ==
    ASSUME NEW gas \in U64, NEW c, c.deduct \in Nat, c.reward \in Nat
    PROVE  pay(gas, c) \in U64 /\ pay(gas, c) <= gas
  BY U64Assumption DEF pay, net_cost, saturating_sub, U64

\* Reading or writing any number of bytes of the linear memory costs gas.
LEMMA PayBytes ==
    ASSUME NEW gas \in U64, NEW len \in Nat
    PROVE  /\ pay(gas, bytes(len)) \in U64
           /\ pay(gas, bytes(len)) < gas \/ pay(gas, bytes(len)) = 0
  <1>1. saturating_mul(ceil_div_8(len), 3) \in U64
    BY Saturate, ZenonT(60) DEF saturating_mul
  <1>2. wasm_memory_cost(len) \in Nat /\ wasm_memory_cost(len) >= 1
    BY <1>1, U64Assumption DEF wasm_memory_cost, max, U64
  <1> QED
    BY <1>2, U64Assumption DEF pay, bytes, deduct, net_cost, saturating_sub, U64

\* An item has a natural number for a key length.
LEMMA KeyLength ==
    ASSUME NEW ver, NEW item \in Items
    PROVE  traversed_key_len(ver, item) \in Nat
  <1>1. item[2] \in Nat
    BY LensAssumption DEF Items, Storage, Balance, CBI, Code, ACCOUNT_TRIE_KEY_LENGTH
  <1> QED
    BY <1>1 DEF traversed_key_len, storage_trie_traversed_key_len, ACCOUNT_TRIE_KEY_LENGTH

\* The cost of reading an item.
LEMMA GetCost ==
    ASSUME NEW ver, NEW item \in Items, NEW len \in Nat
    PROVE  ws_get(ver, item, len) \in CostChange /\ ws_get(ver, item, len).reward = 0
  <1> DEFINE cost == saturating_add(get_cost_traverse(traversed_key_len(ver, item)), get_cost_read(len))
  <1>1. cost \in U64
    BY Saturate, ZenonT(60) DEF saturating_add
  <1>2. discount_code_read(cost) \in U64
    <2>1. saturating_mul(cost, 50) \in U64
      BY Saturate, ZenonT(60) DEF saturating_mul
    <2> QED
      BY <2>1, U64Assumption DEF discount_code_read, U64
  <1> HIDE DEF cost
  <1>3. ws_get(ver, item, len) = deduct(IF item[1] = "code" THEN discount_code_read(cost) ELSE cost)
    BY ZenonT(60) DEF ws_get, cost
  <1>4. 0 \in U64
    BY U64Assumption DEF U64
  <1> QED
    BY <1>1, <1>2, <1>3, <1>4 DEF deduct, CostChange

\* The cost of a sum of cost changes is a cost change.
LEMMA AddType ==
    \A a, b : Add(a, b) \in CostChange
  BY Saturate, ZenonT(60) DEF Add, saturating_add, CostChange

\* The cost of setting an item.
LEMMA SetCost ==
    \A ver, item, old, new : ws_set(ver, item, old, new) \in CostChange
  BY AddType, ZenonT(60) DEF ws_set

\* The prices of the operations on a balance, which has eight bytes.
LEMMA BalancePrices ==
    /\ get_cost_traverse(33) = 660 /\ get_cost_read(8) = 400
    /\ set_cost_write_new_value(8) = 20000 /\ set_cost_rehash(33) = 4290
    /\ set_cost_delete_old_value(33, 8, 8) = 10000
  BY U64Assumption, WidthAssumption
     DEF U64, get_cost_traverse, get_cost_read, set_cost_write_new_value, set_cost_rehash,
         set_cost_delete_old_value, saturating_mul, saturate

\* Reading a balance costs gas; a transfer costs more than it is refunded, and the
\* refund is less than what the inclusion of a transaction has cost.
LEMMA BalanceCosts ==
    /\ \A ver : net_cost(ws_get(ver, Balance, 8)) \in Nat \ {0}
    /\ TransferCost \in CostChange
    /\ TransferCost.reward <= TransferCost.deduct
    /\ TransferCost.reward <= rw_key_cost
    /\ rw_key_cost \in U64
  <1>1. \A ver : traversed_key_len(ver, Balance) = 33
    BY ZenonT(60) DEF traversed_key_len, Balance, ACCOUNT_TRIE_KEY_LENGTH
  <1>2. Balance[1] # "code"
    BY ZenonT(60) DEF Balance
  <1>3. \A ver : ws_get(ver, Balance, 8) = [deduct |-> 1060, reward |-> 0]
    BY <1>1, <1>2, BalancePrices, U64Assumption, WidthAssumption
       DEF ws_get, deduct, saturating_add, saturate, U64
  <1>4. \A ver : ws_set(ver, Balance, 8, 8) = [deduct |-> 25350, reward |-> 10000]
    <2> TAKE ver
    <2> DEFINE read    == [deduct |-> 1060, reward |-> 0]
               refund  == [deduct |-> 0, reward |-> 10000]
               write   == [deduct |-> 20000, reward |-> 0]
               rehash  == [deduct |-> 4290, reward |-> 0]
    <2>1. ws_set(ver, Balance, 8, 8) = Add(Add(Add(read, refund), write), rehash)
      BY <1>1, <1>3, BalancePrices DEF ws_set, deduct, reward
    <2>2. Add(read, refund) = [deduct |-> 1060, reward |-> 10000]
      BY U64Assumption, WidthAssumption DEF Add, saturating_add, saturate, U64
    <2>3. Add([deduct |-> 1060, reward |-> 10000], write) = [deduct |-> 21060, reward |-> 10000]
      BY U64Assumption, WidthAssumption DEF Add, saturating_add, saturate, U64
    <2>4. Add([deduct |-> 21060, reward |-> 10000], rehash) = [deduct |-> 25350, reward |-> 10000]
      BY U64Assumption, WidthAssumption DEF Add, saturating_add, saturate, U64
    <2> HIDE DEF read, refund, write, rehash
    <2> QED
      BY <2>1, <2>2, <2>3, <2>4
  <1>5. TransferCost = [deduct |-> 52820, reward |-> 20000]
    BY <1>3, <1>4, U64Assumption, WidthAssumption DEF TransferCost, Add, saturating_add, saturate, U64
  <1>6. rw_key_cost = 126750
    BY BalancePrices, U64Assumption, WidthAssumption
       DEF U64, rw_key_cost, ACCOUNT_TRIE_KEY_LENGTH, saturating_add, saturating_mul, saturate
  <1> QED
    BY <1>3, <1>5, <1>6, U64Assumption, WidthAssumption DEF net_cost, saturating_sub, CostChange, U64

\* The inclusion of a transaction covers the accesses of its phases.
LEMMA InclusionCost ==
    \A ver, tx_size, kinds :
        /\ tx_inclusion_cost(ver, tx_size, kinds) \in U64
        /\ tx_inclusion_cost(ver, tx_size, kinds) >= rw_key_cost
  <1>1. \A x : blockchain_storage_cost(x) \in U64
    BY Saturate, ZenonT(60) DEF blockchain_storage_cost, saturating_mul
  <1>2. rw_key_cost \in U64
    BY BalanceCosts, ZenonT(60)
  <1>3. \A x \in U64 : saturating_add(x, rw_key_cost) \in U64 /\ saturating_add(x, rw_key_cost) >= rw_key_cost
    BY <1>2, U64Assumption DEF saturating_add, saturate, U64
  <1> QED
    BY <1>1, <1>3, ZenonT(60) DEF tx_inclusion_cost

-----------------------------------------------------------------------------

\* Of a running contract: its limit is exactly what the setup of the call has left, and
\* the rewards of the setup are covered by its charges and by the cost of inclusion.
ContractBounds ==
    stage = "contract" =>
        /\ contract.gas <= contract.limit
        /\ current.reward <= current.deduct
        /\ current.reward <= inclusion
        /\ total_gas_used(current) + contract.limit = tx.limit

\* The inductive invariant.
GasInv ==
    /\ MeterTypeOK
    /\ stage \in {"new", "command", "contract", "done", "end"}
    /\ inclusion + executed <= tx.limit
    /\ stage = "new" => inclusion = 0 /\ executed = 0 /\ current = Zero
    /\ stage \in {"command", "contract", "done"} => inclusion >= rw_key_cost
    /\ stage = "command" /\ kind = "Call" => current = Zero
    /\ stage # "done" => outcome = NoOutcome
    /\ ContractBounds
    /\ SuccessIsPaidInFull

\* Net costs and totals are u64s, and the commands so far have not saturated.
LEMMA Totals ==
    ASSUME inclusion \in U64, executed \in U64, tx.limit \in U64, inclusion + executed <= tx.limit
    PROVE  /\ used_before = inclusion + executed /\ used_before \in U64
           /\ \A c \in CostChange : net_cost(c) \in U64 /\ total_gas_used(c) \in U64
  <1>1. used_before = inclusion + executed /\ used_before \in U64
    BY U64Assumption DEF used_before, saturating_add, saturate, U64
  <1>2. \A c \in CostChange : net_cost(c) \in U64
    BY U64Assumption DEF net_cost, saturating_sub, CostChange, U64
  <1>3. \A c : total_gas_used(c) \in U64
    BY Saturate, ZenonT(60) DEF total_gas_used, saturating_add
  <1> QED
    BY <1>1, <1>2, <1>3, ZenonT(60)

\* A command that ends keeps the invariant if it succeeds only within the limit.
LEMMA CommandEnds ==
    ASSUME GasInv, stage \in {"command", "contract"}, UNCHANGED <<tx, inclusion, executed>>,
           NEW cost \in CostChange, current' = cost,
           stage' = "done", outcome'.ok => not_exhausted(cost),
           contract' \in {contract, NoContract}, stored' \in [Items -> Nat]
    PROVE  GasInv'
  <1>1. MeterTypeOK'
    <2>1. NoContract \in [limit : U64, gas : U64, trapped : BOOLEAN]
      BY U64Assumption DEF NoContract, U64
    <2> QED
      BY <2>1, ZenonT(60) DEF GasInv, MeterTypeOK
  <1>2. SuccessIsPaidInFull'
    BY ZenonT(60) DEF SuccessIsPaidInFull, not_exhausted, total_gas_used, used_before
  <1>3. stage' = "done" /\ inclusion >= rw_key_cost /\ inclusion + executed <= tx.limit
    BY ZenonT(60) DEF GasInv
  <1> QED
    BY <1>1, <1>2, <1>3, ZenonT(60) DEF GasInv, ContractBounds

\* A step of a contract that gives it no gas keeps the invariant.
LEMMA ContractGoesOn ==
    ASSUME GasInv, stage = "contract", UNCHANGED ContractVars, NEW gas \in U64, gas <= contract.gas,
           NEW trapped \in BOOLEAN, contract' = [contract EXCEPT !.gas = gas, !.trapped = trapped],
           stored' \in [Items -> Nat]
    PROVE  GasInv'
  <1>1. MeterTypeOK'
    BY ZenonT(60) DEF GasInv, MeterTypeOK, ContractVars
  <1>2. ContractBounds'
    <2>1. contract'.limit = contract.limit /\ contract'.gas = gas
      BY ZenonT(60) DEF GasInv, MeterTypeOK
    <2>2. UNCHANGED <<tx, inclusion, executed, current>> /\ stage' = "contract"
      BY ZenonT(60) DEF ContractVars
    <2>3. gas <= contract.limit
      BY U64Assumption DEF GasInv, MeterTypeOK, ContractBounds, U64
    <2> QED
      BY <2>1, <2>2, <2>3, ZenonT(60) DEF GasInv, ContractBounds, total_gas_used, used_before
  <1>3. /\ stage' = "contract" /\ outcome' = NoOutcome
        /\ inclusion' + executed' <= tx'.limit /\ inclusion' >= rw_key_cost
    BY ZenonT(60) DEF GasInv, ContractVars
  <1> QED
    BY <1>1, <1>2, <1>3, ZenonT(60) DEF GasInv, SuccessIsPaidInFull

\* The setup of a call hands the contract exactly the gas that is left.
LEMMA CallStarts ==
    ASSUME GasInv, NEW with_amount \in BOOLEAN, Call(with_amount), stage' = "contract"
    PROVE  GasInv'
  <1> DEFINE paid    == IF with_amount THEN charge(TransferCost) ELSE current
             checked == Add(paid, ws_get(tx.version, CBI, stored[CBI]))
             fetched  == Add(checked, ws_get(tx.version, Code, stored[Code]))
  <1>1. /\ not_exhausted(fetched) /\ current' = fetched
        /\ contract' = [limit |-> execution_limit(fetched), gas |-> execution_limit(fetched), trapped |-> FALSE]
        /\ UNCHANGED <<tx, inclusion, executed, stored, outcome>>
        /\ stage = "command" /\ kind = "Call"
    BY ZenonT(60) DEF Call, Finish
  <1>2. current = Zero /\ inclusion >= rw_key_cost /\ inclusion \in U64 /\ executed \in U64
        /\ tx.limit \in U64 /\ inclusion + executed <= tx.limit /\ outcome = NoOutcome
    BY <1>1, ZenonT(60) DEF GasInv, MeterTypeOK
  <1>3. paid \in CostChange /\ paid.reward <= paid.deduct /\ paid.reward <= rw_key_cost
    <2>1. Zero \in CostChange /\ Zero.reward = 0 /\ Zero.deduct = 0
      BY U64Assumption DEF Zero, CostChange, U64
    <2>2. \A c \in CostChange : Add(Zero, c) = c
      BY <2>1, U64Assumption DEF Add, CostChange, saturating_add, saturate, U64
    <2>3. charge(TransferCost) = TransferCost
      BY <1>2, <2>2, BalanceCosts, ZenonT(60) DEF charge
    <2>4. 0 <= rw_key_cost
      BY BalanceCosts, U64Assumption DEF U64
    <2> QED
      BY <1>2, <2>1, <2>3, <2>4, BalanceCosts
  <1>4. \A c \in CostChange, g \in CostChange :
            c.reward <= c.deduct /\ g.reward = 0 =>
                Add(c, g) \in CostChange /\ Add(c, g).reward = c.reward /\ c.reward <= Add(c, g).deduct
    BY U64Assumption DEF Add, CostChange, saturating_add, saturate, U64
  <1>5. \A item \in {CBI, Code} : ws_get(tx.version, item, stored[item]) \in CostChange
                               /\ ws_get(tx.version, item, stored[item]).reward = 0
    <2>1. \A item \in {CBI, Code} : item \in Items /\ stored[item] \in Nat
      BY ZenonT(60) DEF GasInv, MeterTypeOK, Items
    <2> QED
      BY <2>1, GetCost, ZenonT(60)
  <1> HIDE DEF paid
  <1>6. checked \in CostChange /\ checked.reward = paid.reward /\ checked.reward <= checked.deduct
    BY <1>3, <1>4, <1>5, ZenonT(60)
  <1> HIDE DEF checked
  <1>7. fetched \in CostChange /\ fetched.reward = paid.reward /\ fetched.reward <= fetched.deduct
    BY <1>4, <1>5, <1>6, ZenonT(60)
  <1> HIDE DEF fetched
  <1>8. total_gas_used(fetched) \in U64 /\ total_gas_used(fetched) <= tx.limit
    BY <1>1, <1>2, <1>7, Totals, ZenonT(60) DEF not_exhausted
  <1>9. execution_limit(fetched) \in U64 /\ total_gas_used(fetched) + execution_limit(fetched) = tx.limit
    BY <1>2, <1>8, U64Assumption DEF execution_limit, U64
  <1>10. MeterTypeOK'
    BY <1>1, <1>7, <1>9, ZenonT(60) DEF GasInv, MeterTypeOK
  <1>11. ContractBounds'
    <2>1. contract'.gas <= contract'.limit /\ contract'.limit = execution_limit(fetched)
      BY <1>1, <1>9, U64Assumption DEF U64
    <2>2. fetched.reward <= inclusion
      BY <1>2, <1>3, <1>7, BalanceCosts, U64Assumption DEF CostChange, U64
    <2>3. total_gas_used(current)' = total_gas_used(fetched)
      BY <1>1, ZenonT(60) DEF total_gas_used, used_before
    <2> QED
      BY <1>1, <1>7, <1>9, <2>1, <2>2, <2>3, ZenonT(60) DEF ContractBounds
  <1> QED
    BY <1>1, <1>2, <1>10, <1>11, ZenonT(60) DEF GasInv, SuccessIsPaidInFull

\* Charging an operation yields a cost change, and so do the costs charged at once.
LEMMA ChargeType ==
    /\ \A c : charge(c) \in CostChange
    /\ \A a, b : Add(a, b) \in CostChange
  BY AddType, ZenonT(60) DEF charge

\* The steps of a command that runs no contract keep the invariant.
LEMMA CommandSteps ==
    ASSUME GasInv, CommandStep
    PROVE  GasInv'
  <1>1. current \in CostChange /\ stored \in [Items -> Nat]
    BY ZenonT(60) DEF GasInv, MeterTypeOK
  <1>2. CASE StorageStep
    <2>1. /\ InCommand(StakingKinds) /\ current' \in CostChange
          /\ UNCHANGED <<tx, inclusion, executed, contract, stage, command, outcome>>
      BY <1>2, ChargeType, ZenonT(60) DEF StorageStep, WsRead, WsSet, Charge
    <2>2. stored' \in [Items -> Nat]
      BY <1>1, <1>2, LensAssumption DEF StorageStep, WsRead, WsSet, Items
    <2>3. MeterTypeOK'
      BY <2>1, <2>2, ZenonT(60) DEF GasInv, MeterTypeOK
    <2>4. stage = "command" /\ kind # "Call" /\ kind' = kind
      BY <2>1, ZenonT(60) DEF InCommand, StakingKinds, kind
    <2> QED
      BY <2>1, <2>3, <2>4, ZenonT(60) DEF GasInv, ContractBounds, SuccessIsPaidInFull
  <1>3. CASE EndCommand
    <2>1. stage' = "done" /\ (outcome'.ok => not_exhausted(current))
      BY <1>3 DEF EndCommand, Finish
    <2> QED
      BY <1>1, <1>3, <2>1, CommandEnds, ZenonT(60) DEF EndCommand
  <1>4. CASE SetOutput
    <2>1. PICK cost \in CostChange : current' = cost /\ stage' = "done" /\ (outcome'.ok => not_exhausted(cost))
      BY <1>4, ChargeType DEF SetOutput, withheld_cost, Finish
    <2> QED
      BY <1>1, <1>4, <2>1, CommandEnds, ZenonT(60) DEF SetOutput
  <1>5. CASE Transfer
    <2>1. PICK cost \in CostChange : current' = cost /\ stage' = "done" /\ (outcome'.ok => not_exhausted(cost))
      BY <1>5, ChargeType DEF Transfer, Finish
    <2> QED
      BY <1>1, <1>5, <2>1, CommandEnds, ZenonT(60) DEF Transfer
  <1>6. CASE Deploy
    <2>1. PICK cost \in CostChange : current' = cost /\ stage' = "done" /\ (outcome'.ok => not_exhausted(cost))
      BY <1>1, <1>6, ChargeType DEF Deploy, Finish
    <2>2. stored' = stored \/ stored' = [stored EXCEPT ![Code] = CodeLen, ![CBI] = 4]
      BY <1>6, ZenonT(60) DEF Deploy
    <2>3. stored' \in [Items -> Nat]
      BY <1>1, <2>2, LensAssumption
    <2> QED
      BY <1>6, <2>1, <2>3, CommandEnds, ZenonT(60) DEF Deploy
  <1>7. ASSUME NEW with_amount \in BOOLEAN, Call(with_amount)
        PROVE  GasInv'
    <2>1. CASE stage' = "contract"
      BY <1>7, <2>1, CallStarts, ZenonT(60)
    <2>2. CASE stage' # "contract"
      <3>1. PICK cost \in CostChange :
                current' = cost /\ stage' = "done" /\ ~ outcome'.ok /\ contract' = contract
        BY <1>7, <2>2, ChargeType DEF Call, Finish
      <3> QED
        BY <1>1, <1>7, <3>1, CommandEnds, ZenonT(60) DEF Call
    <2> QED
      BY <2>1, <2>2, ZenonT(60)
  <1> QED
    BY <1>2, <1>3, <1>4, <1>5, <1>6, <1>7, ZenonT(60) DEF CommandStep

\* A contract that pays something and then any costs has less gas than before, or none.
GasFalls(gas) == gas \in U64 /\ gas <= contract.gas /\ (gas < contract.gas \/ gas = 0)

\* Paying for one more operation leaves no more gas.
LEMMA PayMore ==
    ASSUME contract.gas \in U64, NEW gas, GasFalls(gas), NEW c, c.deduct \in Nat, c.reward \in Nat
    PROVE  GasFalls(pay(gas, c))
  <1>1. gas \in U64 /\ pay(gas, c) \in U64 /\ pay(gas, c) <= gas
    BY Pay, ZenonT(60) DEF GasFalls
  <1> QED
    BY <1>1, U64Assumption DEF GasFalls, U64

\* Every host function begins with an operation that costs something.
LEMMA PayFirst ==
    ASSUME contract.gas \in U64
    PROVE  /\ \A len \in Nat : GasFalls(pay(contract.gas, bytes(len)))
           /\ GasFalls(pay(contract.gas, ws_get(tx.version, Balance, 8)))
  <1>1. ASSUME NEW len \in Nat
        PROVE  GasFalls(pay(contract.gas, bytes(len)))
    <2> DEFINE left == pay(contract.gas, bytes(len))
    <2>1. left \in U64 /\ (left < contract.gas \/ left = 0)
      BY PayBytes, ZenonT(60)
    <2> HIDE DEF left
    <2>2. left <= contract.gas
      BY <2>1, U64Assumption DEF U64
    <2> QED
      BY <2>1, <2>2, ZenonT(60) DEF GasFalls, left
  <1>2. GasFalls(pay(contract.gas, ws_get(tx.version, Balance, 8)))
    <2>1. net_cost(ws_get(tx.version, Balance, 8)) \in Nat \ {0}
      BY BalanceCosts, ZenonT(60)
    <2> QED
      BY <2>1, U64Assumption DEF GasFalls, pay, saturating_sub, U64
  <1> QED
    BY <1>1, <1>2, ZenonT(60)

\* A cost change has natural numbers, and so have the costs of memory and hashes.
LEMMA Costs ==
    /\ \A c \in CostChange : c.deduct \in Nat /\ c.reward \in Nat
    /\ \A len \in Nat : bytes(len).deduct \in Nat /\ bytes(len).reward \in Nat
    /\ \A n \in Nat : deduct(n).deduct \in Nat /\ deduct(n).reward \in Nat
    /\ \A len \in Nat : hash_cost(len) \in Nat /\ verify_ed25519_cost(len) \in Nat
    /\ \A len : blockchain_storage_cost(len) \in Nat
    /\ \A topic, value : blockchain_log_cost(topic, value) \in Nat
  <1>1. \A c \in CostChange : c.deduct \in Nat /\ c.reward \in Nat
    BY U64Assumption DEF CostChange, U64
  <1>2. \A n \in Nat : deduct(n).deduct \in Nat /\ deduct(n).reward \in Nat
    BY ZenonT(60) DEF deduct
  <1>3. \A n : saturate(n) \in Nat
    BY Saturate, U64Assumption DEF U64
  <1>4. \A len \in Nat : bytes(len).deduct \in Nat /\ bytes(len).reward \in Nat
    BY <1>2, <1>3, ZenonT(60) DEF bytes, wasm_memory_cost, max, saturating_mul
  <1>5. \A len \in Nat : hash_cost(len) \in Nat
    BY DEF hash_cost
  <1>6. \A len : verify_ed25519_cost(len) \in Nat
    BY <1>3 DEF verify_ed25519_cost, saturating_add
  <1>7. \A len : blockchain_storage_cost(len) \in Nat
    BY <1>3, ZenonT(60) DEF blockchain_storage_cost, saturating_mul
  <1>8. \A topic, value : blockchain_log_cost(topic, value) \in Nat
    BY <1>3, ZenonT(60) DEF blockchain_log_cost, saturating_add
  <1> QED
    BY <1>1, <1>2, <1>4, <1>5, <1>6, <1>7, <1>8, ZenonT(60)

\* A transfer pays four times.
LEMMA PayTransfer ==
    ASSUME contract.gas \in U64, NEW gas, GasFalls(gas)
    PROVE  GasFalls(pay_transfer(gas))
  <1>1. Balance \in Items
    BY ZenonT(60) DEF Items
  <1>2. ws_get(tx.version, Balance, 8) \in CostChange /\ ws_set(tx.version, Balance, 8, 8) \in CostChange
    BY <1>1, GetCost, SetCost, ZenonT(60)
  <1> DEFINE reading == ws_get(tx.version, Balance, 8)
             writing == ws_set(tx.version, Balance, 8, 8)
  <1>3. \A c \in {reading, writing} : c.deduct \in Nat /\ c.reward \in Nat
    BY <1>2, Costs, ZenonT(60)
  <1> HIDE DEF reading, writing
  <1>4. GasFalls(pay(gas, reading))
    BY <1>3, PayMore, ZenonT(60)
  <1>5. GasFalls(pay(pay(gas, reading), writing))
    BY <1>3, <1>4, PayMore, ZenonT(60)
  <1>6. GasFalls(pay(pay(pay(gas, reading), writing), reading))
    BY <1>3, <1>5, PayMore, ZenonT(60)
  <1>7. GasFalls(pay(pay(pay(pay(gas, reading), writing), reading), writing))
    BY <1>3, <1>6, PayMore, ZenonT(60)
  <1> QED
    BY <1>7, ZenonT(60) DEF pay_transfer, reading, writing

\* A step of a contract that costs it gas.
PaysGas ==
    /\ stage = "contract" /\ UNCHANGED ContractVars /\ stored' \in [Items -> Nat]
    /\ \E gas \in U64, trapped \in BOOLEAN :
           GasFalls(gas) /\ contract' = [contract EXCEPT !.gas = gas, !.trapped = trapped]

\* A host function that costs gas is such a step.
LEMMA HostFunctionPays ==
    ASSUME GasInv, NEW gas, GasFalls(gas), HostFunction(gas), stored' \in [Items -> Nat]
    PROVE  PaysGas
  <1>1. contract \in [limit : U64, gas : U64, trapped : BOOLEAN]
    BY ZenonT(60) DEF GasInv, MeterTypeOK
  <1>2. stage = "contract" /\ UNCHANGED ContractVars /\ contract' = [contract EXCEPT !.gas = gas]
    BY ZenonT(60) DEF HostFunction, InContract
  <1>3. [contract EXCEPT !.gas = gas] = [contract EXCEPT !.gas = gas, !.trapped = contract.trapped]
    BY <1>1, ZenonT(60)
  <1>4. contract.trapped \in BOOLEAN
    BY <1>1, ZenonT(60)
  <1> QED
    BY <1>2, <1>3, <1>4, ZenonT(60) DEF PaysGas, GasFalls

\* Wasm blocks and host functions all cost gas.
LEMMA ContractSteps ==
    ASSUME GasInv, HostStep \/ \E cost \in BlockCosts : WasmBlock(cost)
    PROVE  PaysGas
  <1>1. contract \in [limit : U64, gas : U64, trapped : BOOLEAN] /\ contract.gas \in U64
        /\ stored \in [Items -> Nat]
    BY ZenonT(60) DEF GasInv, MeterTypeOK
  <1>2. ASSUME NEW cost \in BlockCosts, WasmBlock(cost)
        PROVE  PaysGas
    <2>1. GasFalls(saturating_sub(contract.gas, cost))
      BY <1>1, LensAssumption, U64Assumption DEF GasFalls, saturating_sub, U64
    <2>2. (contract.gas < cost) \in BOOLEAN
      OBVIOUS
    <2> QED
      BY <1>1, <1>2, <2>1, <2>2, ZenonT(60) DEF WasmBlock, InContract, PaysGas, GasFalls
  <1>3. ASSUME NEW item \in Storage
        PROVE  item[2] \in Nat /\ item \in Items /\ stored[item] \in Nat
    BY <1>1, LensAssumption DEF Storage, Items
  <1>4. ASSUME NEW item \in Storage, HostGet(item)
        PROVE  PaysGas
    <2> DEFINE first == pay(contract.gas, bytes(item[2]))
               gas   == pay(first, ws_get(tx.version, item, stored[item]))
               last  == pay(gas, bytes(stored[item]))
    <2>1. item[2] \in Nat /\ item \in Items /\ stored[item] \in Nat
      BY <1>3, ZenonT(60)
    <2>2. GasFalls(first)
      BY <1>1, <2>1, PayFirst, ZenonT(60)
    <2>3. ws_get(tx.version, item, stored[item]) \in CostChange
      BY <2>1, GetCost, ZenonT(60)
    <2> HIDE DEF first
    <2>4. GasFalls(gas)
      BY <1>1, <2>2, <2>3, Costs, PayMore, ZenonT(60)
    <2> HIDE DEF gas
    <2>5. GasFalls(last)
      BY <1>1, <2>1, <2>4, Costs, PayMore, ZenonT(60)
    <2>6. HostFunction(IF stored[item] > 0 THEN last ELSE gas) /\ stored' = stored
      BY <1>4, ZenonT(60) DEF HostGet, first, gas
    <2> HIDE DEF last
    <2> QED
      BY <1>1, <2>4, <2>5, <2>6, HostFunctionPays, ZenonT(60)
  <1>5. ASSUME NEW item \in Storage, NEW new \in ValueLens, HostSet(item, new)
        PROVE  PaysGas
    <2> DEFINE first  == pay(contract.gas, bytes(item[2]))
               second == pay(first, bytes(new))
               third  == pay(second, ws_set(tx.version, item, stored[item], new))
    <2>1. item[2] \in Nat /\ item \in Items /\ new \in Nat
      BY <1>3, LensAssumption, ZenonT(60)
    <2>2. GasFalls(first)
      BY <1>1, <2>1, PayFirst, ZenonT(60)
    <2> HIDE DEF first
    <2>3. GasFalls(second)
      BY <1>1, <2>1, <2>2, Costs, PayMore, ZenonT(60)
    <2> HIDE DEF second
    <2>4. ws_set(tx.version, item, stored[item], new) \in CostChange
      BY SetCost, ZenonT(60)
    <2>5. GasFalls(third)
      BY <1>1, <2>3, <2>4, Costs, PayMore, ZenonT(60)
    <2>6. HostFunction(third) /\ stored' = [stored EXCEPT ![item] = new]
      BY <1>5, ZenonT(60) DEF HostSet, first, second
    <2>7. stored' \in [Items -> Nat]
      BY <1>1, <2>1, <2>6, ZenonT(60)
    <2> HIDE DEF third
    <2> QED
      BY <2>5, <2>6, <2>7, HostFunctionPays, ZenonT(60)
  <1>6. CASE HostBalance
    <2>1. GasFalls(pay(contract.gas, ws_get(tx.version, Balance, 8)))
      BY <1>1, PayFirst, ZenonT(60)
    <2> QED
      BY <1>1, <1>6, <2>1, HostFunctionPays, ZenonT(60) DEF HostBalance
  <1>7. CASE HostTransfer
    <2>1. GasFalls(pay(contract.gas, bytes(40)))
      BY <1>1, PayFirst, ZenonT(60)
    <2>2. GasFalls(pay_transfer(pay(contract.gas, bytes(40))))
      BY <1>1, <2>1, PayTransfer, ZenonT(60)
    <2> QED
      BY <1>1, <1>7, <2>2, HostFunctionPays, ZenonT(60) DEF HostTransfer
  <1>8. ASSUME NEW len \in ValueLens, NEW with_amount \in BOOLEAN, HostCall(len, with_amount)
        PROVE  PaysGas
    <2> DEFINE read == pay(contract.gas, bytes(len))
               paid == IF with_amount THEN pay_transfer(read) ELSE read
    <2>1. GasFalls(read)
      BY <1>1, PayFirst, LensAssumption, ZenonT(60)
    <2> HIDE DEF read
    <2>2. GasFalls(paid)
      BY <1>1, <2>1, PayTransfer, ZenonT(60)
    <2> HIDE DEF paid
    <2>3. Code \in Items /\ stored[Code] \in Nat
      BY <1>1, ZenonT(60) DEF Items
    <2>4. ws_get(tx.version, Code, stored[Code]) \in CostChange
      BY <2>3, GetCost, ZenonT(60)
    <2>5. GasFalls(pay(paid, ws_get(tx.version, Code, stored[Code])))
      BY <1>1, <2>2, <2>4, Costs, PayMore, ZenonT(60)
    <2> QED
      BY <1>1, <1>8, <2>5, HostFunctionPays, ZenonT(60) DEF HostCall, paid, read
  <1>9. ASSUME NEW len \in ValueLens, HostBytes(len)
        PROVE  PaysGas
    <2>1. GasFalls(pay(contract.gas, bytes(len)))
      BY <1>1, PayFirst, LensAssumption, ZenonT(60)
    <2> QED
      BY <1>1, <1>9, <2>1, HostFunctionPays, ZenonT(60) DEF HostBytes
  <1>10. ASSUME NEW len \in ValueLens, HostCrypto(len)
         PROVE  PaysGas
    <2> DEFINE read == pay(contract.gas, bytes(len))
    <2>1. GasFalls(read) /\ len \in Nat
      BY <1>1, PayFirst, LensAssumption, ZenonT(60)
    <2> HIDE DEF read
    <2>2. GasFalls(pay(read, deduct(hash_cost(len))))
      BY <1>1, <2>1, Costs, PayMore, ZenonT(60)
    <2>3. \A digest \in {20, 32} : GasFalls(pay(pay(read, deduct(hash_cost(len))), bytes(digest)))
      BY <1>1, <2>2, Costs, PayMore, ZenonT(60)
    <2>4. GasFalls(pay(read, bytes(64)))
      BY <1>1, <2>1, Costs, PayMore, ZenonT(60)
    <2>5. GasFalls(pay(pay(read, bytes(64)), bytes(32)))
      BY <1>1, <2>4, Costs, PayMore, ZenonT(60)
    <2>6. GasFalls(pay(pay(pay(read, bytes(64)), bytes(32)), deduct(verify_ed25519_cost(len))))
      BY <1>1, <2>1, <2>5, Costs, PayMore, ZenonT(60)
    <2>7. PICK gas : GasFalls(gas) /\ HostFunction(gas)
      BY <1>10, <2>3, <2>6, ZenonT(60) DEF HostCrypto, read
    <2>8. stored' = stored
      BY <1>10, ZenonT(60) DEF HostCrypto
    <2> QED
      BY <1>1, <2>7, <2>8, HostFunctionPays, ZenonT(60)
  <1>11. ASSUME NEW len \in Nat, NEW cost \in Nat, HostOutput(len, cost)
         PROVE  PaysGas
    <2> DEFINE read == pay(contract.gas, bytes(len))
    <2>1. GasFalls(read)
      BY <1>1, PayFirst, ZenonT(60)
    <2> HIDE DEF read
    <2>2. GasFalls(pay(read, deduct(cost)))
      BY <1>1, <2>1, Costs, PayMore, ZenonT(60)
    <2>3. (cost > read) \in BOOLEAN
      OBVIOUS
    <2> QED
      BY <1>1, <1>11, <2>2, <2>3, ZenonT(60) DEF HostOutput, InContract, PaysGas, GasFalls, read
  <1> QED
    <2>1. \A len \in ValueLens : len \in Nat /\ \A topic \in ValueLens : topic + len + 8 \in Nat
      BY LensAssumption
    <2> QED
      BY <1>2, <1>4, <1>5, <1>6, <1>7, <1>8, <1>9, <1>10, <1>11, <2>1, Costs, ZenonT(60) DEF HostStep

\* The end of a contract adds what it consumed in full.
LEMMA ContractEnds ==
    ASSUME GasInv, EndContract
    PROVE  /\ GasInv'
           /\ net_cost(current') = net_cost(current) + (contract.limit - contract.gas)
  <1> DEFINE consumed == saturating_sub(contract.limit, contract.gas)
             cost     == charge(deduct(consumed))
  <1>1. /\ stage = "contract" /\ current' = cost /\ contract' = NoContract
        /\ UNCHANGED <<tx, inclusion, executed, stored>>
        /\ stage' = "done" /\ (outcome'.ok => not_exhausted(cost))
    <2>1. PICK ok \in BOOLEAN : Finish(ok /\ not_exhausted(cost), "none")
      BY ZenonT(60) DEF EndContract
    <2>2. stage' = "done" /\ (outcome'.ok => not_exhausted(cost))
      BY <2>1, ZenonT(60) DEF Finish
    <2> QED
      BY <2>2, ZenonT(60) DEF EndContract
  <1>2. cost \in CostChange
    BY ChargeType, ZenonT(60)
  <1>3. GasInv'
    <2>1. stored' \in [Items -> Nat]
      BY <1>1, ZenonT(60) DEF GasInv, MeterTypeOK
    <2> HIDE DEF cost
    <2> QED
      BY <1>1, <1>2, <2>1, CommandEnds, ZenonT(60)
  <1>4. /\ contract.limit \in U64 /\ contract.gas \in U64 /\ contract.gas <= contract.limit
        /\ current \in CostChange /\ current.reward <= current.deduct /\ current.reward <= inclusion
        /\ total_gas_used(current) + contract.limit = tx.limit
        /\ inclusion \in U64 /\ executed \in U64 /\ tx.limit \in U64 /\ inclusion + executed <= tx.limit
    BY <1>1, ZenonT(60) DEF GasInv, MeterTypeOK, ContractBounds
  <1>5. current.deduct + contract.limit <= MaxU64
    <2>1. used_before = inclusion + executed /\ used_before \in U64
      BY <1>4, Totals, ZenonT(60)
    <2>2. net_cost(current) = current.deduct - current.reward
      BY <1>4, U64Assumption, ZenonT(60) DEF net_cost, saturating_sub, CostChange, U64
    <2>3. total_gas_used(current) = saturate(inclusion + executed + (current.deduct - current.reward))
      BY <2>1, <2>2, ZenonT(60) DEF total_gas_used, saturating_add
    <2> QED
      BY <1>4, <2>3, U64Assumption DEF saturate, CostChange, U64
  <1>6. consumed = contract.limit - contract.gas
    BY <1>4, U64Assumption, ZenonT(60) DEF saturating_sub, U64
  <1>7. cost.deduct = current.deduct + consumed /\ cost.reward = current.reward
    <2>1. consumed \in U64 /\ current.deduct + consumed \in U64
      BY <1>4, <1>5, <1>6, U64Assumption DEF CostChange, U64
    <2> HIDE DEF consumed
    <2> QED
      BY <1>4, <2>1, U64Assumption DEF charge, Add, deduct, saturating_add, saturate, CostChange, U64
  <1> HIDE DEF cost, consumed
  <1>8. net_cost(cost) = net_cost(current) + consumed
    BY <1>4, <1>6, <1>7, U64Assumption DEF net_cost, saturating_sub, CostChange, U64
  <1> QED
    BY <1>1, <1>3, <1>6, <1>8, ZenonT(60)

\* A command result is taken.
LEMMA ResultTaken ==
    ASSUME GasInv, TakeCommandResult
    PROVE  GasInv'
  <1> DEFINE gas_used == min(net_cost(current), saturating_sub(tx.limit, used_before))
  <1>1. /\ stage = "done" /\ executed' = saturating_add(executed, gas_used) /\ current' = Zero
        /\ UNCHANGED <<tx, inclusion, stored, contract>> /\ outcome' = NoOutcome
        /\ stage' \in {"end", "command"}
    BY ZenonT(60) DEF TakeCommandResult
  <1>2. /\ inclusion \in U64 /\ executed \in U64 /\ tx.limit \in U64
        /\ inclusion + executed <= tx.limit /\ current \in CostChange
    BY ZenonT(60) DEF GasInv, MeterTypeOK
  <1>3. used_before = inclusion + executed /\ net_cost(current) \in U64
    BY <1>2, Totals, ZenonT(60)
  <1>4. gas_used \in Nat /\ gas_used <= tx.limit - (inclusion + executed)
    BY <1>2, <1>3, U64Assumption DEF min, saturating_sub, U64
  <1> HIDE DEF gas_used
  <1>5. executed' \in U64 /\ inclusion + executed' <= tx.limit
    BY <1>1, <1>2, <1>4, U64Assumption DEF saturating_add, saturate, U64
  <1>6. Zero \in CostChange
    BY U64Assumption DEF Zero, CostChange, U64
  <1>7. MeterTypeOK'
    BY <1>1, <1>5, <1>6, ZenonT(60) DEF GasInv, MeterTypeOK
  <1> QED
    BY <1>1, <1>5, <1>7, ZenonT(60) DEF GasInv, ContractBounds, SuccessIsPaidInFull

\* The invariant of the gas meter holds for all prices, lengths and limits.
THEOREM GasInvariance == MeterSpec => []GasInv
  <1>1. MeterInit => GasInv
    <2> SUFFICES ASSUME MeterInit PROVE GasInv
      BY ZenonT(60)
    <2>1. Zero \in CostChange /\ NoContract \in [limit : U64, gas : U64, trapped : BOOLEAN] /\ 0 \in U64
      BY U64Assumption DEF Zero, NoContract, CostChange, U64
    <2>2. stored \in [Items -> Nat]
      <3>1. PICK values \in [Storage -> ValueLens], there \in BOOLEAN :
                stored = [i \in Items |-> IF i \in Storage THEN values[i]
                                        ELSE IF i = Balance THEN 8
                                        ELSE IF ~ there THEN 0
                                        ELSE IF i = CBI THEN 4 ELSE CodeLen]
        BY ZenonT(60) DEF MeterInit
      <3>2. \A i \in Storage : values[i] \in Nat
        BY LensAssumption, ZenonT(60)
      <3> QED
        BY <3>1, <3>2, LensAssumption, ZenonT(60)
    <2>3. tx.limit = 0
      BY ZenonT(60) DEF MeterInit
    <2> QED
      BY <2>1, <2>2, <2>3 DEF MeterInit, GasInv, MeterTypeOK, ContractBounds, SuccessIsPaidInFull
  <1>2. GasInv /\ [MeterNext]_meterVars => GasInv'
    <2> SUFFICES ASSUME GasInv, [MeterNext]_meterVars PROVE GasInv'
      BY ZenonT(60)
    <2>1. ASSUME NEW ver, NEW limit \in Limits, NEW tx_size, NEW kinds,
                 ChargeInclusion(ver, limit, tx_size, kinds)
          PROVE  GasInv'
      <3> DEFINE required == tx_inclusion_cost(ver, tx_size, kinds)
      <3>1. required \in U64 /\ required >= rw_key_cost /\ limit \in U64
        BY InclusionCost, LensAssumption, ZenonT(60)
      <3> HIDE DEF required
      <3>2. /\ stage = "new" /\ tx'.limit = limit /\ UNCHANGED <<executed, current, stored, contract, outcome>>
            /\ \/ required > limit /\ stage' = "end" /\ inclusion' = inclusion
               \/ ~ (required > limit) /\ inclusion' = required /\ stage' \in {"end", "command"}
        BY <2>1, ZenonT(60) DEF ChargeInclusion, required
      <3>3. inclusion = 0 /\ executed = 0 /\ current = Zero /\ outcome = NoOutcome
        BY <3>2, ZenonT(60) DEF GasInv
      <3>4. MeterTypeOK'
        BY <3>1, <3>2, ZenonT(60) DEF GasInv, MeterTypeOK
      <3>5. inclusion' + executed' <= tx'.limit
        BY <3>1, <3>2, <3>3, U64Assumption DEF U64
      <3> QED
        BY <3>1, <3>2, <3>3, <3>4, <3>5, ZenonT(60) DEF GasInv, ContractBounds, SuccessIsPaidInFull
    <2>2. CASE PaysGas
      <3>1. PICK gas \in U64, trapped \in BOOLEAN :
                GasFalls(gas) /\ contract' = [contract EXCEPT !.gas = gas, !.trapped = trapped]
        BY <2>2, ZenonT(60) DEF PaysGas
      <3> QED
        BY <2>2, <3>1, ContractGoesOn, ZenonT(60) DEF PaysGas, GasFalls
    <2>3. CASE UNCHANGED meterVars
      BY <2>3, ZenonT(60) DEF meterVars, GasInv, MeterTypeOK, ContractBounds, SuccessIsPaidInFull, total_gas_used, used_before, kind
    <2> QED
      BY <2>1, <2>2, <2>3, CommandSteps, ContractSteps, ContractEnds, ResultTaken, ZenonT(60) DEF MeterNext
  <1> QED
    BY <1>1, <1>2, PTL DEF MeterSpec

\* Which step is taken in which stage.
LEMMA Phases ==
    ASSUME MeterNext
    PROVE  /\ stage = "contract" => HostStep \/ (\E cost \in BlockCosts : WasmBlock(cost)) \/ EndContract
           /\ stage # "contract" => ~ EndContract
           /\ SetOutput \/ outcome'.output = "none" \/ (outcome' = outcome /\ stage # "done")
  <1>1. stage = "contract" => ~ CommandStep
    BY ZenonT(60) DEF CommandStep, StorageStep, WsRead, WsSet, InCommand, EndCommand, SetOutput, Transfer, Deploy, Call
  <1>2. /\ stage = "contract" => ~ TakeCommandResult
        /\ \A ver, limit, tx_size, kinds :
               stage = "contract" => ~ ChargeInclusion(ver, limit, tx_size, kinds)
    BY ZenonT(60) DEF TakeCommandResult, ChargeInclusion
  <1>3. stage # "contract" => ~ EndContract
    BY ZenonT(60) DEF EndContract
  <1>4. SetOutput \/ outcome'.output = "none" \/ (outcome' = outcome /\ stage # "done")
    <2> DEFINE Quiet == outcome'.output = "none" \/ (outcome' = outcome /\ stage # "done")
    <2>0. \A ok : Finish(ok, "none") => Quiet
      BY DEF Finish
    <2>1. CASE CommandStep /\ ~ SetOutput
      <3> HIDE DEF Quiet
      <3>1. outcome' = outcome /\ stage = "command" => Quiet
        <4>1. stage = "command" => stage # "done"
          BY ZenonT(60)
        <4> QED
          BY <4>1, ZenonT(60) DEF Quiet
      <3>2. StorageStep => Quiet
        BY <3>1, ZenonT(60) DEF StorageStep, WsRead, WsSet, InCommand
      <3>3. EndCommand \/ Transfer => Quiet
        BY <2>0, ZenonT(60) DEF EndCommand, Transfer
      <3>4. Deploy => Quiet
        BY <2>0, ZenonT(60) DEF Deploy
      <3>5. \A with_amount \in BOOLEAN : Call(with_amount) => Quiet
        BY <2>0, <3>1, ZenonT(60) DEF Call
      <3> QED
        BY <2>1, <3>2, <3>3, <3>4, <3>5, ZenonT(60) DEF CommandStep, Quiet
    <2>2. CASE HostStep \/ \E cost \in BlockCosts : WasmBlock(cost)
      BY <2>2, ZenonT(60) DEF HostStep, WasmBlock, HostGet, HostSet, HostBalance, HostTransfer, HostBytes, HostCrypto,
                  HostCall, HostOutput, HostFunction, InContract, ContractVars
    <2>3. EndContract => Quiet
      <3> HIDE DEF Quiet
      <3>1. EndContract => \E ok : Finish(ok, "none")
        BY ZenonT(60) DEF EndContract
      <3> QED
        BY <2>0, <3>1, ZenonT(60)
    <2>4. TakeCommandResult => Quiet
      <3>1. TakeCommandResult => outcome' = NoOutcome
        BY ZenonT(60) DEF TakeCommandResult
      <3>2. NoOutcome.output = "none"
        BY ZenonT(60) DEF NoOutcome
      <3> QED
        BY <3>1, <3>2, ZenonT(60)
    <2>5. ASSUME NEW ver, NEW limit, NEW tx_size, NEW kinds, ChargeInclusion(ver, limit, tx_size, kinds)
          PROVE  outcome' = outcome /\ stage # "done"
      BY <2>5, ZenonT(60) DEF ChargeInclusion
    <2> QED
      BY <2>1, <2>2, <2>3, <2>4, <2>5, ZenonT(60) DEF MeterNext
  <1>5. stage = "contract" => HostStep \/ (\E cost \in BlockCosts : WasmBlock(cost)) \/ EndContract
    BY <1>1, <1>2, ZenonT(60) DEF MeterNext
  <1> QED
    BY <1>3, <1>4, <1>5, ZenonT(60)

\* Every counter of the gas meter is a u64.
THEOREM MeterTypeCorrect == MeterSpec => []MeterTypeOK
  <1>1. GasInv => MeterTypeOK
    BY ZenonT(60) DEF GasInv
  <1> QED
    BY <1>1, GasInvariance, PTL

\* A contract never takes a command beyond the gas limit.
THEOREM ContractsKeepTheLimit == MeterSpec => []CallWithinLimit
  <1>1. GasInv => CallWithinLimit
    <2> SUFFICES ASSUME GasInv, stage = "contract"
                 PROVE  total_gas_used(current) + (contract.limit - contract.gas) <= tx.limit
      BY ZenonT(60) DEF CallWithinLimit
    <2>1. /\ contract.limit \in U64 /\ contract.gas \in U64 /\ current \in CostChange
          /\ inclusion \in U64 /\ executed \in U64 /\ tx.limit \in U64 /\ inclusion + executed <= tx.limit
          /\ total_gas_used(current) + contract.limit = tx.limit
      BY ZenonT(60) DEF GasInv, MeterTypeOK, ContractBounds
    <2>2. total_gas_used(current) \in U64
      BY <2>1, Totals, ZenonT(60)
    <2> QED
      BY <2>1, <2>2, U64Assumption DEF U64
  <1> QED
    BY <1>1, GasInvariance, PTL

\* A command that succeeds is charged all of its cost.
THEOREM SuccessPaid == MeterSpec => []SuccessIsPaidInFull
  <1>1. GasInv => SuccessIsPaidInFull
    BY ZenonT(60) DEF GasInv
  <1> QED
    BY <1>1, GasInvariance, PTL

\* The gas of a contract is charged in full although charges and rewards saturate.
THEOREM ContractsPayInFull == MeterSpec => ContractGasInFull
  <1>1. GasInv /\ [MeterNext]_meterVars =>
            [stage = "contract" /\ stage' = "done" =>
                net_cost(current') = net_cost(current) + (contract.limit - contract.gas)]_meterVars
    <2> SUFFICES ASSUME GasInv, MeterNext, stage = "contract", stage' = "done"
                 PROVE  net_cost(current') = net_cost(current) + (contract.limit - contract.gas)
      BY ZenonT(60)
    <2>1. CASE PaysGas
      BY <2>1, ZenonT(60) DEF PaysGas, ContractVars
    <2> QED
      BY <2>1, Phases, ContractSteps, ContractEnds, ZenonT(60)
  <1> QED
    BY <1>1, GasInvariance, PTL DEF MeterSpec, ContractGasInFull

\* No host function and no Wasm block is free.
THEOREM HostFunctionsPay == MeterSpec => HostFunctionsCost
  <1>1. GasInv /\ [MeterNext]_meterVars =>
            [stage = "contract" /\ contract' # NoContract =>
                contract'.gas < contract.gas \/ contract'.gas = 0]_meterVars
    <2> SUFFICES ASSUME GasInv, MeterNext, stage = "contract", contract' # NoContract
                 PROVE  contract'.gas < contract.gas \/ contract'.gas = 0
      BY ZenonT(60)
    <2>1. PaysGas
      BY Phases, ContractSteps, ZenonT(60) DEF EndContract
    <2>2. PICK gas \in U64, trapped \in BOOLEAN :
              GasFalls(gas) /\ contract' = [contract EXCEPT !.gas = gas, !.trapped = trapped]
      BY <2>1, ZenonT(60) DEF PaysGas
    <2>3. contract'.gas = gas
      BY <2>2, ZenonT(60) DEF GasInv, MeterTypeOK
    <2> QED
      BY <2>2, <2>3, ZenonT(60) DEF GasFalls
  <1> QED
    BY <1>1, GasInvariance, PTL DEF MeterSpec, HostFunctionsCost

\* A staking command that succeeds without its output was over the limit with it.
LEMMA OutputWithheld ==
    ASSUME SetOutput, outcome'.output = "withheld", outcome'.ok
    PROVE  /\ saturating_add(total_gas_used(current), net_cost(output_cost)) > tx.limit
           /\ current' = withheld_cost /\ not_exhausted(withheld_cost)
  BY DEF SetOutput, Finish

\* The amount of a staking command is lost to rewards only.
THEOREM OutputLostToRewards == MeterSpec => OutputLostOnlyToRewards
  <1>1. GasInv /\ [MeterNext]_meterVars =>
            [outcome'.output = "withheld" /\ outcome'.ok =>
                current.reward > current.deduct \/ current'.deduct = MaxU64]_meterVars
    <2> SUFFICES ASSUME GasInv, MeterNext, outcome'.output = "withheld", outcome'.ok,
                        ~ (current.reward > current.deduct), current'.deduct # MaxU64
                 PROVE  FALSE
      BY ZenonT(60)
    <2> DEFINE price == blockchain_storage_cost(8)
    <2>1. SetOutput
      <3>1. stage # "done" => outcome = NoOutcome
        BY ZenonT(60) DEF GasInv
      <3>2. outcome'.output # "none" /\ NoOutcome.output = "none"
        BY ZenonT(60) DEF NoOutcome
      <3> QED
        BY Phases, <3>1, <3>2, ZenonT(60)
    <2>2. /\ saturating_add(total_gas_used(current), net_cost(output_cost)) > tx.limit
          /\ current' = withheld_cost /\ not_exhausted(withheld_cost)
      BY <2>1, OutputWithheld, ZenonT(60)
    <2>3. /\ inclusion \in U64 /\ executed \in U64 /\ tx.limit \in U64 /\ inclusion + executed <= tx.limit
          /\ current \in CostChange
      BY ZenonT(60) DEF GasInv, MeterTypeOK
    <2>4. price \in U64
      BY Saturate, ZenonT(60) DEF blockchain_storage_cost, saturating_mul
    <2>5. output_cost = [deduct |-> price, reward |-> 0]
      BY ZenonT(60) DEF output_cost, deduct
    <2> HIDE DEF price
    <2>6. net_cost(output_cost) = price
      BY <2>4, <2>5, U64Assumption DEF net_cost, saturating_sub, U64
    <2>7. withheld_cost.deduct = saturate(current.deduct + price) /\ withheld_cost.reward = current.reward
      BY <2>3, <2>4, <2>5, U64Assumption DEF withheld_cost, charge, Add, saturating_add, saturate, CostChange, U64
    <2>8. withheld_cost.deduct = current.deduct + price
      BY <2>2, <2>3, <2>4, <2>7, U64Assumption, ZenonT(60) DEF saturate, CostChange, U64
    <2>9. net_cost(withheld_cost) = (current.deduct - current.reward) + price
          /\ net_cost(current) = current.deduct - current.reward
      BY <2>3, <2>4, <2>7, <2>8, U64Assumption DEF net_cost, saturating_sub, CostChange, U64
    <2>10. used_before = inclusion + executed
      BY <2>3, Totals, ZenonT(60)
    <2>11. /\ total_gas_used(current) = saturate(inclusion + executed + (current.deduct - current.reward))
           /\ saturate(inclusion + executed + ((current.deduct - current.reward) + price)) <= tx.limit
           /\ saturate(total_gas_used(current) + price) > tx.limit
      BY <2>2, <2>6, <2>9, <2>10, ZenonT(60) DEF total_gas_used, saturating_add, not_exhausted
    <2> QED
      BY <2>3, <2>4, <2>11, U64Assumption DEF saturate, CostChange, U64
  <1> QED
    BY <1>1, GasInvariance, PTL DEF MeterSpec, OutputLostOnlyToRewards

-----------------------------------------------------------------------------
\* The world state cache.


\* What the proofs need to know of the state: types, and a read set that agrees with
\* the world state for as long as it is read.
IInv == TypeOK /\ ReadsAreFresh

\* The value of a key inside the transaction, as the refinement mapping has it.
Pending(k) == IF writes[k] = Missing THEN ws[k] ELSE NonEmpty(writes[k])

\* CacheData::get finds the value of the key inside the transaction: a read set that
\* agrees with the world state cannot be told from no read set.
LEMMA GetFindsPending ==
    ASSUME IInv, phase # "settling", NEW k \in Keys
    PROVE  NonEmpty(get(k)) = Pending(k)
  <1>1. reads[k] = Missing \/ reads[k] = ws[k]
    BY ZenonT(60) DEF IInv, ReadsAreFresh
  <1>2. ws[k] \in Values \cup {None}
    BY ZenonT(60) DEF IInv, TypeOK
  <1>3. NonEmpty(ws[k]) = ws[k]
    BY <1>2, CacheAssumption, ZenonT(60) DEF NonEmpty
  <1>. QED
    BY <1>1, <1>3, ZenonT(60) DEF get, Pending

\* A look-up leaves a read set that agrees with the world state.
LEMMA GetKeepsReadsFresh ==
    ASSUME IInv, phase # "settling", NEW k \in Keys
    PROVE  /\ reads_after_get(k) \in [Keys -> Values \cup {None, Missing}]
           /\ \A j \in Keys : reads_after_get(k)[j] \in {Missing, ws[j]}
  BY ZenonT(60) DEF IInv, TypeOK, ReadsAreFresh, reads_after_get

\* The initial states satisfy the invariant.
LEMMA InitIInv == Init => IInv
  BY ZenonT(60) DEF Init, IInv, TypeOK, ReadsAreFresh, NoEntries

\* No operation, no revert, no charge and no commit breaks the invariant.
LEMMA NextIInv == IInv /\ [Next]_vars => IInv'
  <1>. SUFFICES ASSUME IInv, [Next]_vars PROVE IInv'
    BY ZenonT(60)
  <1>1. ASSUME NEW k \in Keys, Get(k) PROVE IInv'
    BY <1>1, GetKeepsReadsFresh, ZenonT(60) DEF Get, Access, IInv, TypeOK, ReadsAreFresh
  <1>2. ASSUME NEW k \in Keys, Contains(k) PROVE IInv'
    BY <1>2, ZenonT(60) DEF Contains, Access, EpochAccess, IInv, TypeOK, ReadsAreFresh
  <1>3. ASSUME NEW k \in Keys, PurgeBalance(k) PROVE IInv'
    BY <1>3, GetKeepsReadsFresh, ZenonT(60) DEF PurgeBalance, IInv, TypeOK, ReadsAreFresh
  <1>4. ASSUME NEW k \in Keys, NEW v \in Values \cup {Empty}, Set(k, v) PROVE IInv'
    BY <1>4, GetKeepsReadsFresh, ZenonT(60) DEF Set, Access, IInv, TypeOK, ReadsAreFresh
  <1>5. ASSUME NEW k \in Keys, NEW v \in Values, PreCharge(k, v) PROVE IInv'
    BY <1>5, ZenonT(60) DEF PreCharge, IInv, TypeOK, ReadsAreFresh, NoEntries
  <1>6. ASSUME NEW k \in Keys, NEW v \in Values, SetInWorldState(k, v) PROVE IInv'
    BY <1>6, ZenonT(60) DEF SetInWorldState, IInv, TypeOK, ReadsAreFresh
  <1>7. CASE Revert
    BY <1>7, ZenonT(60) DEF Revert, Access, IInv, TypeOK, ReadsAreFresh, NoEntries
  <1>8. CASE CommitToWorldState
    BY <1>8, CacheAssumption, ZenonT(60)
    DEF CommitToWorldState, NonEmpty, IInv, TypeOK, ReadsAreFresh, NoEntries
  <1>9. ASSUME NEW k \in Keys, EpochGet(k) PROVE IInv'
    BY <1>9, GetKeepsReadsFresh, ZenonT(60) DEF EpochGet, EpochAccess, IInv, TypeOK, ReadsAreFresh
  <1>10. ASSUME NEW k \in Keys, NEW v \in Values \cup {Empty}, EpochSet(k, v) PROVE IInv'
    BY <1>10, ZenonT(60) DEF EpochSet, EpochAccess, IInv, TypeOK, ReadsAreFresh
  <1>11. CASE UNCHANGED vars
    BY <1>11, ZenonT(60) DEF vars, IInv, TypeOK, ReadsAreFresh
  <1>. QED
    BY <1>1, <1>2, <1>3, <1>4, <1>5, <1>6, <1>7, <1>8, <1>9, <1>10, <1>11, ZenonT(60) DEF Next

\* Whatever the transaction did, the read set never contradicts the world state while
\* it can still be read (CacheData::get, purge_balance, pre_charge, charge).
THEOREM ReadsStayFresh == Spec => []ReadsAreFresh
  <1>1. IInv => ReadsAreFresh
    BY ZenonT(60) DEF IInv
  <1>. QED
    BY InitIInv, NextIInv, <1>1, PTL DEF Spec

\* The write set holds what the operations wrote or nothing, the read set what the world
\* state held (CacheData::set, get).
THEOREM TypeCorrect == Spec => []TypeOK
  <1>1. IInv => TypeOK
    BY ZenonT(60) DEF IInv
  <1>. QED
    BY InitIInv, NextIInv, <1>1, PTL DEF Spec

\* What contains answers, against the value inside the transaction.
LEMMA ContainsFinds ==
    ASSUME IInv, phase # "settling", NEW k \in Keys
    PROVE  contains(k) = (NonEmpty(get(k)) # None) \/ (contains(k) /\ writes[k] = Empty)
  <1>1. /\ writes[k] \in Values \cup {Empty, Missing}
        /\ reads[k] = Missing \/ reads[k] = ws[k]
        /\ ws[k] \in Values \cup {None}
    BY ZenonT(60) DEF IInv, TypeOK, ReadsAreFresh
  <1>2. NonEmpty(get(k)) = Pending(k)
    BY GetFindsPending, ZenonT(60)
  <1>. QED
    BY <1>1, <1>2, CacheAssumption, ZenonT(60) DEF contains, Pending, NonEmpty

\* What next_epoch reads, against the value inside the transaction.
LEMMA EpochGetFinds ==
    ASSUME IInv, phase # "settling", NEW k \in Keys
    PROVE  get(k) = NonEmpty(get(k)) \/ (get(k) = Empty /\ writes[k] = Empty)
  <1>1. /\ reads[k] = Missing \/ reads[k] = ws[k]
        /\ ws[k] \in Values \cup {None}
    BY ZenonT(60) DEF IInv, TypeOK, ReadsAreFresh
  <1>. QED
    BY <1>1, CacheAssumption, ZenonT(60) DEF get, NonEmpty

\* CacheData::contains never overlooks a value, and finds one too many only for a key that
\* the transaction has deleted; only for such a key does NetworkAccountWorldState::get
\* find an empty value.
THEOREM FacadesErrOnDeletions == Spec => []FacadesDifferOnlyOnDeletions
  <1>1. Init => FacadesDifferOnlyOnDeletions
    BY DEF Init, FacadesDifferOnlyOnDeletions
  <1>2. IInv /\ FacadesDifferOnlyOnDeletions /\ [Next]_vars => FacadesDifferOnlyOnDeletions'
    <2>. SUFFICES ASSUME IInv, FacadesDifferOnlyOnDeletions, [Next]_vars, NEW k \in Keys
                  PROVE  /\ \A found \in BOOLEAN : answer' = <<"contains", k, found>> =>
                              (found = (NonEmpty(get(k)) # None) \/ (found /\ writes[k] = Empty))'
                         /\ \A v \in Values \cup {None, Empty} : answer' = <<"epoch_get", k, v>> =>
                              (v = NonEmpty(get(k)) \/ (v = Empty /\ writes[k] = Empty))'
      BY ZenonT(60) DEF FacadesDifferOnlyOnDeletions
    <2>1. CASE UNCHANGED vars
      BY <2>1, ZenonT(60) DEF vars, FacadesDifferOnlyOnDeletions, get
    <2>2. CASE Next
      <3>1. ASSUME NEW found \in BOOLEAN, answer' = <<"contains", k, found>>
            PROVE  (found = (NonEmpty(get(k)) # None) \/ (found /\ writes[k] = Empty))'
        <4>1. Contains(k) /\ found = contains(k)
          BY <2>2, <3>1, ZenonT(60) DEF Next, Get, EpochGet, EpochSet, Contains, PurgeBalance, Set,
              PreCharge, SetInWorldState, Revert, CommitToWorldState
        <4>2. phase # "settling" /\ UNCHANGED <<ws, reads, writes>>
          BY <4>1, ZenonT(60) DEF Contains, Access, EpochAccess
        <4>3. get(k)' = get(k) /\ writes'[k] = writes[k]
          BY <4>2, ZenonT(60) DEF get
        <4>. QED
          BY <4>1, <4>2, <4>3, ContainsFinds, ZenonT(60)
      <3>2. ASSUME NEW v \in Values \cup {None, Empty}, answer' = <<"epoch_get", k, v>>
            PROVE  (v = NonEmpty(get(k)) \/ (v = Empty /\ writes[k] = Empty))'
        <4>1. EpochGet(k) /\ v = get(k)
          BY <2>2, <3>2, ZenonT(60) DEF Next, Get, EpochGet, EpochSet, Contains, PurgeBalance, Set,
              PreCharge, SetInWorldState, Revert, CommitToWorldState
        <4>2. phase # "settling" /\ UNCHANGED <<ws, writes>> /\ reads' = reads_after_get(k)
          BY <4>1, ZenonT(60) DEF EpochGet, EpochAccess
        <4>3. get(k)' = get(k) /\ writes'[k] = writes[k]
          BY <4>2, ZenonT(60) DEF get, reads_after_get, IInv, TypeOK
        <4>. QED
          BY <4>1, <4>2, <4>3, EpochGetFinds, ZenonT(60)
      <3>. QED
        BY <3>1, <3>2, ZenonT(60)
    <2>. QED
      BY <2>1, <2>2, ZenonT(60)
  <1>. QED
    BY InitIInv, NextIInv, <1>1, <1>2, PTL DEF Spec

-----------------------------------------------------------------------------

PendingMap == [k \in Keys |-> IF writes[k] = Missing THEN ws[k] ELSE NonEmpty(writes[k])]

\* Every step of the cache is a step of StorageTransaction, or none.
LEMMA StepSimulates ==
    ASSUME IInv, [Next]_vars
    PROVE  [Abstract!Next]_(Abstract!vars)
  <1>. DEFINE P == PendingMap
  <1>1. ASSUME NEW k \in Keys, Get(k) PROVE Abstract!Read(k)
    <2>1. answer' = <<"get", k, P[k]>>
      BY <1>1, GetFindsPending, ZenonT(60) DEF Get, Access, Pending, PendingMap
    <2>. QED
      BY <1>1, <2>1, ZenonT(60) DEF Get, Abstract!Read, PendingMap
  <1>2. ASSUME NEW k \in Keys, Contains(k) PROVE Abstract!Contains(k)
    <2>1. contains(k) = (P[k] # None \/ ws[k] # None)
      <3>1. /\ writes[k] \in Values \cup {Empty, Missing}
            /\ reads[k] = Missing \/ reads[k] = ws[k]
        BY <1>2, ZenonT(60) DEF Contains, Access, EpochAccess, IInv, TypeOK, ReadsAreFresh
      <3>. QED
        BY <3>1, CacheAssumption, ZenonT(60) DEF contains, PendingMap, NonEmpty
    <2>. QED
      BY <1>2, <2>1, ZenonT(60) DEF Contains, Abstract!Contains, PendingMap
  <1>3. ASSUME NEW k \in Keys, PurgeBalance(k) PROVE Abstract!Purge(k)
    <2>1. answer' = <<"purge", k, P[k]>>
      BY <1>3, GetFindsPending, ZenonT(60) DEF PurgeBalance, Pending, PendingMap
    <2>2. P' = [P EXCEPT ![k] = ws[k]]
      BY <1>3, ZenonT(60) DEF PurgeBalance, IInv, TypeOK, PendingMap
    <2>. QED
      BY <1>3, <2>1, <2>2, ZenonT(60) DEF PurgeBalance, Abstract!Purge, PendingMap
  <1>4. ASSUME NEW k \in Keys, NEW v \in Values \cup {Empty}, Set(k, v)
        PROVE  Abstract!Write(k, NonEmpty(v)) /\ NonEmpty(v) \in Values \cup {None}
    <2>1. P' = [P EXCEPT ![k] = NonEmpty(v)]
      BY <1>4, CacheAssumption, ZenonT(60) DEF Set, IInv, TypeOK, PendingMap
    <2>. QED
      BY <1>4, <2>1, CacheAssumption, ZenonT(60) DEF Set, Abstract!Write, PendingMap, NonEmpty
  <1>5. ASSUME NEW k \in Keys, NEW v \in Values, PreCharge(k, v) PROVE Abstract!Settle(k, v)
    <2>1. P' = [P EXCEPT ![k] = v]
      BY <1>5, ZenonT(60) DEF PreCharge, IInv, TypeOK, ReadsAreFresh, NoEntries, PendingMap
    <2>. QED
      BY <1>5, <2>1, ZenonT(60) DEF PreCharge, Abstract!Settle, PendingMap
  <1>6. ASSUME NEW k \in Keys, NEW v \in Values, SetInWorldState(k, v)
        PROVE  Abstract!Settle(k, v)
    <2>1. P' = [P EXCEPT ![k] = v]
      BY <1>6, ZenonT(60) DEF SetInWorldState, IInv, TypeOK, PendingMap
    <2>. QED
      BY <1>6, <2>1, ZenonT(60) DEF SetInWorldState, Abstract!Settle, PendingMap
  <1>7. CASE Revert
    <2>1. P' = ws
      BY <1>7, ZenonT(60) DEF Revert, IInv, TypeOK, NoEntries, PendingMap
    <2>2. Abstract!Discard
      BY <1>7, <2>1, ZenonT(60) DEF Revert, Abstract!Discard, PendingMap
    <2>. QED
      BY <2>2, ZenonT(60) DEF Abstract!Next
  <1>8. CASE CommitToWorldState
    <2>1. ws' = P
      BY <1>8, ZenonT(60) DEF CommitToWorldState, PendingMap
    <2>2. P' = P
      BY <1>8, ZenonT(60) DEF CommitToWorldState, NoEntries, PendingMap
    <2>3. Abstract!Commit
      BY <1>8, <2>1, <2>2, ZenonT(60) DEF CommitToWorldState, Abstract!Commit, PendingMap
    <2>. QED
      BY <2>3, ZenonT(60) DEF Abstract!Next
  <1>9. ASSUME NEW k \in Keys, EpochGet(k) PROVE Abstract!EpochRead(k)
    <2>1. get(k) = P[k] \/ (P[k] = None /\ get(k) = Empty)
      <3>1. NonEmpty(get(k)) = P[k]
        BY <1>9, GetFindsPending, ZenonT(60) DEF EpochGet, EpochAccess, Pending, PendingMap
      <3>. QED
        BY <3>1, ZenonT(60) DEF NonEmpty
    <2>. QED
      BY <1>9, <2>1, ZenonT(60) DEF EpochGet, Abstract!EpochRead, PendingMap
  <1>10. ASSUME NEW k \in Keys, NEW v \in Values \cup {Empty}, EpochSet(k, v)
         PROVE  Abstract!Write(k, NonEmpty(v)) /\ NonEmpty(v) \in Values \cup {None}
    <2>1. P' = [P EXCEPT ![k] = NonEmpty(v)]
      BY <1>10, CacheAssumption, ZenonT(60) DEF EpochSet, IInv, TypeOK, PendingMap
    <2>. QED
      BY <1>10, <2>1, CacheAssumption, ZenonT(60) DEF EpochSet, Abstract!Write, PendingMap, NonEmpty
  <1>11. CASE UNCHANGED vars
    BY <1>11, ZenonT(60) DEF vars, Abstract!vars
  <1>. QED
    BY <1>1, <1>2, <1>3, <1>4, <1>5, <1>6, <1>7, <1>8, <1>9, <1>10, <1>11, ZenonT(60)
    DEF Next, Abstract!Next

\* A transaction cannot tell the cache from the world state: it reads its own writes
\* over the committed values, and commits all of them or none.
THEOREM CacheImplementsStorage == Spec => CacheIsTransparent
  <1>1. Init => Abstract!Init
    <2>. SUFFICES ASSUME Init PROVE Abstract!Init
      BY ZenonT(60)
    <2>1. PendingMap = ws
      BY ZenonT(60) DEF Init, NoEntries, PendingMap
    <2>. QED
      BY <2>1, ZenonT(60) DEF Init, Abstract!Init, PendingMap
  <1>2. IInv /\ [Next]_vars => [Abstract!Next]_(Abstract!vars)
    BY StepSimulates, ZenonT(60)
  <1>. QED
    BY InitIInv, NextIInv, <1>1, <1>2, PTL DEF Spec, CacheIsTransparent, Abstract!Spec

-----------------------------------------------------------------------------
\* The cache of compiled contracts.


\* A deployment goes to an address that no transaction has used, which is why the
\* module it caches contradicts no other: without AddressesAreFresh the property of the
\* cache is not inductive.
CodeInv ==
    /\ CodeTypeOK
    /\ AddressesAreFresh
    /\ CacheMatchesDeployedCode
    /\ CallsRunDeployedCode
    /\ GasIndependentOfCache
    /\ OnlyValidatedCodeRuns

\* The address of the next deployment is one of the current nonce.
LEMMA AddressOfNonce ==
    ASSUME CodeTypeOK
    PROVE  contract_address \in Addresses /\ contract_address[1] = nonce
  BY BoundsAssumption DEF CodeTypeOK, contract_address, Addresses

\* The initial states satisfy the invariant.
LEMMA InitCodeInv == CodeInit => CodeInv
  <1>. SUFFICES ASSUME CodeInit PROVE CodeInv
    BY ZenonT(60)
  <1>1. CodeTypeOK
    BY BoundsAssumption DEF CodeInit, CodeTypeOK, NoCode
  <1>2. \A a \in Addresses : /\ deployed[a] = Absent /\ written[a] = Absent /\ code(a) = Absent
                           /\ cache[a] = Absent /\ metadata[a] = Absent
    BY ZenonT(60) DEF CodeInit, NoCode, code
  <1>3. AddressesAreFresh /\ CacheMatchesDeployedCode
    BY <1>2, ZenonT(60) DEF AddressesAreFresh, CacheMatchesDeployedCode
  <1>4. CallsRunDeployedCode /\ GasIndependentOfCache /\ OnlyValidatedCodeRuns
    BY ZenonT(60) DEF CodeInit, CallsRunDeployedCode, GasIndependentOfCache, OnlyValidatedCodeRuns
  <1>. QED
    BY <1>1, <1>3, <1>4, ZenonT(60) DEF CodeInv

\* Deploy keeps the invariant: the address is free, so nothing is cached there.
LEMMA DeployCodeInv ==
    ASSUME CodeInv, NEW c \in Codes, DeployCommand(c)
    PROVE  CodeInv'
  <1>. DEFINE d == contract_address
  <1>1. d \in Addresses /\ d[1] = nonce /\ nonce \in Nat
    BY AddressOfNonce DEF CodeInv, CodeTypeOK
  <1>2. /\ code(d) = Absent
        /\ cache' = cache \/ cache' = [cache EXCEPT ![d] = c]
        /\ metadata' = metadata \/ metadata' = [metadata EXCEPT ![d] = c]
        /\ written' = [written EXCEPT ![d] = c]
        /\ UNCHANGED <<deployed, version, nonce>>
        /\ index < MaxDeploys /\ index' = index + 1
        /\ loaded' = <<>>
    BY ZenonT(60) DEF DeployCommand, NotDeployed, CacheTo
  <1>. HIDE DEF d
  <1>3. CodeTypeOK'
    BY <1>1, <1>2, BoundsAssumption DEF CodeInv, CodeTypeOK
  <1>4. /\ deployed \in [Addresses -> Codes \cup {Absent}]
        /\ written \in [Addresses -> Codes \cup {Absent}]
        /\ cache \in [Addresses -> Codes \cup {Absent}]
        /\ metadata \in [Addresses -> Codes \cup {Absent}]
    BY ZenonT(60) DEF CodeInv, CodeTypeOK
  <1>5. c # Absent /\ cache[d] = Absent /\ metadata[d] = Absent /\ deployed[d] = Absent
    BY <1>1, <1>2, CodesAssumption, ZenonT(60) DEF CodeInv, AddressesAreFresh
  <1>6. \A a \in Addresses : code(a)' = IF a = d THEN c ELSE code(a)
    BY <1>1, <1>2, <1>4, <1>5, ZenonT(60) DEF code
  <1>7. \A a \in Addresses : a # d =>
            cache'[a] = cache[a] /\ metadata'[a] = metadata[a] /\ written'[a] = written[a]
    BY <1>2, <1>4, ZenonT(60)
  <1>8. cache'[d] \in {Absent, c} /\ metadata'[d] \in {Absent, c}
    BY <1>1, <1>2, <1>4, <1>5, ZenonT(60)
  <1>9. AddressesAreFresh'
    <2>. SUFFICES ASSUME NEW a \in Addresses
                  PROVE  /\ a[1] > nonce => code(a)' = Absent /\ cache'[a] = Absent /\ metadata'[a] = Absent
                         /\ a[1] = nonce => deployed[a] = Absent
                         /\ a[1] = nonce /\ code(a)' = Absent => cache'[a] = Absent /\ metadata'[a] = Absent
                         /\ a[1] # nonce => written'[a] = Absent
      BY <1>2, ZenonT(60) DEF AddressesAreFresh
    <2>1. CASE a = d
      <3>1. ~ (d[1] > nonce)
        BY <1>1
      <3>. QED
        BY <2>1, <3>1, <1>1, <1>5, <1>6, ZenonT(60)
    <2>2. CASE a # d
      BY <2>2, <1>6, <1>7, ZenonT(60) DEF CodeInv, AddressesAreFresh
    <2>. QED
      BY <2>1, <2>2, ZenonT(60)
  <1>10. CacheMatchesDeployedCode'
    <2>. SUFFICES ASSUME NEW a \in Addresses
                  PROVE  code(a)' # Absent =>
                            cache'[a] \in {Absent, code(a)'} /\ metadata'[a] \in {Absent, code(a)'}
      BY ZenonT(60) DEF CacheMatchesDeployedCode
    <2>1. CASE a = d
      BY <2>1, <1>6, <1>8, ZenonT(60)
    <2>2. CASE a # d
      BY <2>2, <1>6, <1>7, ZenonT(60) DEF CodeInv, CacheMatchesDeployedCode
    <2>. QED
      BY <2>1, <2>2, ZenonT(60)
  <1>11. CallsRunDeployedCode' /\ GasIndependentOfCache' /\ OnlyValidatedCodeRuns'
    BY <1>2, ZenonT(60) DEF CallsRunDeployedCode, GasIndependentOfCache, OnlyValidatedCodeRuns
  <1>. QED
    BY <1>3, <1>9, <1>10, <1>11, ZenonT(60) DEF CodeInv

\* The addresses above a nonce, and above the next one.
LEMMA AddressesAbove ==
    ASSUME nonce \in Nat, nonce' = nonce + 1
    PROVE  /\ \A a \in Addresses : a[1] > nonce => a[1] # nonce
           /\ \A a \in Addresses : (a[1] > nonce' \/ a[1] = nonce') => a[1] > nonce
  BY DEF Addresses

\* A transaction that ends keeps the types.
LEMMA NextTransactionTypes ==
    ASSUME CodeTypeOK, NEW state \in [Addresses -> Codes \cup {Absent}],
           NextTransaction(state), loaded' = <<>>,
           cache' \in [Addresses -> Codes \cup {Absent}],
           metadata' \in [Addresses -> Codes \cup {Absent}]
    PROVE  nonce \in Nat /\ CodeTypeOK'
  BY BoundsAssumption DEF CodeTypeOK, NextTransaction, NoCode

\* A transaction that ends, charged, keeps the invariant. Reverted or not, it leaves
\* behind modules only under addresses of its own nonce.
LEMMA NextTransactionCodeInv ==
    ASSUME CodeInv, NEW state \in [Addresses -> Codes \cup {Absent}],
           NextTransaction(state), loaded' = <<>>,
           cache' \in [Addresses -> Codes \cup {Absent}],
           metadata' \in [Addresses -> Codes \cup {Absent}],
           \A a \in Addresses : state[a] = deployed[a] \/ state[a] = code(a),
           \A a \in Addresses : a[1] > nonce => cache'[a] = Absent /\ metadata'[a] = Absent,
           \A a \in Addresses : state[a] # Absent =>
               cache'[a] \in {Absent, state[a]} /\ metadata'[a] \in {Absent, state[a]}
    PROVE  CodeInv'
  <1>1. deployed' = state /\ written' = NoCode /\ nonce' = nonce + 1
    BY ZenonT(60) DEF NextTransaction
  <1>2. nonce \in Nat /\ CodeTypeOK'
    BY NextTransactionTypes, ZenonT(60) DEF CodeInv
  <1>3. \A a \in Addresses : written'[a] = Absent /\ code(a)' = state[a]
    BY <1>1, ZenonT(60) DEF NoCode, code
  <1>4. \A a \in Addresses : a[1] > nonce => a[1] # nonce
    BY <1>1, <1>2, AddressesAbove, ZenonT(60)
  <1>5. \A a \in Addresses : a[1] > nonce => state[a] = Absent /\ cache'[a] = Absent /\ metadata'[a] = Absent
    <2>1. \A a \in Addresses : a[1] > nonce => code(a) = Absent /\ written[a] = Absent
      BY <1>4, ZenonT(60) DEF CodeInv, AddressesAreFresh
    <2>2. \A a \in Addresses : a[1] > nonce => deployed[a] = Absent
      BY <2>1, ZenonT(60) DEF code
    <2>. QED
      BY <2>1, <2>2, ZenonT(60)
  <1>6. \A a \in Addresses : (a[1] > nonce' \/ a[1] = nonce') => a[1] > nonce
    BY <1>1, <1>2, AddressesAbove, ZenonT(60)
  <1>7. AddressesAreFresh'
    BY <1>1, <1>3, <1>5, <1>6, ZenonT(60) DEF AddressesAreFresh
  <1>8. CacheMatchesDeployedCode'
    BY <1>3, ZenonT(60) DEF CacheMatchesDeployedCode
  <1>9. CallsRunDeployedCode' /\ GasIndependentOfCache' /\ OnlyValidatedCodeRuns'
    BY ZenonT(60) DEF CallsRunDeployedCode, GasIndependentOfCache, OnlyValidatedCodeRuns
  <1>. QED
    BY <1>2, <1>7, <1>8, <1>9, ZenonT(60) DEF CodeInv

\* Loading a contract keeps the invariant, and loads deployed code if there is any.
LEMMA LoadCodeInv ==
    ASSUME CodeInv, NEW a \in Addresses, NEW caller, ws_cached_contract(caller, a),
           UNCHANGED <<deployed, written, version, nonce, index>>,
           caller = "call" => code(a) # Absent
    PROVE  CodeInv'
  <1>1. /\ cache \in [Addresses -> Codes \cup {Absent}]
        /\ metadata \in [Addresses -> Codes \cup {Absent}]
        /\ cache' = cache \/ (code(a) # Absent /\ cache' = [cache EXCEPT ![a] = code(a)])
        /\ metadata' = metadata \/ (code(a) # Absent /\ metadata' = [metadata EXCEPT ![a] = code(a)])
    BY ZenonT(60) DEF CodeInv, CodeTypeOK, ws_cached_contract, CacheTo
  <1>2. code(a) \in Codes \cup {Absent}
    BY ZenonT(60) DEF CodeInv, CodeTypeOK, code
  <1>3. \A b \in Addresses : code(b)' = code(b)
    BY ZenonT(60) DEF code
  <1>4. CodeTypeOK'
    BY <1>1, <1>2 DEF CodeInv, CodeTypeOK
  <1>5. \A b \in Addresses :
            /\ cache'[b] = cache[b] \/ (code(b) # Absent /\ cache'[b] = code(b))
            /\ metadata'[b] = metadata[b] \/ (code(b) # Absent /\ metadata'[b] = code(b))
    BY <1>1, ZenonT(60)
  <1>6. AddressesAreFresh'
    BY <1>3, <1>5, ZenonT(60) DEF CodeInv, AddressesAreFresh
  <1>7. CacheMatchesDeployedCode'
    BY <1>3, <1>5, ZenonT(60) DEF CodeInv, CacheMatchesDeployedCode
  <1>8. ASSUME NEW k \in {"call", "internal"}, NEW b \in Addresses, NEW c \in Codes, NEW m \in Codes,
               loaded' = <<k, b, c, m>>, code(b) # Absent
        PROVE  c = code(b) /\ m = code(b)
    <2>1. \/ /\ cache[a] # Absent /\ metadata[a] # Absent
             /\ loaded' = <<caller, a, cache[a], metadata[a]>>
          \/ loaded' = <<caller, a, code(a), code(a)>>
      BY ZenonT(60) DEF ws_cached_contract, Cached
    <2>2. a = b /\ ((c = cache[a] /\ m = metadata[a] /\ c # Absent /\ m # Absent) \/ (c = code(a) /\ m = code(a)))
      BY <1>8, <2>1, ZenonT(60)
    <2>. QED
      BY <1>8, <2>2, ZenonT(60) DEF CodeInv, CacheMatchesDeployedCode
  <1>9. ASSUME NEW b \in Addresses, NEW c \in Codes, NEW m \in Codes, loaded' = <<"call", b, c, m>>
        PROVE  caller = "call" /\ a = b
    BY <1>9, ZenonT(60) DEF ws_cached_contract
  <1>10. CallsRunDeployedCode'
    BY <1>3, <1>8, <1>9, ZenonT(60) DEF CallsRunDeployedCode
  <1>11. GasIndependentOfCache'
    BY <1>3, <1>8, ZenonT(60) DEF GasIndependentOfCache
  <1>12. OnlyValidatedCodeRuns'
    <2>. SUFFICES ASSUME NEW k \in {"call", "internal"}, NEW b \in Addresses,
                         NEW c \in Codes \cup Invalid, NEW m \in Codes \cup Invalid,
                         loaded' = <<k, b, c, m>>
                  PROVE  c \in Codes /\ m \in Codes
      BY ZenonT(60) DEF OnlyValidatedCodeRuns
    <2>1. \/ c = cache[a] /\ m = metadata[a] /\ c # Absent /\ m # Absent
          \/ c = code(a) /\ m = code(a) /\ code(a) # Absent
      BY ZenonT(60) DEF ws_cached_contract, Cached
    <2>. QED
      BY <1>1, <1>2, <2>1, ZenonT(60)
  <1>. QED
    BY <1>4, <1>6, <1>7, <1>10, <1>11, <1>12, ZenonT(60) DEF CodeInv

\* No step breaks the invariant.
LEMMA NextCodeInv == CodeInv /\ [CodeNext]_codeVars => CodeInv'
  <1>. SUFFICES ASSUME CodeInv, [CodeNext]_codeVars PROVE CodeInv'
    BY ZenonT(60)
  <1>0. /\ deployed \in [Addresses -> Codes \cup {Absent}]
        /\ cache \in [Addresses -> Codes \cup {Absent}]
        /\ metadata \in [Addresses -> Codes \cup {Absent}]
        /\ \A a \in Addresses : a[1] > nonce => cache[a] = Absent /\ metadata[a] = Absent
        /\ \A a \in Addresses : code(a) # Absent =>
              cache[a] \in {Absent, code(a)} /\ metadata[a] \in {Absent, code(a)}
    BY ZenonT(60) DEF CodeInv, CodeTypeOK, AddressesAreFresh, CacheMatchesDeployedCode
  <1>1. \A a \in Addresses : deployed[a] # Absent => code(a) = deployed[a]
    BY ZenonT(60) DEF CodeInv, AddressesAreFresh, code
  <1>2. ASSUME NEW c \in Codes, DeployCommand(c) PROVE CodeInv'
    BY <1>2, DeployCodeInv, ZenonT(60)
  <1>3. ASSUME NEW c \in Codes, DeployExhaustsGas(c) PROVE CodeInv'
    <2>. DEFINE d == contract_address
    <2>1. d \in Addresses /\ d[1] = nonce /\ nonce \in Nat
      BY AddressOfNonce DEF CodeInv, CodeTypeOK
    <2>2. /\ cache' = cache \/ cache' = [cache EXCEPT ![d] = c]
          /\ metadata' = metadata \/ metadata' = [metadata EXCEPT ![d] = c]
          /\ NextTransaction(deployed) /\ loaded' = <<>>
      BY <1>3, ZenonT(60) DEF DeployExhaustsGas, CacheTo
    <2>. HIDE DEF d
    <2>3. /\ cache' \in [Addresses -> Codes \cup {Absent}]
          /\ metadata' \in [Addresses -> Codes \cup {Absent}]
      BY <1>0, <2>1, <2>2, ZenonT(60)
    <2>4. \A a \in Addresses : a # d => cache'[a] = cache[a] /\ metadata'[a] = metadata[a]
      BY <1>0, <2>2, ZenonT(60)
    <2>5. deployed[d] = Absent
      BY <2>1, ZenonT(60) DEF CodeInv, AddressesAreFresh
    <2>6. \A a \in Addresses : a[1] > nonce => cache'[a] = Absent /\ metadata'[a] = Absent
      BY <1>0, <2>1, <2>4
    <2>7. \A a \in Addresses : deployed[a] # Absent =>
              cache'[a] \in {Absent, deployed[a]} /\ metadata'[a] \in {Absent, deployed[a]}
      BY <1>0, <1>1, <2>4, <2>5, ZenonT(60)
    <2>. QED
      BY <1>0, <2>2, <2>3, <2>6, <2>7, NextTransactionCodeInv, ZenonT(60)
  <1>4. ASSUME NEW a \in Addresses, CallCommand(a) PROVE CodeInv'
    BY <1>4, LoadCodeInv, ZenonT(60) DEF CallCommand, HasCBI
  <1>5. ASSUME NEW a \in Addresses, InternalCall(a) PROVE CodeInv'
    BY <1>5, LoadCodeInv, ZenonT(60) DEF InternalCall
  <1>6. CASE Abort
    <2>1. \A a \in Addresses : deployed[a] # Absent =>
              cache[a] \in {Absent, deployed[a]} /\ metadata[a] \in {Absent, deployed[a]}
      BY <1>0, <1>1, ZenonT(60)
    <2>. QED
      BY <1>0, <1>6, <2>1, NextTransactionCodeInv, ZenonT(60) DEF Abort
  <1>7. CASE Commit
    <2>. DEFINE s == [a \in Addresses |-> code(a)]
    <2>1. s \in [Addresses -> Codes \cup {Absent}] /\ \A a \in Addresses : s[a] = code(a)
      BY ZenonT(60) DEF CodeInv, CodeTypeOK, code
    <2>2. NextTransaction(s) /\ loaded' = <<>> /\ UNCHANGED <<cache, metadata>>
      BY <1>7, ZenonT(60) DEF Commit
    <2>. HIDE DEF s
    <2>. QED
      BY <1>0, <2>1, <2>2, NextTransactionCodeInv, ZenonT(60)
  <1>8. CASE UNCHANGED codeVars
    <2>1. \A a \in Addresses : code(a)' = code(a)
      BY <1>8, ZenonT(60) DEF codeVars, code
    <2>2. CodeTypeOK'
      BY <1>8, ZenonT(60) DEF codeVars, CodeInv, CodeTypeOK
    <2>3. AddressesAreFresh' /\ CacheMatchesDeployedCode'
      BY <1>8, <2>1, ZenonT(60) DEF codeVars, CodeInv, AddressesAreFresh, CacheMatchesDeployedCode
    <2>4. CallsRunDeployedCode' /\ GasIndependentOfCache' /\ OnlyValidatedCodeRuns'
      BY <1>8, <2>1, ZenonT(60)
        DEF codeVars, CodeInv, CallsRunDeployedCode, GasIndependentOfCache, OnlyValidatedCodeRuns
    <2>. QED
      BY <2>2, <2>3, <2>4, ZenonT(60) DEF CodeInv
  <1>. QED
    BY <1>2, <1>3, <1>4, <1>5, <1>6, <1>7, <1>8, ZenonT(60)
      DEF CodeNext, DeployCommand, DeployExhaustsGas, Validated, from_bytecode_checked,
        validate_proper_contract, Invalid

\* The invariant holds in every reachable state.
LEMMA CodeInvariance == CodeSpec => []CodeInv
  BY InitCodeInv, NextCodeInv, PTL DEF CodeSpec

\* The module cached for a deployed contract is compiled from the deployed code, however
\* many deployments failed after caching theirs (DeployInstance::deploy, abort).
THEOREM CacheIsSound == CodeSpec => []CacheMatchesDeployedCode
  BY CodeInvariance, PTL DEF CodeInv

\* A Call command, which checks the CBI version before it loads, runs the code that is
\* deployed at its target (CallInstance::instantiate, ws_cached_contract).
THEOREM CallsAreSound == CodeSpec => []CallsRunDeployedCode
  BY CodeInvariance, PTL DEF CodeInv

\* What a call pays for loading a deployed contract does not depend on the cache of the
\* node that executes it, nor on failures of the disk (Cache::store, ws_cached_contract).
THEOREM LoadingCostsTheSame == CodeSpec => []GasIndependentOfCache
  BY CodeInvariance, PTL DEF CodeInv

\* A transaction, reverted or not, uses up its addresses: those still to come are free in
\* the world state and in the cache (deploy, charge).
THEOREM AddressesStayFresh == CodeSpec => []AddressesAreFresh
  BY CodeInvariance, PTL DEF CodeInv

\* Whatever a call loads passed the checks of DeployInstance::instantiate, though
\* from_cache and from_bytecode_unchecked make none.
THEOREM ContractsAreValidated == CodeSpec => []OnlyValidatedCodeRuns
  BY CodeInvariance, PTL DEF CodeInv

=============================================================================
