------------------------------ MODULE GasCosts ------------------------------
(***************************************************************************)
(* What an operation costs: CostChange (gas/cost_change.rs), the prices of  *)
(* gas/constants.rs and the formulas of gas/operations.rs.  Values and keys *)
(* are their lengths.  An item is a field of an account or a key in the     *)
(* storage of one: <<"balance", 33>>, <<"cbi", 33>>, <<"code", 33>> or      *)
(* <<"storage", key length>>.                                               *)
(***************************************************************************)
EXTENDS Arith, Sequences, Folds

CostChange == [deduct : U64, reward : U64]

deduct(value) == [deduct |-> value, reward |-> 0]

reward(value) == [deduct |-> 0, reward |-> value]

\* impl Add and AddAssign: each counter saturates on its own.
Add(a, b) ==
    [deduct |-> saturating_add(a.deduct, b.deduct), reward |-> saturating_add(a.reward, b.reward)]

\* CostChange::net_cost().0; nothing reads the other half of that pair.
net_cost(c) == saturating_sub(c.deduct, c.reward)

-----------------------------------------------------------------------------

\* The Wasm linear memory.
ceil_div_8(len) == saturating_add(len, 7) \div 8

\* Mutant: an empty value is read for nothing.
FreeWhenEmpty(len) == saturating_mul(ceil_div_8(len), 3)

\* wasm_memory_read_cost; wasm_memory_write_cost has the same price and the same body.
wasm_memory_cost(len) == max(saturating_mul(ceil_div_8(len), 3), 1)

\* Bytes in the block.
blockchain_storage_cost(len) == saturating_mul(len, 30)

blockchain_log_cost(topic, value) ==
    LET log == saturating_add(topic, value)
    IN  saturating_add(saturating_add(saturating_mul(ceil_div_8(log), 3), saturating_mul(topic, 16)),
                       blockchain_storage_cost(log))

\* sha256, keccak256 and ripemd; the signature check costs 1_400_000 more.
hash_cost(len) == 16 * len

verify_ed25519_cost(len) == saturating_add(1400000, hash_cost(len))

-----------------------------------------------------------------------------

\* The tries of the world state.
ACCOUNT_TRIE_KEY_LENGTH == 33

get_cost_traverse(key_len) == saturating_mul(key_len, 20)

get_cost_read(len) == saturating_mul(len, 50)

discount_code_read(cost) == saturating_mul(cost, 50) \div 100

\* Half of the price of 2500 for each byte of the old value, and of the key if no new
\* value takes its place.
set_cost_delete_old_value(key_len, old, new) ==
    IF new > 0 THEN saturating_mul(old, 125000) \div 100
    ELSE IF old > 0 THEN saturating_mul(saturating_add(key_len, old), 125000) \div 100
    ELSE 0

set_cost_write_new_value(len) == saturating_mul(len, 2500)

set_cost_rehash(key_len) == saturating_mul(key_len, 130)

\* V1 counts the address once more.
storage_trie_traversed_key_len(version, key_len) ==
    ACCOUNT_TRIE_KEY_LENGTH + key_len + (IF version = "V1" THEN 32 ELSE 0)

traversed_key_len(version, item) ==
    IF item[1] = "storage" THEN storage_trie_traversed_key_len(version, item[2]) ELSE item[2]

\* ws_storage_data, ws_balance, ws_cbi_version, ws_cached_contract_code: an item of
\* length len is read.
ws_get(version, item, len) ==
    LET cost == saturating_add(get_cost_traverse(traversed_key_len(version, item)), get_cost_read(len))
    IN  deduct(IF item[1] = "code" THEN discount_code_read(cost) ELSE cost)

ws_contains(version, item) == deduct(get_cost_traverse(traversed_key_len(version, item)))

\* ws_set_storage_data, ws_set_balance, ws_set_cbi_version, ws_set_contract_code.
ws_set(version, item, old, new) ==
    LET key_len == traversed_key_len(version, item)
        refund  == reward(set_cost_delete_old_value(key_len, old, new))
        write   == deduct(set_cost_write_new_value(new))
        rehash  == deduct(set_cost_rehash(key_len))
    IN  Add(Add(Add(ws_get(version, item, old), refund), write), rehash)

-----------------------------------------------------------------------------

cmd_recp_min_size_v2(kind) ==
    IF kind \in {"Call", "WithdrawDeposit", "StakeDeposit", "UnstakeDeposit"} THEN 17 ELSE 9

\* minimum_receipt_size_v1, minimum_receipt_size_v2.
minimum_receipt_size(version, kinds) ==
    IF version = "V1"
    THEN saturating_add(4, saturating_mul(17, Len(kinds)))
    ELSE saturating_add(13, MapThenFoldSet(saturating_add, 0, LAMBDA i : cmd_recp_min_size_v2(kinds[i]),
                                           LAMBDA S : CHOOSE i \in S : TRUE, DOMAIN kinds))

\* Five times a balance or nonce is read and written by the phases of a transaction.
rw_key_cost ==
    saturating_mul(saturating_add(saturating_add(saturating_add(
        get_cost_traverse(ACCOUNT_TRIE_KEY_LENGTH), get_cost_read(8)),
        set_cost_write_new_value(8)), set_cost_rehash(ACCOUNT_TRIE_KEY_LENGTH)), 5)

\* Mutant: only the bytes in the block are paid for.
InclusionWithoutKeys(version, tx_size, kinds) ==
    blockchain_storage_cost(saturating_add(tx_size, minimum_receipt_size(version, kinds)))

\* tx_inclusion_cost_v1, tx_inclusion_cost_v2.
tx_inclusion_cost(version, tx_size, kinds) ==
    saturating_add(
        blockchain_storage_cost(saturating_add(tx_size, minimum_receipt_size(version, kinds))),
        rw_key_cost)

=============================================================================
