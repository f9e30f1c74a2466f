---------------------------- MODULE ContractCode ----------------------------
(***************************************************************************)
(* The code of contracts: what Deploy writes, what the smart contract      *)
(* cache on disk keeps across transactions, and what a call loads          *)
(* (commands/account.rs, contract/module.rs, contract/wasmer/cache.rs,     *)
(* gas/operations.rs).  The transactions are those of one signer, whose    *)
(* nonce grows with every transaction that is charged.                     *)
(***************************************************************************)
EXTENDS Naturals

CONSTANTS
    Codes,        \* bytecodes of valid contracts
    NotModules,   \* bytecodes that do not compile or have a disallowed opcode
    NotContracts, \* bytecodes of modules with no entry point, or that cannot be instantiated
    Absent,       \* Option::None: no code, no file
    MaxNonce,     \* bound on the transactions
    MaxDeploys    \* bound on the Deploy commands of one transaction

Invalid == NotModules \cup NotContracts

ASSUME CodesAssumption == Absent \notin Codes \cup Invalid /\ Codes \cap Invalid = {}
ASSUME BoundsAssumption == MaxNonce \in Nat /\ MaxDeploys \in Nat

\* A contract address is a hash of the signer, the nonce and (V2) the command's index.
Addresses == (0 .. MaxNonce) \X (0 .. MaxDeploys)

VARIABLES
    deployed, \* address -> code in the world state or Absent, with its CBI version
    written,  \* the same, in the write set
    cache,    \* address -> compiled module on disk or Absent
    metadata, \* address -> code whose length is in the metadata file, or Absent
    version,  \* of the transaction, 1 or 2
    nonce,
    index,    \* of the command
    loaded    \* by the last step: <<"call" or "internal", address, code, code whose
              \* length is charged>>, or <<>>

codeVars == <<deployed, written, cache, metadata, version, nonce, index, loaded>>

NoCode == [a \in Addresses |-> Absent]

code(a) == IF written[a] # Absent THEN written[a] ELSE deployed[a]

contract_address == IF version = 1 THEN <<nonce, 0>> ELSE <<nonce, index>>

CodeInit ==
    /\ deployed = NoCode /\ written = NoCode /\ cache = NoCode /\ metadata = NoCode
    /\ version \in {1, 2}
    /\ nonce = 0 /\ index = 0
    /\ loaded = <<>>

\* Cache::store writes the module, then the metadata. It may fail before either: try_write
\* finds the lock taken, or the disk refuses a file. Nobody looks at its result.
CacheTo(a, c) ==
    \/ UNCHANGED <<cache, metadata>>
    \/ cache' = [cache EXCEPT ![a] = c] /\ UNCHANGED metadata
    \/ cache' = [cache EXCEPT ![a] = c] /\ metadata' = [metadata EXCEPT ![a] = c]

\* Mutant: a transaction that fails does not use up its nonce.
NonceOfSuccessOnly(state) ==
    /\ deployed' = state
    /\ written' = NoCode
    /\ nonce < MaxNonce /\ nonce' = IF state = deployed THEN nonce ELSE nonce + 1
    /\ index' = 0
    /\ version' \in {1, 2}

\* commit_to_world_state, and the charge that moves the nonce on.
NextTransaction(state) ==
    /\ deployed' = state
    /\ written' = NoCode
    /\ nonce < MaxNonce /\ nonce' = nonce + 1
    /\ index' = 0
    /\ version' \in {1, 2}

\* A command fails: abort reverts the write set, not the cache.
Abort == NextTransaction(deployed) /\ loaded' = <<>> /\ UNCHANGED <<cache, metadata>>

Commit ==
    /\ NextTransaction([a \in Addresses |-> code(a)])
    /\ loaded' = <<>>
    /\ UNCHANGED <<cache, metadata>>

\* Mutant: a contract can be overwritten.
OverwriteAllowed(a) == TRUE

\* The address is free: no CBI version was set.
NotDeployed(a) == code(a) = Absent

\* Mutant: bytecode is compiled unchecked on deployment too.
UncheckedOnDeploy(c) == TRUE

\* The bytecode compiles, with the opcodes checked.
from_bytecode_checked(c) == c \notin NotModules

\* The module exports the entry point, and has it when instantiated with imports that
\* do nothing.
validate_proper_contract(c) == c \notin NotContracts

\* The checks of DeployInstance::instantiate on bytecode. Loading makes neither.
Validated(c) == from_bytecode_checked(c) /\ validate_proper_contract(c)

\* DeployInstance::deploy caches the module before it writes and checks the gas. Bytecode
\* that is refused, or an address in use, is an Abort.
DeployCommand(c) ==
    /\ index < MaxDeploys
    /\ NotDeployed(contract_address)
    /\ Validated(c)
    /\ CacheTo(contract_address, c)
    /\ written' = [written EXCEPT ![contract_address] = c]
    /\ index' = index + 1
    /\ loaded' = <<>>
    /\ UNCHANGED <<deployed, version, nonce>>

DeployExhaustsGas(c) ==
    /\ NotDeployed(contract_address)
    /\ Validated(c)
    /\ CacheTo(contract_address, c)
    /\ NextTransaction(deployed)
    /\ loaded' = <<>>

\* Cache::load needs both files.
Cached(a) == cache[a] # Absent /\ metadata[a] # Absent

\* Mutant: the module is cached under the address of the next deployment.
CachedElsewhere(kind, a) ==
    \/ /\ Cached(a)
       /\ loaded' = <<kind, a, cache[a], metadata[a]>>
       /\ UNCHANGED <<cache, metadata>>
    \/ /\ code(a) # Absent
       /\ loaded' = <<kind, a, code(a), code(a)>>
       /\ CacheTo(contract_address, code(a))

\* ws_cached_contract: from the cache, where try_read may fail or the metadata be missing,
\* or compiled from the code in the world state and cached. The cost is that of reading the
\* code: its length is in the metadata, or known from the world state.
ws_cached_contract(kind, a) ==
    \/ /\ Cached(a)
       /\ loaded' = <<kind, a, cache[a], metadata[a]>>
       /\ UNCHANGED <<cache, metadata>>
    \/ /\ code(a) # Absent
       /\ loaded' = <<kind, a, code(a), code(a)>>
       /\ CacheTo(a, code(a))

\* Mutant: only the loading decides.
HasCBIUnchecked(a) == TRUE

\* CallInstance::instantiate checks the CBI version before it loads.
HasCBI(a) == code(a) # Absent

CallCommand(a) ==
    /\ HasCBI(a)
    /\ ws_cached_contract("call", a)
    /\ UNCHANGED <<deployed, written, version, nonce, index>>

\* The host function call loads without looking at the CBI version.
InternalCall(a) ==
    /\ ws_cached_contract("internal", a)
    /\ UNCHANGED <<deployed, written, version, nonce, index>>

CodeNext ==
    \/ \E c \in Codes \cup Invalid : DeployCommand(c) \/ DeployExhaustsGas(c)
    \/ \E a \in Addresses : CallCommand(a) \/ InternalCall(a)
    \/ Abort
    \/ Commit

CodeSpec == CodeInit /\ [][CodeNext]_codeVars

-----------------------------------------------------------------------------

\* The types of the variables.
CodeTypeOK ==
    /\ deployed \in [Addresses -> Codes \cup {Absent}]
    /\ written \in [Addresses -> Codes \cup {Absent}]
    /\ cache \in [Addresses -> Codes \cup {Absent}]
    /\ metadata \in [Addresses -> Codes \cup {Absent}]
    /\ version \in {1, 2}
    /\ nonce \in 0 .. MaxNonce
    /\ index \in 0 .. MaxDeploys

\* An address that no transaction has reached has no code, deployed or cached, and none
\* of the current transaction has any in the cache that is not deployed.
AddressesAreFresh ==
    \A a \in Addresses :
        /\ a[1] > nonce => code(a) = Absent /\ cache[a] = Absent /\ metadata[a] = Absent
        /\ a[1] = nonce => deployed[a] = Absent
        /\ a[1] = nonce /\ code(a) = Absent => cache[a] = Absent /\ metadata[a] = Absent
        /\ a[1] # nonce => written[a] = Absent

\* Whatever transactions did to the cache on disk, reverted ones included, the module
\* and the metadata it has for a deployed contract are of the deployed code.
CacheMatchesDeployedCode ==
    \A a \in Addresses : code(a) # Absent =>
        cache[a] \in {Absent, code(a)} /\ metadata[a] \in {Absent, code(a)}

\* A Call command runs the code that is deployed at its target and no other.
CallsRunDeployedCode ==
    \A a \in Addresses, c, m \in Codes : loaded = <<"call", a, c, m>> => c = code(a)

\* The gas charged for loading a deployed contract is for the length of its code, whether
\* the module came from the cache or was compiled: nodes whose caches differ, because a
\* store failed or a reverted deployment left files, charge the same.
GasIndependentOfCache ==
    \A kind \in {"call", "internal"}, a \in Addresses, c, m \in Codes :
        loaded = <<kind, a, c, m>> /\ code(a) # Absent => m = code(a)

\* Loading does not check bytecode again, from the cache or from the world state. All the
\* same no call, internal or not, runs anything but a contract that passed the checks of a
\* deployment.
OnlyValidatedCodeRuns ==
    \A kind \in {"call", "internal"}, a \in Addresses, c, m \in Codes \cup Invalid :
        loaded = <<kind, a, c, m>> => c \in Codes /\ m \in Codes

\* The comment in CallInstance::instantiate: a loaded contract is one that was deployed
\* successfully. An internal call does the same.
InternalCallsRunDeployedCode ==
    \A a \in Addresses, c, m \in Codes : loaded = <<"internal", a, c, m>> => c = code(a)

=============================================================================
