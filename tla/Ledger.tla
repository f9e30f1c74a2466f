------------------------------- MODULE Ledger -------------------------------
(***************************************************************************)
(* The vocabulary that the transition function and its abstract            *)
(* specification share: transactions, blocks and world states.             *)
(*                                                                         *)
(* A command is a record                                                   *)
(*   kind    "Transfer", "Call", "TopUpDeposit" or "NextEpoch"             *)
(*   to      the recipient of a transfer, the target of a call             *)
(*   amount  tokens it moves                                               *)
(*   pay     tokens a called contract sends back to the signer             *)
(*   defer   amounts of the TopUpDeposits a called contract defers         *)
(*   error   with which a called contract fails, or None                   *)
(* What a contract does is an input, so a call carries it.  TopUpDeposit   *)
(* stands for the staking commands: it moves tokens of its actor into the  *)
(* storage of the network account.                                         *)
(***************************************************************************)
EXTENDS Arith, FiniteSets, Sequences

CONSTANTS
    Accounts,
    None,
    Txns,         \* inputs: transactions
    Blocks,       \* inputs: blockchain parameters
    Costs,        \* inputs: gas a command may cost
    TreasuryNum,  \* TREASURY_CUT_OF_BASE_FEE_NUM
    TreasuryDenom,\* TREASURY_CUT_OF_BASE_FEE_DENOM
    Geneses,      \* inputs: world states at the start
    MaxNonce      \* bound: transactions are submitted up to this nonce

Amounts == U64

Kinds == {"Transfer", "Call", "TopUpDeposit", "NextEpoch"}

Command ==
    [kind : Kinds, to : Accounts, amount : Amounts,
     pay : Amounts, defer : Seq(Amounts), error : {None, "InvalidCBI", "RuntimeError"}]

Transaction ==
    [version : {1, 2}, signer : Accounts, nonce : U64, gas_limit : U64,
     priority_fee : U64, size : U64, commands : Seq(Command)]

Block ==
    [base_fee : U64, proposer : Accounts, treasury : Accounts, performance : BOOLEAN]

\* deposit stands for the storage of the network account.
WorldState ==
    [balance : [Accounts -> U64], deposit : [Accounts -> U64], nonce : [Accounts -> U64],
     epoch : Nat, version : {1, 2}]

\* The names of the errors that end a transition or a command.
Errors ==
    {"PreExecutionGasExhausted", "WrongNonce", "NotEnoughBalanceForGasLimit",
     "NotEnoughBalanceForTransfer", "InvalidCBI", "RuntimeError", "InternalRuntimeError",
     "ExecutionProperGasExhausted", "InvalidNextEpochCommand", "FailedWorldStateUpgrade"}

ASSUME LedgerAssumption ==
    /\ IsFiniteSet(Accounts)
    /\ None \notin U64
    /\ None \notin Errors
    /\ None \notin WorldState
    /\ None \notin Transaction \X Block
    /\ Txns \subseteq Transaction
    /\ Blocks \subseteq Block
    /\ Costs \subseteq U64
    /\ TreasuryNum \in Nat \ {0}
    /\ TreasuryDenom \in Nat \ {0}
    /\ TreasuryNum <= TreasuryDenom
    /\ Geneses \subseteq WorldState
    /\ MaxNonce \in U64

\* tx_inclusion_cost: the transaction and a minimal receipt per command, at one
\* unit of gas per unit of size.
tx_inclusion_cost(tx) == saturating_add(tx.size, Len(tx.commands))

=============================================================================
