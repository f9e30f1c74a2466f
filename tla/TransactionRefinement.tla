----------------------- MODULE TransactionRefinement -----------------------
(***************************************************************************)
(* The transition function against what it promises its caller: the        *)
(* ledger is the same, and a request is open for as long as the            *)
(* transition function is at work on it.                                   *)
(***************************************************************************)
EXTENDS Transaction

Atomic == INSTANCE AtomicTransaction WITH
              request <- IF phase = "idle" THEN None ELSE <<tx, bd>>

\* The phases, the cache, the stack and the abort path together make a transaction
\* atomic: the code implements AtomicTransaction.
TransactionsAreAtomic == Atomic!Spec

=============================================================================
