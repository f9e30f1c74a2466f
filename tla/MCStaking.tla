----------------------------- MODULE MCStaking -----------------------------
(***************************************************************************)
(* Small instances of Staking for TLC.                                     *)
(***************************************************************************)
EXTENDS Staking, TLC

CONSTANTS a, b, c

\* A validator that proposes all its blocks is paid half of its power.
MCIssuanceRate == [n \in 0 .. MaxEpoch |-> 1]

AccountsABC == {a, b, c}
AccountsAB == {a, b}
OperatorA == {a}
OperatorsAB == {a, b}
Performance == {0, 2}
SmallAmounts == {1, 2}
OneAmount == {1}
RatesAroundLimit == {50, 100, 101}
TwoAndOne == (a :> 2 @@ b :> 1)
OneRate == {50}
DelegatorsFunded == (a :> 1 @@ b :> 2 @@ c :> 1)

\* No step reads the exit code of the command before it.
WithoutError == <<ledger, validators, phase, auto_stakes>>

\* Of the previous validator set steps read the stakes, and of the last changes nothing.
\* What else it holds was checked when it was the validator set.
WhatStepsRead ==
    <<ledger, vp, [op \in Keys(pvp) |-> pvp[op].stakes], epoch, phase, auto_stakes>>

=============================================================================
