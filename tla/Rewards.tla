------------------------------ MODULE Rewards ------------------------------
(***************************************************************************)
(* The reward formulas of rewards_formulas.rs.  The u128 intermediates of  *)
(* the code are wide enough for every product below and are modelled as    *)
(* naturals; the final `as u64` is a remainder.                            *)
(***************************************************************************)
EXTENDS Arith

CONSTANTS
    MaxEpoch,     \* bound: the last epoch number that is looked at
    IssuanceRate, \* numerator of the issuance per unit of power, by epoch
    IssuanceDenom \* its denominator, the same for every epoch

ASSUME IssuanceAssumption ==
    /\ MaxEpoch \in Nat
    /\ IssuanceRate \in [0 .. MaxEpoch -> Nat]
    /\ IssuanceDenom \in Nat \ {0}

\* Issuance of an epoch for a pool of this power: <<numerator, denominator>>.
issuance(epoch, pool_power) == <<pool_power * IssuanceRate[epoch], IssuanceDenom>>

pool_reward(epoch, pool_power, actual, expected) ==
    LET frac == issuance(epoch, pool_power)
    IN  IF expected = 0 THEN 0
        ELSE IF actual > expected THEN as_u64(frac[1] \div frac[2])
        ELSE as_u64((frac[1] * actual) \div (frac[2] * expected))

\* What a stake is paid, and the commission it leaves to the operator.
stake_reward(reward_of_pool, commission_rate, stake_power, total_stakes) ==
    IF total_stakes = 0 THEN [reward |-> 0, commission |-> 0]
    ELSE LET gross == (reward_of_pool * stake_power) \div total_stakes
             fee   == (commission_rate * reward_of_pool * stake_power)
                          \div (100 * total_stakes)
         IN  [reward |-> as_u64(saturating_sub(gross, fee)), commission |-> as_u64(fee)]

=============================================================================
