---------------------------- MODULE RewardEmission ----------------------------
(***************************************************************************)
(* What a pool's rewards may cost.  Two records are kept beside the pool,  *)
(* for each reward: the Q64.64 amount its emission rate has provided while *)
(* there was liquidity in range (emitted), and the amount taken from its   *)
(* vault (paid).                                                           *)
(***************************************************************************)
EXTENDS WhirlpoolProperties

VARIABLES emitted, paid

emissionvars == <<vars, emitted, paid>>

\* What an instruction's seconds emit, at the rate and with the liquidity they
\* ran with.
Emission(i) ==
  IF liquidity = 0 THEN 0
  ELSE (reward_last_updated_timestamp' - reward_last_updated_timestamp)
       * reward_infos[i].emissions_per_second_x64

Payment(i) ==
  IF reward_vault'[i] < reward_vault[i] THEN reward_vault[i] - reward_vault'[i] ELSE 0

RecordsInit ==
  /\ emitted = [i \in RewardIndex |-> 0]
  /\ paid = [i \in RewardIndex |-> 0]

Recorded ==
  /\ emitted' = [i \in RewardIndex |-> emitted[i] + Emission(i)]
  /\ paid' = [i \in RewardIndex |-> paid[i] + Payment(i)]

EmissionSpec == Init /\ RecordsInit /\ [][Next /\ Recorded]_emissionvars

\* All that positions can still claim of a reward and all they were paid was
\* emitted: no second of an emission is counted twice, at the wrong rate, or
\* for liquidity that was not in range (whirlpool_manager.rs).
RewardsWithinEmission ==
  Idle => \A i \in RewardIndex :
            (Sum([p \in PositionIds |-> RewardOf(p, i)]) + paid[i]) * TO_Q64 <= emitted[i]

\* A reward that a position has earned falls only when it collects, and then by
\* exactly what its vault pays out: what a vault that is too short cannot pay stays
\* owed (collect_reward.rs:76), and no settlement drops any of it, as long as fewer
\* than 2^64 tokens were emitted in all (position_manager.rs:42).
RewardsNeverForfeited ==
  [][ \A p \in PositionIds, i \in RewardIndex :
        emitted'[i] < TO_Q128 /\ RewardDue(p, i)' < RewardDue(p, i) =>
          /\ CollectReward(p, i)
          /\ RewardDue(p, i)' = RewardDue(p, i) - (reward_vault[i] - reward_vault'[i]) ]_emissionvars
=============================================================================
