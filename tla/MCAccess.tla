------------------------------- MODULE MCAccess -------------------------------
(***************************************************************************)
(* Who may act: on configurations and pools through the authorities        *)
(* (Governance), and on positions through their tokens (PositionToken).    *)
(* No instruction checks both kinds of rights, so that a behaviour is one  *)
(* of one of the two; ops bounds its length.                               *)
(*                                                                         *)
(* Of the configurations one exists, with its authorities apart; others    *)
(* may get a single key for everything.  Positions and their tokens start  *)
(* from nothing.                                                           *)
(***************************************************************************)
EXTENDS Governance, PositionToken, TLC

CONSTANTS
  k1, k2, k3, c1, c2,
  MaxOps,                  \* bound: instructions that govern
  MaxTokenOps              \* bound: steps with positions and tokens

VARIABLES ops, machine

Symmetry == Permutations(Person) \cup Permutations(Position)

Roles(fee, collect, others) ==
  [fee_authority |-> fee, collect_protocol_fees_authority |-> collect,
   reward_emissions_super_authority |-> others, pool_creator_authority |-> others]

MCAuthorities == {Roles(k1, k2, k3), Roles(k3, k3, k3)}

MCPool == <<c1, 1, 2, 1>>

\* The first configuration has a fee tier, and a pool or none.
GovernanceInit ==
  /\ configs = [c \in {c1} |->
       [fee_authority |-> k1, collect_protocol_fees_authority |-> k2,
        reward_emissions_super_authority |-> k2, pool_creator_authority |-> k2,
        default_protocol_fee_rate |-> 1]]
  /\ fee_tiers = [t \in {<<c1, 1>>} |->
       [whirlpools_config |-> c1, tick_spacing |-> 1, default_fee_rate |-> 2]]
  /\ pools \in {[w \in {} |-> Nobody], [w \in {MCPool} |-> NewPool(c1, <<c1, 1>>, 1, 2, 1)]}
  /\ signer = Nobody

MCInit ==
  /\ \/ machine = "governance" /\ GovernanceInit
     \/ machine = "tokens" /\ Init
  /\ TokenInit
  /\ ops = 0

GovernanceNext == machine = "governance" /\ ops < MaxOps /\ Next /\ UNCHANGED tokenvars
TokensNext     == machine = "tokens" /\ ops < MaxTokenOps /\ PositionTokenNext /\ UNCHANGED vars

MCNext == (GovernanceNext \/ TokensNext) /\ ops' = ops + 1 /\ UNCHANGED machine

MCSpec == MCInit /\ [][MCNext]_<<ops, machine, vars, tokenvars>>
=============================================================================
