------------------------------ MODULE Governance ------------------------------
(***************************************************************************)
(* Who may change what: configurations, fee tiers, pools and the keys that *)
(* govern them (state/config.rs, state/fee_tier.rs, the account            *)
(* constraints of the initialize_ and set_ instructions and of             *)
(* collect_protocol_fees).  Several configurations live side by side, and  *)
(* the caller of an instruction chooses every account passed to it, so     *)
(* that only the constraints keep the pools of one configuration out of    *)
(* the hands of another's authorities.                                     *)
(*                                                                         *)
(* An account that exists is in the domain of the function that holds it.  *)
(* Accounts at derived addresses (a fee tier, a pool) are named by the     *)
(* seeds of the address.  What a pool keeps on prices and positions is in  *)
(* module Whirlpool; of its effects only the protocol's fees matter here.  *)
(***************************************************************************)
EXTENDS Integers

CONSTANTS
  Key,                     \* keys that can sign
  Config,                  \* addresses of configurations
  Mint,                    \* token mints, ordered as keys are
  RewardMint,              \* mints a reward may be paid in
  NoMint,                  \* Pubkey::default(), the address of no mint
  NUM_REWARDS, MAX_FEE_RATE, MAX_PROTOCOL_FEE_RATE,
  (* the arguments instructions are called with *)
  ConfigAuthorities, TickSpacings, FeeRates, ProtocolFeeRates, Emissions, FeeAmounts

Authorities ==
  [fee_authority : Key, collect_protocol_fees_authority : Key,
   reward_emissions_super_authority : Key, pool_creator_authority : Key]

ASSUME GovernanceAssumption ==
  /\ Mint \subseteq Int
  /\ NoMint \notin RewardMint
  /\ ConfigAuthorities \subseteq Authorities
  /\ NUM_REWARDS \in Nat /\ MAX_FEE_RATE \in Nat /\ MAX_PROTOCOL_FEE_RATE \in Nat
  /\ TickSpacings \subseteq Nat /\ FeeRates \subseteq Nat /\ ProtocolFeeRates \subseteq Nat
  /\ Emissions \subseteq Nat /\ FeeAmounts \subseteq Nat

VARIABLES
  configs,                 \* WhirlpoolsConfig accounts
  fee_tiers,               \* FeeTier accounts
  pools,                   \* Whirlpool accounts
  signer                   \* history: the authority that signed the last instruction

vars == <<configs, fee_tiers, pools, signer>>

Nobody == "nobody"

RewardIndex == 0 .. NUM_REWARDS - 1

WhirlpoolsConfig ==
  [fee_authority : Key, collect_protocol_fees_authority : Key,
   reward_emissions_super_authority : Key, pool_creator_authority : Key,
   default_protocol_fee_rate : 0 .. MAX_PROTOCOL_FEE_RATE]

FeeTier ==
  [whirlpools_config : Config, tick_spacing : TickSpacings, default_fee_rate : 0 .. MAX_FEE_RATE]

WhirlpoolRewardInfo ==
  [mint : RewardMint \cup {NoMint}, authority : Key, emissions_per_second_x64 : Nat]

Whirlpool ==
  [is_enabled : BOOLEAN, whirlpools_config : Config, tick_spacing : TickSpacings,
   token_mint_a : Mint, token_mint_b : Mint,
   fee_rate : 0 .. MAX_FEE_RATE, protocol_fee_rate : 0 .. MAX_PROTOCOL_FEE_RATE,
   protocol_fee_owed : Nat, reward_infos : [RewardIndex -> WhirlpoolRewardInfo]]

FeeTierAddress == Config \X TickSpacings
PoolAddress    == Config \X Mint \X Mint \X TickSpacings

\* Every rate in force is legal, in the accounts pools are created from too.
TypeOK ==
  /\ DOMAIN configs \subseteq Config /\ \A c \in DOMAIN configs : configs[c] \in WhirlpoolsConfig
  /\ DOMAIN fee_tiers \subseteq FeeTierAddress
  /\ \A t \in DOMAIN fee_tiers : fee_tiers[t] \in FeeTier
  /\ DOMAIN pools \subseteq PoolAddress /\ \A w \in DOMAIN pools : pools[w] \in Whirlpool
  /\ signer \in Key \cup {Nobody}

\* No account exists.
Init ==
  /\ configs = [c \in {} |-> Nobody]
  /\ fee_tiers = [t \in {} |-> Nobody]
  /\ pools = [w \in {} |-> Nobody]
  /\ signer = Nobody

\* The accounts with a new one; init fails when the address is taken.
WithAccount(accounts, address, data) ==
  [a \in DOMAIN accounts \cup {address} |-> IF a = address THEN data ELSE accounts[a]]

-----------------------------------------------------------------------------
(* Account constraints *)

\* #[account(address = whirlpools_config.<role>)] on a signer.
SignedBy(key, authority) == key = authority /\ signer' = key

\* The rates are checked wherever they are written.
ValidFeeRate(rate)         == rate <= MAX_FEE_RATE
ValidProtocolFeeRate(rate) == rate <= MAX_PROTOCOL_FEE_RATE

\* Mutant: the pool may be of any configuration.
PoolOfAny(w, c) == w \in DOMAIN pools

\* #[account(mut, has_one = whirlpools_config)] on a pool.
PoolOf(w, c) == w \in DOMAIN pools /\ pools[w].whirlpools_config = c

\* Mutant: the fee tier may be of any configuration.
TierOfAny(t, c) == t \in DOMAIN fee_tiers

\* #[account(has_one = whirlpools_config)] on a fee tier.
TierOf(t, c) == t \in DOMAIN fee_tiers /\ fee_tiers[t].whirlpools_config = c

-----------------------------------------------------------------------------
(* Configurations *)

\* WhirlpoolsConfig::initialize.
NewConfig(authorities, rate) ==
  [fee_authority |-> authorities.fee_authority,
   collect_protocol_fees_authority |-> authorities.collect_protocol_fees_authority,
   reward_emissions_super_authority |-> authorities.reward_emissions_super_authority,
   pool_creator_authority |-> authorities.pool_creator_authority,
   default_protocol_fee_rate |-> rate]

\* Anybody may create a configuration, with whatever authorities.
InitializeConfig(c, authorities, rate) ==
  /\ c \notin DOMAIN configs
  /\ ValidProtocolFeeRate(rate)
  /\ configs' = WithAccount(configs, c, NewConfig(authorities, rate))
  /\ signer' = Nobody
  /\ UNCHANGED <<fee_tiers, pools>>

\* Each authority of a configuration names its own successor.
SetFeeAuthority(c, key, new) ==
  /\ c \in DOMAIN configs
  /\ SignedBy(key, configs[c].fee_authority)
  /\ configs' = [configs EXCEPT ![c].fee_authority = new]
  /\ UNCHANGED <<fee_tiers, pools>>

SetCollectProtocolFeesAuthority(c, key, new) ==
  /\ c \in DOMAIN configs
  /\ SignedBy(key, configs[c].collect_protocol_fees_authority)
  /\ configs' = [configs EXCEPT ![c].collect_protocol_fees_authority = new]
  /\ UNCHANGED <<fee_tiers, pools>>

SetPoolCreatorAuthority(c, key, new) ==
  /\ c \in DOMAIN configs
  /\ SignedBy(key, configs[c].pool_creator_authority)
  /\ configs' = [configs EXCEPT ![c].pool_creator_authority = new]
  /\ UNCHANGED <<fee_tiers, pools>>

\* The authorities of the rewards that exist stay as they are.
SetRewardEmissionsSuperAuthority(c, key, new) ==
  /\ c \in DOMAIN configs
  /\ SignedBy(key, configs[c].reward_emissions_super_authority)
  /\ configs' = [configs EXCEPT ![c].reward_emissions_super_authority = new]
  /\ UNCHANGED <<fee_tiers, pools>>

SetDefaultProtocolFeeRate(c, key, rate) ==
  /\ c \in DOMAIN configs
  /\ SignedBy(key, configs[c].fee_authority)
  /\ ValidProtocolFeeRate(rate)
  /\ configs' = [configs EXCEPT ![c].default_protocol_fee_rate = rate]
  /\ UNCHANGED <<fee_tiers, pools>>

-----------------------------------------------------------------------------
(* Fee tiers *)

\* FeeTier::initialize.
NewFeeTier(c, spacing, rate) ==
  [whirlpools_config |-> c, tick_spacing |-> spacing, default_fee_rate |-> rate]

InitializeFeeTier(c, key, spacing, rate) ==
  /\ c \in DOMAIN configs
  /\ SignedBy(key, configs[c].fee_authority)
  /\ <<c, spacing>> \notin DOMAIN fee_tiers
  /\ ValidFeeRate(rate)
  /\ fee_tiers' = WithAccount(fee_tiers, <<c, spacing>>, NewFeeTier(c, spacing, rate))
  /\ UNCHANGED <<configs, pools>>

SetDefaultFeeRate(c, t, key, rate) ==
  /\ c \in DOMAIN configs
  /\ TierOf(t, c)
  /\ SignedBy(key, configs[c].fee_authority)
  /\ ValidFeeRate(rate)
  /\ fee_tiers' = [fee_tiers EXCEPT ![t].default_fee_rate = rate]
  /\ UNCHANGED <<configs, pools>>

-----------------------------------------------------------------------------
(* Pools *)

\* Whirlpool::initialize, as far as authorities and rates go.
NewPool(c, t, mint_a, mint_b, spacing) ==
  [is_enabled |-> TRUE, whirlpools_config |-> c, tick_spacing |-> spacing,
   token_mint_a |-> mint_a, token_mint_b |-> mint_b,
   fee_rate |-> fee_tiers[t].default_fee_rate,
   protocol_fee_rate |-> configs[c].default_protocol_fee_rate,
   protocol_fee_owed |-> 0,
   reward_infos |-> [i \in RewardIndex |->
     [mint |-> NoMint, authority |-> configs[c].reward_emissions_super_authority,
      emissions_per_second_x64 |-> 0]]]

\* Mutant: a pair of mints may come in either order.
ValidMintsUnordered(mint_a, mint_b) == mint_a # mint_b

ValidMints(mint_a, mint_b) == mint_a < mint_b

\* Anybody may create a pool.  Its fee tier must be of its configuration, but
\* may be one for another tick spacing.
InitializePool(c, t, mint_a, mint_b, spacing) ==
  LET new == NewPool(c, t, mint_a, mint_b, spacing)
  IN  /\ c \in DOMAIN configs
      /\ TierOf(t, c)
      /\ <<c, mint_a, mint_b, spacing>> \notin DOMAIN pools
      /\ ValidMints(mint_a, mint_b)
      /\ ValidFeeRate(new.fee_rate) /\ ValidProtocolFeeRate(new.protocol_fee_rate)
      /\ pools' = WithAccount(pools, <<c, mint_a, mint_b, spacing>>, new)
      /\ signer' = Nobody
      /\ UNCHANGED <<configs, fee_tiers>>

SetFeeRate(c, w, key, rate) ==
  /\ c \in DOMAIN configs
  /\ PoolOf(w, c)
  /\ SignedBy(key, configs[c].fee_authority)
  /\ ValidFeeRate(rate)
  /\ pools' = [pools EXCEPT ![w].fee_rate = rate]
  /\ UNCHANGED <<configs, fee_tiers>>

SetProtocolFeeRate(c, w, key, rate) ==
  /\ c \in DOMAIN configs
  /\ PoolOf(w, c)
  /\ SignedBy(key, configs[c].fee_authority)
  /\ ValidProtocolFeeRate(rate)
  /\ pools' = [pools EXCEPT ![w].protocol_fee_rate = rate]
  /\ UNCHANGED <<configs, fee_tiers>>

SetEnableFlag(c, w, key, enabled) ==
  /\ c \in DOMAIN configs
  /\ PoolOf(w, c)
  /\ SignedBy(key, configs[c].pool_creator_authority)
  /\ pools' = [pools EXCEPT ![w].is_enabled = enabled]
  /\ UNCHANGED <<configs, fee_tiers>>

\* The amount goes to an account of the authority's choice.
CollectProtocolFees(c, w, key) ==
  /\ c \in DOMAIN configs
  /\ PoolOf(w, c)
  /\ SignedBy(key, configs[c].collect_protocol_fees_authority)
  /\ pools' = [pools EXCEPT ![w].protocol_fee_owed = 0]
  /\ UNCHANGED <<configs, fee_tiers>>

\* What swaps leave to the protocol (Whirlpool::update_after_swap), those of a
\* disabled pool too, as two-hop swaps reach it.
AccrueProtocolFee(w, amount) ==
  /\ w \in DOMAIN pools
  /\ pools' = [pools EXCEPT ![w].protocol_fee_owed = @ + amount]
  /\ signer' = Nobody
  /\ UNCHANGED <<configs, fee_tiers>>

-----------------------------------------------------------------------------
(* Rewards *)

Initialized(w, i) == pools[w].reward_infos[i].mint # NoMint

\* An index beyond the last reward makes the account constraint panic.
SignedByRewardAuthority(w, i, key) ==
  /\ w \in DOMAIN pools
  /\ i \in RewardIndex
  /\ SignedBy(key, pools[w].reward_infos[i].authority)

SetRewardAuthority(w, i, key, new) ==
  /\ SignedByRewardAuthority(w, i, key)
  /\ pools' = [pools EXCEPT ![w].reward_infos[i].authority = new]
  /\ UNCHANGED <<configs, fee_tiers>>

SetRewardAuthorityBySuperAuthority(c, w, i, key, new) ==
  /\ c \in DOMAIN configs
  /\ PoolOf(w, c)
  /\ SignedBy(key, configs[c].reward_emissions_super_authority)
  /\ i \in RewardIndex
  /\ pools' = [pools EXCEPT ![w].reward_infos[i].authority = new]
  /\ UNCHANGED <<configs, fee_tiers>>

\* Mutant: any index may be initialized, and again.
NextRewardAny(w, i) == TRUE

\* initialize_reward takes the lowest uninitialized index only.
NextReward(w, i) == ~Initialized(w, i) /\ \A j \in RewardIndex : j < i => Initialized(w, j)

InitializeReward(w, i, key, mint) ==
  /\ SignedByRewardAuthority(w, i, key)
  /\ NextReward(w, i)
  /\ pools' = [pools EXCEPT ![w].reward_infos[i].mint = mint]
  /\ UNCHANGED <<configs, fee_tiers>>

\* The vault's address is part of the reward, so that it must be initialized.
\* Whether the vault holds enough for a day is module Whirlpool's.
SetRewardEmissions(w, i, key, emissions) ==
  /\ SignedByRewardAuthority(w, i, key)
  /\ Initialized(w, i)
  /\ pools' = [pools EXCEPT ![w].reward_infos[i].emissions_per_second_x64 = emissions]
  /\ UNCHANGED <<configs, fee_tiers>>

-----------------------------------------------------------------------------
(* The program's entry points: the caller chooses accounts and arguments. *)

ConfigNext ==
  \E c \in Config, key \in Key, new \in Key :
    \/ SetFeeAuthority(c, key, new)
    \/ SetCollectProtocolFeesAuthority(c, key, new)
    \/ SetPoolCreatorAuthority(c, key, new)
    \/ SetRewardEmissionsSuperAuthority(c, key, new)

DefaultsNext ==
  \E c \in Config, key \in Key :
    \/ \E rate \in ProtocolFeeRates : SetDefaultProtocolFeeRate(c, key, rate)
    \/ \E rate \in FeeRates, t \in FeeTierAddress : SetDefaultFeeRate(c, t, key, rate)

CreationNext ==
  \E c \in Config :
    \/ \E authorities \in ConfigAuthorities, rate \in ProtocolFeeRates :
         InitializeConfig(c, authorities, rate)
    \/ \E t \in FeeTierAddress, mint_a, mint_b \in Mint, spacing \in TickSpacings :
         InitializePool(c, t, mint_a, mint_b, spacing)

FeeTierNext ==
  \E c \in Config, key \in Key, spacing \in TickSpacings, rate \in FeeRates :
    InitializeFeeTier(c, key, spacing, rate)

PoolNext ==
  \E c \in Config, w \in PoolAddress, key \in Key :
    \/ \E rate \in FeeRates : SetFeeRate(c, w, key, rate)
    \/ \E rate \in ProtocolFeeRates : SetProtocolFeeRate(c, w, key, rate)

EnableNext ==
  \E c \in Config, w \in PoolAddress, key \in Key, enabled \in BOOLEAN :
    SetEnableFlag(c, w, key, enabled)

CollectNext ==
  \E c \in Config, w \in PoolAddress, key \in Key : CollectProtocolFees(c, w, key)

RewardAuthorityNext ==
  \E w \in PoolAddress, i \in 0 .. NUM_REWARDS, key \in Key, new \in Key :
    \/ SetRewardAuthority(w, i, key, new)
    \/ \E c \in Config : SetRewardAuthorityBySuperAuthority(c, w, i, key, new)

RewardNext ==
  \E w \in PoolAddress, i \in 0 .. NUM_REWARDS, key \in Key :
    \/ \E mint \in RewardMint : InitializeReward(w, i, key, mint)
    \/ \E emissions \in Emissions : SetRewardEmissions(w, i, key, emissions)

Next ==
  \/ CreationNext \/ FeeTierNext
  \/ ConfigNext \/ DefaultsNext
  \/ PoolNext \/ EnableNext \/ CollectNext
  \/ RewardAuthorityNext \/ RewardNext
  \/ \E w \in PoolAddress, amount \in FeeAmounts : AccrueProtocolFee(w, amount)

Spec == Init /\ [][Next]_vars

-----------------------------------------------------------------------------
(* Properties *)

\* A configuration's field changes only with the signature of the key that
\* holds the role the code gives it (instructions/set_*.rs).
ConfigChangesAuthorized ==
  \A c \in DOMAIN configs :
    LET old == configs[c]
        new == configs'[c]
    IN  /\ \/ new.fee_authority # old.fee_authority
           \/ new.default_protocol_fee_rate # old.default_protocol_fee_rate
           => signer' = old.fee_authority
        /\ new.collect_protocol_fees_authority # old.collect_protocol_fees_authority
           => signer' = old.collect_protocol_fees_authority
        /\ new.pool_creator_authority # old.pool_creator_authority
           => signer' = old.pool_creator_authority
        /\ new.reward_emissions_super_authority # old.reward_emissions_super_authority
           => signer' = old.reward_emissions_super_authority

\* The same for a pool and the authorities of its own configuration.  Nobody
\* else takes its fees, and a reward is its authority's, or passes to another
\* by the hand of the super authority.
PoolChangesAuthorized ==
  \A w \in DOMAIN pools :
    LET old   == pools[w]
        new   == pools'[w]
        roles == configs[old.whirlpools_config]
    IN  /\ old.fee_rate # new.fee_rate \/ old.protocol_fee_rate # new.protocol_fee_rate
           => signer' = roles.fee_authority
        /\ old.is_enabled # new.is_enabled => signer' = roles.pool_creator_authority
        /\ new.protocol_fee_owed < old.protocol_fee_owed
           => signer' = roles.collect_protocol_fees_authority
        /\ \A i \in RewardIndex :
             new.reward_infos[i] # old.reward_infos[i] =>
               \/ signer' = old.reward_infos[i].authority
               \/ /\ signer' = roles.reward_emissions_super_authority
                  /\ new.reward_infos[i] =
                       [old.reward_infos[i] EXCEPT !.authority = new.reward_infos[i].authority]

\* A fee tier appears or changes by the hand of its configuration's fee authority.
TierChangesAuthorized ==
  \A t \in DOMAIN fee_tiers' :
    (t \notin DOMAIN fee_tiers \/ fee_tiers'[t] # fee_tiers[t]) =>
      signer' = configs[fee_tiers'[t].whirlpools_config].fee_authority

\* No key has any power over a configuration, its tiers and its pools but
\* through the role it holds there, whichever accounts it passes in.
OnlyRoleHoldersChange ==
  [][ConfigChangesAuthorized /\ PoolChangesAuthorized /\ TierChangesAuthorized]_vars

\* An account, once created, stays what it is: no second initialization gives
\* it other authorities, mints or spacing, and a reward stays initialized in
\* its mint (state/whirlpool.rs:300).
NothingReinitialized ==
  [][ /\ DOMAIN configs \subseteq DOMAIN configs' /\ DOMAIN fee_tiers \subseteq DOMAIN fee_tiers'
      /\ DOMAIN pools \subseteq DOMAIN pools'
      /\ \A w \in DOMAIN pools, i \in RewardIndex :
           Initialized(w, i) => pools'[w].reward_infos[i].mint = pools[w].reward_infos[i].mint
      /\ \A w \in DOMAIN pools :
           pools'[w].whirlpools_config = pools[w].whirlpools_config ]_vars

\* A new pool has the rates and the reward authority of its own configuration
\* as they are at that moment; later changes of the defaults leave it alone.
NewPoolTakesOwnDefaults ==
  [][ \A w \in DOMAIN pools' \ DOMAIN pools :
        LET c == pools'[w].whirlpools_config
        IN  /\ pools'[w].protocol_fee_rate = configs[c].default_protocol_fee_rate
            /\ \E spacing \in TickSpacings :
                 <<c, spacing>> \in DOMAIN fee_tiers
                 /\ pools'[w].fee_rate = fee_tiers[<<c, spacing>>].default_fee_rate
            /\ \A i \in RewardIndex :
                 pools'[w].reward_infos[i].authority
                   = configs[c].reward_emissions_super_authority ]_vars

\* Two mints have at most one pool of a spacing in a configuration, whichever
\* of them is called a.
OnePoolPerPair ==
  \A v, w \in DOMAIN pools :
    /\ pools[v].whirlpools_config = pools[w].whirlpools_config
    /\ pools[v].tick_spacing = pools[w].tick_spacing
    /\ {pools[v].token_mint_a, pools[v].token_mint_b}
         = {pools[w].token_mint_a, pools[w].token_mint_b}
    => v = w
=============================================================================
