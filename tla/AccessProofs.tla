----------------------------- MODULE AccessProofs -----------------------------
(***************************************************************************)
(* Whichever keys, configurations, mints and arguments there are, only     *)
(* those who hold a role use it, and every account stays what it was       *)
(* created as.                                                             *)
(*                                                                         *)
(* The argument rests on the addresses: an account lies where its own      *)
(* fields say (SeedsMatch), so that the configuration an instruction       *)
(* compares with the account is the one in its address.  A step edits at   *)
(* most one account or creates one, and each kind of step is shown to be   *)
(* harmless once, in the lemmas on edits and creations; what remains for   *)
(* an action is that its edit is of that kind.                             *)
(*                                                                         *)
(* The second part is about the tokens of positions: there is never more   *)
(* than one for a position, whoever has been handed what.                  *)
(***************************************************************************)
EXTENDS Governance, PositionToken, FiniteSetTheorems, TLAPS

-----------------------------------------------------------------------------
(* Configurations and pools *)

\* What an account says of itself is what its address is derived from.
SeedsMatch ==
  /\ \A t \in DOMAIN fee_tiers :
       fee_tiers[t].whirlpools_config = t[1] /\ fee_tiers[t].tick_spacing = t[2]
  /\ \A w \in DOMAIN pools :
       /\ pools[w].whirlpools_config = w[1] /\ pools[w].tick_spacing = w[4]
       /\ pools[w].token_mint_a = w[2] /\ pools[w].token_mint_b = w[3]
       /\ w[2] < w[3]

IInv == TypeOK /\ SeedsMatch

\* The bodies of NothingReinitialized and of NewPoolTakesOwnDefaults.
AccountsKept ==
  /\ DOMAIN configs \subseteq DOMAIN configs' /\ DOMAIN fee_tiers \subseteq DOMAIN fee_tiers'
  /\ DOMAIN pools \subseteq DOMAIN pools'
  /\ \A w \in DOMAIN pools, i \in RewardIndex :
       Initialized(w, i) => pools'[w].reward_infos[i].mint = pools[w].reward_infos[i].mint
  /\ \A w \in DOMAIN pools : pools'[w].whirlpools_config = pools[w].whirlpools_config

DefaultsTaken ==
  \A w \in DOMAIN pools' \ DOMAIN pools :
    LET c == pools'[w].whirlpools_config
    IN  /\ pools'[w].protocol_fee_rate = configs[c].default_protocol_fee_rate
        /\ \E spacing \in TickSpacings :
             <<c, spacing>> \in DOMAIN fee_tiers
             /\ pools'[w].fee_rate = fee_tiers[<<c, spacing>>].default_fee_rate
        /\ \A i \in RewardIndex :
             pools'[w].reward_infos[i].authority = configs[c].reward_emissions_super_authority

StepSafe ==
  /\ ConfigChangesAuthorized /\ PoolChangesAuthorized /\ TierChangesAuthorized
  /\ AccountsKept /\ DefaultsTaken

-----------------------------------------------------------------------------
(* Edits of a pool *)

\* pool may take the place of the pool at w, by the hand of who.
PoolEditPermitted(w, pool, who) ==
  LET old   == pools[w]
      roles == configs[old.whirlpools_config]
  IN  /\ old.fee_rate # pool.fee_rate \/ old.protocol_fee_rate # pool.protocol_fee_rate
         => who = roles.fee_authority
      /\ old.is_enabled # pool.is_enabled => who = roles.pool_creator_authority
      /\ pool.protocol_fee_owed < old.protocol_fee_owed
         => who = roles.collect_protocol_fees_authority
      /\ \A i \in RewardIndex :
           pool.reward_infos[i] # old.reward_infos[i] =>
             \/ who = old.reward_infos[i].authority
             \/ /\ who = roles.reward_emissions_super_authority
                /\ pool.reward_infos[i] =
                     [old.reward_infos[i] EXCEPT !.authority = pool.reward_infos[i].authority]

\* An edit that leaves the pool what it is.
PoolEdit(w, pool) ==
  /\ w \in DOMAIN pools /\ pool \in Whirlpool
  /\ pool.whirlpools_config = pools[w].whirlpools_config
  /\ pool.tick_spacing = pools[w].tick_spacing
  /\ pool.token_mint_a = pools[w].token_mint_a /\ pool.token_mint_b = pools[w].token_mint_b
  /\ \A i \in RewardIndex :
       Initialized(w, i) => pool.reward_infos[i].mint = pools[w].reward_infos[i].mint
  /\ pools' = [pools EXCEPT ![w] = pool]
  /\ PoolEditPermitted(w, pool, signer')
  /\ signer' \in Key \cup {Nobody}
  /\ UNCHANGED <<configs, fee_tiers>>

\* Such an edit is safe, and keeps the invariant.
LEMMA PoolEditSafe ==
  ASSUME IInv, NEW w, NEW pool, PoolEdit(w, pool)
  PROVE  IInv' /\ StepSafe
<1>1. /\ DOMAIN pools' = DOMAIN pools
      /\ \A v \in DOMAIN pools : pools'[v] = IF v = w THEN pool ELSE pools[v]
  BY DEF PoolEdit
<1>2. TypeOK'
  BY <1>1 DEF IInv, TypeOK, PoolEdit
<1>3. SeedsMatch'
  BY <1>1 DEF IInv, SeedsMatch, PoolEdit
<1>4. PoolChangesAuthorized
  <2> SUFFICES ASSUME NEW v \in DOMAIN pools, v # w
               PROVE  pools'[v] = pools[v] /\ \neg pools'[v].protocol_fee_owed < pools[v].protocol_fee_owed
    BY <1>1 DEF PoolEdit, PoolEditPermitted, PoolChangesAuthorized
  <2>1. pools[v].protocol_fee_owed \in Nat
    BY DEF IInv, TypeOK, Whirlpool
  <2> QED
    BY <1>1, <2>1
<1>5. ConfigChangesAuthorized /\ TierChangesAuthorized
  BY DEF PoolEdit, ConfigChangesAuthorized, TierChangesAuthorized
<1>6. AccountsKept /\ DefaultsTaken
  BY <1>1 DEF PoolEdit, AccountsKept, DefaultsTaken
<1> QED
  BY <1>2, <1>3, <1>4, <1>5, <1>6 DEF IInv, StepSafe

-----------------------------------------------------------------------------
(* The instructions that edit a pool *)

\* The authorities of a pool's configuration, and the swaps, edit it so.
LEMMA PoolInstructions ==
  ASSUME IInv,
         \/ PoolNext \/ EnableNext \/ CollectNext
         \/ \E w \in PoolAddress, amount \in FeeAmounts : AccrueProtocolFee(w, amount)
  PROVE  \E w, pool : PoolEdit(w, pool)
<1> USE GovernanceAssumption DEF PoolOf, SignedBy, ValidFeeRate, ValidProtocolFeeRate
<1>1. ASSUME NEW w \in DOMAIN pools
      PROVE  /\ pools[w] \in Whirlpool
             /\ configs[pools[w].whirlpools_config] \in WhirlpoolsConfig \/
                pools[w].whirlpools_config \notin DOMAIN configs
  BY DEF IInv, TypeOK
<1>2. ASSUME NEW c \in Config, NEW w \in PoolAddress, NEW key \in Key, NEW rate \in FeeRates,
             SetFeeRate(c, w, key, rate)
      PROVE  PoolEdit(w, [pools[w] EXCEPT !.fee_rate = rate])
  BY <1>1, <1>2 DEF SetFeeRate, PoolEdit, PoolEditPermitted, Whirlpool
<1>3. ASSUME NEW c \in Config, NEW w \in PoolAddress, NEW key \in Key,
             NEW rate \in ProtocolFeeRates, SetProtocolFeeRate(c, w, key, rate)
      PROVE  PoolEdit(w, [pools[w] EXCEPT !.protocol_fee_rate = rate])
  BY <1>1, <1>3 DEF SetProtocolFeeRate, PoolEdit, PoolEditPermitted, Whirlpool
<1>4. ASSUME NEW c \in Config, NEW w \in PoolAddress, NEW key \in Key,
             NEW enabled \in BOOLEAN, SetEnableFlag(c, w, key, enabled)
      PROVE  PoolEdit(w, [pools[w] EXCEPT !.is_enabled = enabled])
  BY <1>1, <1>4 DEF SetEnableFlag, PoolEdit, PoolEditPermitted, Whirlpool
<1>5. ASSUME NEW c \in Config, NEW w \in PoolAddress, NEW key \in Key,
             CollectProtocolFees(c, w, key)
      PROVE  PoolEdit(w, [pools[w] EXCEPT !.protocol_fee_owed = 0])
  BY <1>1, <1>5 DEF CollectProtocolFees, PoolEdit, PoolEditPermitted, Whirlpool
<1>6. ASSUME NEW w \in PoolAddress, NEW amount \in FeeAmounts, AccrueProtocolFee(w, amount)
      PROVE  PoolEdit(w, [pools[w] EXCEPT !.protocol_fee_owed = @ + amount])
  BY <1>1, <1>6 DEF AccrueProtocolFee, PoolEdit, PoolEditPermitted, Whirlpool
<1> QED
  BY <1>2, <1>3, <1>4, <1>5, <1>6 DEF PoolNext, EnableNext, CollectNext

\* An edit of one reward, which its authority may make, or the super authority
\* when it changes the reward's authority only.
LEMMA RewardEditIsPoolEdit ==
  ASSUME IInv, NEW w \in DOMAIN pools, NEW i \in RewardIndex, NEW info \in WhirlpoolRewardInfo,
         pools' = [pools EXCEPT ![w].reward_infos[i] = info],
         Initialized(w, i) => info.mint = pools[w].reward_infos[i].mint,
         \/ signer' = pools[w].reward_infos[i].authority
         \/ /\ signer' = configs[pools[w].whirlpools_config].reward_emissions_super_authority
            /\ info = [pools[w].reward_infos[i] EXCEPT !.authority = info.authority],
         signer' \in Key, UNCHANGED <<configs, fee_tiers>>
  PROVE  \E pool : PoolEdit(w, pool)
<1> DEFINE infos == [pools[w].reward_infos EXCEPT ![i] = info]
           pool  == [pools[w] EXCEPT !.reward_infos = infos]
<1>1. pools[w] \in Whirlpool /\ pools[w].reward_infos \in [RewardIndex -> WhirlpoolRewardInfo]
  BY DEF IInv, TypeOK, Whirlpool
<1>2. /\ infos \in [RewardIndex -> WhirlpoolRewardInfo]
      /\ \A j \in RewardIndex : infos[j] = IF j = i THEN info ELSE pools[w].reward_infos[j]
  BY <1>1
<1>3. /\ pool \in Whirlpool /\ pool.reward_infos = infos
      /\ pool.is_enabled = pools[w].is_enabled
      /\ pool.whirlpools_config = pools[w].whirlpools_config
      /\ pool.tick_spacing = pools[w].tick_spacing
      /\ pool.token_mint_a = pools[w].token_mint_a /\ pool.token_mint_b = pools[w].token_mint_b
      /\ pool.fee_rate = pools[w].fee_rate
      /\ pool.protocol_fee_rate = pools[w].protocol_fee_rate
      /\ pool.protocol_fee_owed = pools[w].protocol_fee_owed /\ pool.protocol_fee_owed \in Nat
  <2> HIDE DEF infos
  <2> QED
    BY <1>1, <1>2 DEF Whirlpool
<1>4. pools' = [pools EXCEPT ![w] = pool]
  OBVIOUS
<1>5. \A j \in RewardIndex : Initialized(w, j) => pool.reward_infos[j].mint = pools[w].reward_infos[j].mint
  <2> HIDE DEF infos, pool
  <2> QED
    BY <1>2, <1>3
<1>6. PoolEditPermitted(w, pool, signer')
  <2> HIDE DEF infos, pool
  <2> QED
    BY <1>2, <1>3 DEF PoolEditPermitted
<1> HIDE DEF infos, pool
<1> QED
  BY <1>3, <1>4, <1>5, <1>6 DEF PoolEdit

\* So do the authorities of its rewards, and the super authority.
LEMMA RewardInstructions ==
  ASSUME IInv, RewardAuthorityNext \/ RewardNext
  PROVE  \E w, pool : PoolEdit(w, pool)
<1> USE GovernanceAssumption DEF PoolOf, SignedBy, SignedByRewardAuthority, Initialized
<1>1. ASSUME NEW w \in DOMAIN pools, NEW i \in RewardIndex
      PROVE  /\ pools[w].reward_infos[i] \in WhirlpoolRewardInfo
             /\ \A new \in Key :
                  [pools[w].reward_infos[i] EXCEPT !.authority = new] \in WhirlpoolRewardInfo
             /\ \A paid_in \in RewardMint :
                  [pools[w].reward_infos[i] EXCEPT !.mint = paid_in] \in WhirlpoolRewardInfo
             /\ \A emissions \in Emissions :
                  [pools[w].reward_infos[i] EXCEPT !.emissions_per_second_x64 = emissions]
                    \in WhirlpoolRewardInfo
  <2>1. pools[w] \in Whirlpool
    BY DEF IInv, TypeOK
  <2>2. pools[w].reward_infos[i] \in WhirlpoolRewardInfo
    BY <2>1 DEF Whirlpool
  <2> QED
    BY <2>2 DEF WhirlpoolRewardInfo
<1>2. ASSUME NEW w \in PoolAddress, NEW i, NEW key \in Key, NEW new \in Key,
             \/ SetRewardAuthority(w, i, key, new)
             \/ \E c \in Config : SetRewardAuthorityBySuperAuthority(c, w, i, key, new)
      PROVE  \E pool : PoolEdit(w, pool)
  <2> DEFINE info == [pools[w].reward_infos[i] EXCEPT !.authority = new]
  <2>1. w \in DOMAIN pools /\ i \in RewardIndex
    BY <1>2 DEF SetRewardAuthority, SetRewardAuthorityBySuperAuthority
  <2>2. info \in WhirlpoolRewardInfo /\ info.authority = new
        /\ info.mint = pools[w].reward_infos[i].mint
    BY <1>1, <2>1 DEF WhirlpoolRewardInfo
  <2>3. /\ pools' = [pools EXCEPT ![w].reward_infos[i] = info]
        /\ signer' \in Key /\ UNCHANGED <<configs, fee_tiers>>
        /\ \/ signer' = pools[w].reward_infos[i].authority
           \/ signer' = configs[pools[w].whirlpools_config].reward_emissions_super_authority
    BY <1>2 DEF SetRewardAuthority, SetRewardAuthorityBySuperAuthority
  <2>4. info = [pools[w].reward_infos[i] EXCEPT !.authority = info.authority]
    BY <2>2
  <2> HIDE DEF info
  <2> QED
    BY <2>1, <2>2, <2>3, <2>4, RewardEditIsPoolEdit
<1>3. ASSUME NEW w \in PoolAddress, NEW i, NEW key \in Key, NEW reward_mint \in RewardMint,
             InitializeReward(w, i, key, reward_mint)
      PROVE  \E pool : PoolEdit(w, pool)
  <2> DEFINE info == [pools[w].reward_infos[i] EXCEPT !.mint = reward_mint]
  <2>1. /\ w \in DOMAIN pools /\ i \in RewardIndex /\ ~Initialized(w, i)
        /\ pools' = [pools EXCEPT ![w].reward_infos[i] = info]
        /\ signer' = pools[w].reward_infos[i].authority
        /\ signer' \in Key /\ UNCHANGED <<configs, fee_tiers>>
    BY <1>3 DEF InitializeReward, NextReward
  <2>2. info \in WhirlpoolRewardInfo
    BY <1>1, <2>1
  <2> HIDE DEF info
  <2> QED
    BY <2>1, <2>2, RewardEditIsPoolEdit
<1>4. ASSUME NEW w \in PoolAddress, NEW i, NEW key \in Key, NEW emissions \in Emissions,
             SetRewardEmissions(w, i, key, emissions)
      PROVE  \E pool : PoolEdit(w, pool)
  <2> DEFINE info == [pools[w].reward_infos[i] EXCEPT !.emissions_per_second_x64 = emissions]
  <2>1. /\ w \in DOMAIN pools /\ i \in RewardIndex
        /\ pools' = [pools EXCEPT ![w].reward_infos[i] = info]
        /\ signer' = pools[w].reward_infos[i].authority
        /\ signer' \in Key /\ UNCHANGED <<configs, fee_tiers>>
    BY <1>4 DEF SetRewardEmissions
  <2>2. info \in WhirlpoolRewardInfo /\ info.mint = pools[w].reward_infos[i].mint
    BY <1>1, <2>1 DEF WhirlpoolRewardInfo
  <2> HIDE DEF info
  <2> QED
    BY <2>1, <2>2, RewardEditIsPoolEdit
<1> QED
  BY <1>2, <1>3, <1>4 DEF RewardAuthorityNext, RewardNext

-----------------------------------------------------------------------------
(* Edits of a configuration or of a fee tier *)

\* Each authority of a configuration changes its own field of it.
LEMMA ConfigInstructions ==
  ASSUME IInv,
         \/ ConfigNext
         \/ \E c \in Config, key \in Key, rate \in ProtocolFeeRates :
              SetDefaultProtocolFeeRate(c, key, rate)
  PROVE  IInv' /\ StepSafe
<1> USE GovernanceAssumption DEF SignedBy, ValidProtocolFeeRate
<1>1. PICK c \in Config, key \in Key, new \in Key, rate \in ProtocolFeeRates \cup {0} :
        \/ SetFeeAuthority(c, key, new)
        \/ SetCollectProtocolFeesAuthority(c, key, new)
        \/ SetPoolCreatorAuthority(c, key, new)
        \/ SetRewardEmissionsSuperAuthority(c, key, new)
        \/ rate \in ProtocolFeeRates /\ SetDefaultProtocolFeeRate(c, key, rate)
  BY DEF ConfigNext
<1>2. c \in DOMAIN configs /\ configs[c] \in WhirlpoolsConfig /\ signer' = key
      /\ UNCHANGED <<fee_tiers, pools>>
  BY <1>1 DEF IInv, TypeOK, SetFeeAuthority, SetCollectProtocolFeesAuthority,
              SetPoolCreatorAuthority, SetRewardEmissionsSuperAuthority, SetDefaultProtocolFeeRate
<1>3. /\ DOMAIN configs' = DOMAIN configs
      /\ configs'[c] \in WhirlpoolsConfig
      /\ \A d \in DOMAIN configs : d # c => configs'[d] = configs[d]
  BY <1>1, <1>2
     DEF SetFeeAuthority, SetCollectProtocolFeesAuthority, SetPoolCreatorAuthority,
         SetRewardEmissionsSuperAuthority, SetDefaultProtocolFeeRate, WhirlpoolsConfig
<1>4. IInv'
  BY <1>2, <1>3 DEF IInv, TypeOK, SeedsMatch
<1>5. ConfigChangesAuthorized
  BY <1>1, <1>2, <1>3
     DEF SetFeeAuthority, SetCollectProtocolFeesAuthority, SetPoolCreatorAuthority,
         SetRewardEmissionsSuperAuthority, SetDefaultProtocolFeeRate, WhirlpoolsConfig,
         ConfigChangesAuthorized
<1>6. PoolChangesAuthorized
  <2>1. \A w \in DOMAIN pools : pools[w].protocol_fee_owed \in Nat
    BY DEF IInv, TypeOK, Whirlpool
  <2> QED
    BY <1>2, <2>1 DEF PoolChangesAuthorized
<1>7. TierChangesAuthorized /\ AccountsKept /\ DefaultsTaken
  BY <1>2, <1>3 DEF TierChangesAuthorized, AccountsKept, DefaultsTaken
<1> QED
  BY <1>4, <1>5, <1>6, <1>7 DEF StepSafe

\* A fee tier appears or changes by the hand of its own configuration's fee
\* authority.
LEMMA TierInstructions ==
  ASSUME IInv,
         \/ FeeTierNext
         \/ \E c \in Config, key \in Key, rate \in FeeRates, t \in FeeTierAddress :
              SetDefaultFeeRate(c, t, key, rate)
  PROVE  IInv' /\ StepSafe
<1> USE GovernanceAssumption DEF SignedBy, ValidFeeRate
<1>1. PICK c \in Config, key \in Key, rate \in FeeRates, t \in FeeTierAddress :
        /\ \/ \E spacing \in TickSpacings :
                t = <<c, spacing>> /\ InitializeFeeTier(c, key, spacing, rate)
           \/ SetDefaultFeeRate(c, t, key, rate)
  BY DEF FeeTierNext, FeeTierAddress
<1>2. /\ c \in DOMAIN configs /\ signer' = key /\ key = configs[c].fee_authority
      /\ UNCHANGED <<configs, pools>>
  BY <1>1 DEF InitializeFeeTier, SetDefaultFeeRate
<1>3. /\ DOMAIN fee_tiers' = DOMAIN fee_tiers \cup {t}
      /\ fee_tiers'[t] \in FeeTier /\ fee_tiers'[t].whirlpools_config = c /\ t[1] = c
      /\ fee_tiers'[t].tick_spacing = t[2]
      /\ \A u \in DOMAIN fee_tiers : u # t => fee_tiers'[u] = fee_tiers[u]
  <2>1. CASE SetDefaultFeeRate(c, t, key, rate)
    <3>1. t \in DOMAIN fee_tiers /\ fee_tiers[t] \in FeeTier
          /\ fee_tiers[t].whirlpools_config = c /\ t[1] = c /\ fee_tiers[t].tick_spacing = t[2]
      BY <2>1 DEF SetDefaultFeeRate, TierOf, IInv, TypeOK, SeedsMatch
    <3> QED
      BY <2>1, <3>1 DEF SetDefaultFeeRate, FeeTier
  <2>2. CASE \E spacing \in TickSpacings :
               t = <<c, spacing>> /\ InitializeFeeTier(c, key, spacing, rate)
    <3>1. PICK spacing \in TickSpacings :
            t = <<c, spacing>> /\ InitializeFeeTier(c, key, spacing, rate)
      BY <2>2
    <3>2. rate \in 0 .. MAX_FEE_RATE
      <4>1. rate \in Nat /\ MAX_FEE_RATE \in Nat /\ rate <= MAX_FEE_RATE
        BY <3>1 DEF InitializeFeeTier
      <4> QED
        BY <4>1
    <3>3. NewFeeTier(c, spacing, rate) \in FeeTier
          /\ NewFeeTier(c, spacing, rate).whirlpools_config = c
          /\ NewFeeTier(c, spacing, rate).tick_spacing = spacing
      BY <3>2 DEF NewFeeTier, FeeTier
    <3> QED
      BY <3>1, <3>3 DEF InitializeFeeTier, WithAccount
  <2> QED
    BY <1>1, <2>1, <2>2
<1>4. IInv'
  BY <1>2, <1>3 DEF IInv, TypeOK, SeedsMatch
<1>5. PoolChangesAuthorized
  <2>1. \A w \in DOMAIN pools : pools[w].protocol_fee_owed \in Nat
    BY DEF IInv, TypeOK, Whirlpool
  <2> QED
    BY <1>2, <2>1 DEF PoolChangesAuthorized
<1>6. ConfigChangesAuthorized /\ TierChangesAuthorized
  BY <1>2, <1>3 DEF ConfigChangesAuthorized, TierChangesAuthorized
<1>7. AccountsKept /\ DefaultsTaken
  BY <1>2, <1>3 DEF AccountsKept, DefaultsTaken
<1> QED
  BY <1>4, <1>5, <1>6, <1>7 DEF StepSafe

-----------------------------------------------------------------------------
(* Creations *)

\* A new configuration touches no account that exists.
LEMMA ConfigCreation ==
  ASSUME IInv, NEW c \in Config, NEW authorities \in ConfigAuthorities,
         NEW rate \in ProtocolFeeRates, InitializeConfig(c, authorities, rate)
  PROVE  IInv' /\ StepSafe
<1> USE GovernanceAssumption
<1>1. NewConfig(authorities, rate) \in WhirlpoolsConfig
  <2>1. authorities \in Authorities /\ rate \in 0 .. MAX_PROTOCOL_FEE_RATE
    BY DEF InitializeConfig, ValidProtocolFeeRate
  <2> QED
    BY <2>1 DEF NewConfig, WhirlpoolsConfig, Authorities
<1>2. /\ c \notin DOMAIN configs /\ DOMAIN configs' = DOMAIN configs \cup {c}
      /\ configs'[c] = NewConfig(authorities, rate)
      /\ \A d \in DOMAIN configs : configs'[d] = configs[d]
      /\ signer' = Nobody /\ UNCHANGED <<fee_tiers, pools>>
  BY DEF InitializeConfig, WithAccount
<1>3. IInv'
  BY <1>1, <1>2 DEF IInv, TypeOK, SeedsMatch
<1>4. PoolChangesAuthorized
  <2>1. \A w \in DOMAIN pools : pools[w].protocol_fee_owed \in Nat
    BY DEF IInv, TypeOK, Whirlpool
  <2> QED
    BY <1>2, <2>1 DEF PoolChangesAuthorized
<1>5. ConfigChangesAuthorized /\ TierChangesAuthorized /\ AccountsKept /\ DefaultsTaken
  BY <1>2 DEF ConfigChangesAuthorized, TierChangesAuthorized, AccountsKept, DefaultsTaken
<1> QED
  BY <1>3, <1>4, <1>5 DEF StepSafe

\* A new pool takes its rates and reward authority from its own configuration,
\* and lies where its configuration, mints and spacing say.
LEMMA PoolCreation ==
  ASSUME IInv, NEW c \in Config, NEW t \in FeeTierAddress, NEW mint_a \in Mint,
         NEW mint_b \in Mint, NEW spacing \in TickSpacings,
         InitializePool(c, t, mint_a, mint_b, spacing)
  PROVE  IInv' /\ StepSafe
<1> USE GovernanceAssumption
<1> DEFINE w    == <<c, mint_a, mint_b, spacing>>
           pool == NewPool(c, t, mint_a, mint_b, spacing)
<1>1. /\ c \in DOMAIN configs /\ t \in DOMAIN fee_tiers /\ t[1] = c
      /\ configs[c] \in WhirlpoolsConfig /\ fee_tiers[t] \in FeeTier
  BY DEF InitializePool, TierOf, IInv, TypeOK, SeedsMatch
<1>2. t = <<c, t[2]>> /\ t[2] \in TickSpacings
  BY <1>1 DEF FeeTierAddress
<1>3. pool \in Whirlpool
  <2>1. configs[c].reward_emissions_super_authority \in Key
        /\ configs[c].default_protocol_fee_rate \in 0 .. MAX_PROTOCOL_FEE_RATE
        /\ fee_tiers[t].default_fee_rate \in 0 .. MAX_FEE_RATE
    BY <1>1 DEF WhirlpoolsConfig, FeeTier
  <2> QED
    BY <2>1 DEF NewPool, Whirlpool, WhirlpoolRewardInfo
<1>4. /\ pool.whirlpools_config = c /\ pool.tick_spacing = spacing
      /\ pool.token_mint_a = mint_a /\ pool.token_mint_b = mint_b
      /\ pool.fee_rate = fee_tiers[t].default_fee_rate
      /\ pool.protocol_fee_rate = configs[c].default_protocol_fee_rate
      /\ \A i \in RewardIndex :
           pool.reward_infos[i].authority = configs[c].reward_emissions_super_authority
  BY DEF NewPool
<1>5. /\ w \notin DOMAIN pools /\ DOMAIN pools' = DOMAIN pools \cup {w}
      /\ pools'[w] = pool /\ \A v \in DOMAIN pools : pools'[v] = pools[v]
      /\ mint_a < mint_b
      /\ signer' = Nobody /\ UNCHANGED <<configs, fee_tiers>>
  BY DEF InitializePool, WithAccount, ValidMints
<1>6. w \in PoolAddress /\ w[1] = c /\ w[2] = mint_a /\ w[3] = mint_b /\ w[4] = spacing
  BY DEF PoolAddress
<1> HIDE DEF w, pool
<1>7. IInv'
  BY <1>3, <1>4, <1>5, <1>6 DEF IInv, TypeOK, SeedsMatch
<1>8. PoolChangesAuthorized
  <2>1. \A v \in DOMAIN pools : pools[v].protocol_fee_owed \in Nat
    BY DEF IInv, TypeOK, Whirlpool
  <2> QED
    BY <1>5, <2>1 DEF PoolChangesAuthorized
<1>9. ConfigChangesAuthorized /\ TierChangesAuthorized /\ AccountsKept
  BY <1>5 DEF ConfigChangesAuthorized, TierChangesAuthorized, AccountsKept
<1>10. DefaultsTaken
  BY <1>1, <1>2, <1>4, <1>5 DEF DefaultsTaken
<1> QED
  BY <1>7, <1>8, <1>9, <1>10 DEF StepSafe

-----------------------------------------------------------------------------
(* Every step *)

\* With no accounts, none lies in the wrong place.
LEMMA IInvInit == Init => IInv
BY DEF Init, IInv, TypeOK, SeedsMatch

\* Each instruction is an edit or a creation of one of these kinds.
LEMMA NextSafe ==
  ASSUME IInv, Next
  PROVE  IInv' /\ StepSafe
<1>1. CASE \/ PoolNext \/ EnableNext \/ CollectNext
           \/ \E w \in PoolAddress, amount \in FeeAmounts : AccrueProtocolFee(w, amount)
  BY <1>1, PoolInstructions, PoolEditSafe
<1>2. CASE RewardAuthorityNext \/ RewardNext
  BY <1>2, RewardInstructions, PoolEditSafe
<1>3. CASE ConfigNext \/ DefaultsNext
  BY <1>3, ConfigInstructions, TierInstructions DEF DefaultsNext
<1>4. CASE FeeTierNext
  BY <1>4, TierInstructions
<1>5. CASE CreationNext
  BY <1>5, ConfigCreation, PoolCreation DEF CreationNext
<1> QED
  BY <1>1, <1>2, <1>3, <1>4, <1>5 DEF Next

\* The invariant outlasts every step.
LEMMA IInvStep == IInv /\ [Next]_vars => IInv'
<1>1. ASSUME IInv, UNCHANGED vars
      PROVE  IInv'
  BY <1>1 DEF IInv, TypeOK, SeedsMatch, vars
<1> QED
  BY <1>1, NextSafe

\* So the invariant of the configurations holds in every reachable state.
LEMMA Invariance == Spec => []IInv
BY IInvInit, IInvStep, PTL DEF Spec

-----------------------------------------------------------------------------
(* The theorems *)

\* Every rate that is in force, or that a pool can still be created with, is
\* legal, and every account is of its type.
THEOREM TypeCorrect == Spec => []TypeOK
BY Invariance, PTL DEF IInv

\* Every fee tier and every pool is at the address that the fields of its own account
\* derive, so that no account of another configuration, spacing or pair of mints can
\* stand in for it (initialize_pool.rs:17, initialize_fee_tier.rs:11).
THEOREM AccountsAtTheirAddress == Spec => []SeedsMatch
BY Invariance, PTL DEF IInv

\* A configuration has one pool of a spacing for two mints: the address orders
\* them, and an account is where its fields say.
THEOREM OnePoolForAPair == Spec => []OnePoolPerPair
<1>1. IInv => OnePoolPerPair
  <2> SUFFICES ASSUME IInv, NEW v \in DOMAIN pools, NEW w \in DOMAIN pools,
                      v[1] = w[1], v[4] = w[4], {v[2], v[3]} = {w[2], w[3]}
               PROVE  v = w
    BY DEF OnePoolPerPair, IInv, SeedsMatch
  <2>1. /\ v[2] \in Int /\ v[3] \in Int /\ w[2] \in Int /\ w[3] \in Int
        /\ v[2] < v[3] /\ w[2] < w[3]
    BY GovernanceAssumption DEF IInv, TypeOK, SeedsMatch, PoolAddress
  <2>2. v[2] = w[2] /\ v[3] = w[3]
    BY <2>1
  <2>3. v = <<v[1], v[2], v[3], v[4]>> /\ w = <<w[1], w[2], w[3], w[4]>>
    BY DEF IInv, TypeOK, PoolAddress
  <2> QED
    BY <2>2, <2>3
<1> QED
  BY <1>1, Invariance, PTL

\* Nobody changes a configuration, its tiers, its pools or their rewards but by
\* the role held there, for every combination of accounts.
THEOREM RolesHold == Spec => OnlyRoleHoldersChange
<1>1. IInv /\ [Next]_vars
      => [ConfigChangesAuthorized /\ PoolChangesAuthorized /\ TierChangesAuthorized]_vars
  BY NextSafe DEF StepSafe
<1> QED
  BY <1>1, Invariance, PTL DEF Spec, OnlyRoleHoldersChange

\* No account is created twice, and a reward keeps its mint.
THEOREM AccountsStay == Spec => NothingReinitialized
<1>1. IInv /\ [Next]_vars => [AccountsKept]_vars
  BY NextSafe DEF StepSafe
<1> QED
  BY <1>1, Invariance, PTL DEF Spec, NothingReinitialized, AccountsKept

\* A pool starts with what its own configuration prescribes.
THEOREM DefaultsOfOwnConfig == Spec => NewPoolTakesOwnDefaults
<1>1. IInv /\ [Next]_vars => [DefaultsTaken]_vars
  BY NextSafe DEF StepSafe
<1> QED
  BY <1>1, Invariance, PTL DEF Spec, NewPoolTakesOwnDefaults, DefaultsTaken

-----------------------------------------------------------------------------
(* The tokens of positions *)

\* A token account holds a token at most when it exists, and only persons own one.
AccountsSound ==
  \A x \in Address :
    /\ account[x].amount = 1 => account[x].exists
    /\ account[x].exists => account[x].owner \in Person
    /\ account[x].exists => position[MintOf(x)].status # "none"

BurntWereOpen == \A m \in burnt : position[m].status # "none"

\* What OneTokenPerPosition says, without counting: a second account with a
\* token of the same mint does not exist, and there is one exactly as long as
\* the supply is one.
TokenUnique ==
  \A m \in Position :
    /\ \A x, y \in Holders(m) : x = y
    /\ mint[m].supply = IF Holders(m) = {} THEN 0 ELSE 1
    /\ mint[m].authority = None
    /\ Holders(m) # {} <=> (position[m].status = "open" /\ m \notin burnt)

TokenIInv == TokenTypeOK /\ AccountsSound /\ BurntWereOpen /\ TokenUnique

\* Initially no position, mint or account exists, so that nobody holds a token.
LEMMA TokenInitInv == TokenInit => TokenIInv
<1> SUFFICES ASSUME TokenInit PROVE TokenIInv
  OBVIOUS
<1>1. TokenTypeOK
  BY PositionTokenAssumption DEF TokenInit, TokenTypeOK, Account, NoAccount
<1>2. AccountsSound /\ BurntWereOpen
  BY DEF TokenInit, AccountsSound, BurntWereOpen, NoAccount
<1>3. \A m \in Position : Holders(m) = {}
  BY DEF TokenInit, Holders, NoAccount
<1>4. TokenUnique
  BY <1>3 DEF TokenInit, TokenUnique
<1> QED
  BY <1>1, <1>2, <1>4 DEF TokenIInv

\* As long as the same accounts hold the same tokens, nothing changes.
LEMMA SameHolders ==
  ASSUME TokenUnique,
         \A x \in Address : account'[x].amount = account[x].amount,
         \A m \in Position : /\ mint'[m] = mint[m]
                             /\ position'[m].status = "open" <=> position[m].status = "open",
         burnt' = burnt
  PROVE  TokenUnique'
<1>1. \A m \in Position : Holders(m)' = Holders(m)
  BY DEF Holders
<1> QED
  BY <1>1 DEF TokenUnique

\* The token of a position goes from nobody, or from one account, to another
\* account or to nobody.
LEMMA HolderChanges ==
  ASSUME TokenUnique, NEW m \in Position, NEW new \in SUBSET Address,
         \A x, y \in new : x = y, \A x \in new : x[2] = m,
         \A x \in Address : account'[x].amount =
           IF x[2] = m THEN IF x \in new THEN 1 ELSE 0 ELSE account[x].amount,
         \A n \in Position \ {m} :
            /\ mint'[n] = mint[n]
            /\ position'[n].status = "open" <=> position[n].status = "open"
            /\ n \in burnt' <=> n \in burnt,
         mint'[m].authority = None,
         mint'[m].supply = IF new = {} THEN 0 ELSE 1,
         new # {} <=> (position'[m].status = "open" /\ m \notin burnt')
  PROVE  TokenUnique'
<1>1. Holders(m)' = new
  BY DEF Holders, MintOf
<1>2. \A n \in Position \ {m} : Holders(n)' = Holders(n)
  BY DEF Holders, MintOf
<1> QED
  BY <1>1, <1>2 DEF TokenUnique

\* What spending a token leaves of an account (spl-token, as the code relies on it).
LEMMA Spent ==
  ASSUME NEW a \in Account, NEW key \in Person, Spends(a, key)
  PROVE  /\ AfterSpending(a, key) \in Account
         /\ AfterSpending(a, key).amount = 0
         /\ AfterSpending(a, key).exists = a.exists
         /\ AfterSpending(a, key).owner = a.owner
         /\ AfterSpending(a, key).close_authority = a.close_authority
<1>1. a.delegate = key => a.delegated_amount - 1 \in Nat
  BY DEF Spends, Account
<1> QED
  BY <1>1 DEF AfterSpending, Account

\* Opening a position mints its one token (util/token.rs:107).
LEMMA OpenedKeeps ==
  ASSUME TokenIInv, NEW m \in Position, NEW owner \in Person, NEW with_metadata \in BOOLEAN,
         Opened(m, owner, with_metadata)
  PROVE  TokenIInv'
<1> DEFINE x == <<owner, m>>
<1> USE DEF Opened, TokenIInv
<1>1. x \in Address /\ x[2] = m
  BY DEF Address
<1>2. TokenTypeOK'
  <2>1. [EmptyAccount(owner) EXCEPT !.amount = 1] \in Account
    BY DEF Account, EmptyAccount, NoAccount
  <2>2. account' \in [Address -> Account]
    BY <1>1, <2>1 DEF TokenTypeOK
  <2>3. MintedAndSealed(with_metadata)
          \in [supply : {0, 1}, authority : {None}, metadata : BOOLEAN]
    BY DEF MintedAndSealed
  <2>4. mint' \in [Position -> [supply : {0, 1}, authority : {None}, metadata : BOOLEAN]]
    BY <2>3 DEF TokenTypeOK
  <2>5. [status |-> "open", worth |-> 0] \in [status : {"none", "open", "closed"}, worth : 0 .. MaxWorth]
    BY PositionTokenAssumption
  <2>6. position' \in [Position -> [status : {"none", "open", "closed"}, worth : 0 .. MaxWorth]]
    BY <2>5 DEF TokenTypeOK
  <2> QED
    BY <2>2, <2>4, <2>6 DEF TokenTypeOK
<1>3. /\ account'[x].amount = 1 /\ account'[x].exists /\ account'[x].owner = owner
      /\ \A y \in Address : y # x => account'[y] = account[y]
  BY <1>1 DEF TokenTypeOK, EmptyAccount, NoAccount
<1>4. /\ position'[m].status = "open" /\ position[m].status = "none"
      /\ \A n \in Position : n # m => position'[n] = position[n] /\ mint'[n] = mint[n]
      /\ mint'[m].supply = 1 /\ mint'[m].authority = None
  BY DEF TokenTypeOK, MintedAndSealed
<1>5. AccountsSound' /\ BurntWereOpen'
  <2>1. ASSUME NEW y \in Address
        PROVE  /\ account'[y].amount = 1 => account'[y].exists
               /\ account'[y].exists => account'[y].owner \in Person
               /\ account'[y].exists => position'[y[2]].status # "none"
    <3>1. y[2] \in Position
      BY DEF Address
    <3> QED
      BY <1>1, <1>3, <1>4, <3>1 DEF AccountsSound, MintOf
  <2> QED
    BY <1>4, <2>1 DEF AccountsSound, BurntWereOpen, MintOf, TokenTypeOK
<1>6. Holders(m) = {} /\ m \notin burnt
  BY <1>4 DEF TokenUnique, BurntWereOpen
<1>7. \A y \in Address :
        account'[y].amount = IF y[2] = m THEN IF y \in {x} THEN 1 ELSE 0 ELSE account[y].amount
  <2> SUFFICES ASSUME NEW y \in Address, y[2] = m, y # x
               PROVE  account'[y].amount = 0
    BY <1>1, <1>3
  <2>1. account[y].amount # 1
    BY <1>6 DEF Holders, MintOf
  <2> QED
    BY <1>3, <2>1 DEF TokenTypeOK, Account
<1>8. TokenUnique'
  <2>1. {x} \in SUBSET Address /\ {x} # {} /\ (\A y \in {x} : y[2] = m)
    BY <1>1
  <2>2. m \notin burnt' /\ burnt' = burnt
    BY <1>6
  <2>3. \A n \in Position \ {m} :
            /\ mint'[n] = mint[n]
            /\ position'[n].status = "open" <=> position[n].status = "open"
            /\ n \in burnt' <=> n \in burnt
    BY <1>4, <2>2
  <2>4. \A y, z \in {x} : y = z
    OBVIOUS
  <2>5. TokenUnique
    OBVIOUS
  <2> DEFINE new == {x}
  <2>6. /\ new \in SUBSET Address /\ new # {} /\ \A y \in new : y[2] = m
        /\ \A y, z \in new : y = z
        /\ \A y \in Address :
             account'[y].amount = IF y[2] = m THEN IF y \in new THEN 1 ELSE 0 ELSE account[y].amount
    BY <1>7, <2>1, <2>4
  <2> HIDE DEF new, x
  <2> QED
    BY ONLY <1>4, <2>2, <2>3, <2>5, <2>6, HolderChanges, m \in Position
<1> QED
  BY <1>2, <1>5, <1>8

\* Deposits and withdrawals leave the tokens alone.
LEMMA WorthChanges ==
  ASSUME TokenIInv, NEW m \in Position, NEW x \in Address, NEW key \in Person,
         NEW collect \in BOOLEAN,
         IncreaseLiquidity(m, x, key) \/ Withdraw(m, x, key, collect)
  PROVE  TokenIInv'
<1> USE DEF IncreaseLiquidity, Withdraw, TokenIInv
<1>1. position[m].worth \in 0 .. MaxWorth /\ MaxWorth \in Nat
  BY PositionTokenAssumption DEF TokenTypeOK
<1>2. TokenTypeOK'
  BY <1>1 DEF TokenTypeOK
<1>3. \A n \in Position : position'[n].status = position[n].status
  BY DEF TokenTypeOK
<1>4. AccountsSound' /\ BurntWereOpen'
  <2>1. \A y \in Address : y[2] \in Position
    BY DEF Address
  <2> QED
    BY <1>3, <2>1 DEF AccountsSound, BurntWereOpen, TokenTypeOK, MintOf
<1>5. TokenUnique'
  BY <1>3, SameHolders
<1> QED
  BY <1>2, <1>4, <1>5

\* So does everything in the token program that edits one account without
\* moving its token.
LEMMA AccountEdited ==
  ASSUME TokenIInv, NEW x \in Address, NEW a \in Account,
         account' = [account EXCEPT ![x] = a],
         a.amount = account[x].amount,
         a.amount = 1 => a.exists,
         a.exists => a.owner \in Person /\ position[x[2]].status # "none",
         UNCHANGED <<is_enabled, position, mint, burnt>>
  PROVE  TokenIInv'
<1> USE DEF TokenIInv
<1>1. TokenTypeOK'
  BY DEF TokenTypeOK
<1>2. account'[x] = a /\ \A y \in Address : y # x => account'[y] = account[y]
  BY DEF TokenTypeOK
<1>3. AccountsSound' /\ BurntWereOpen'
  BY <1>2 DEF AccountsSound, BurntWereOpen, MintOf
<1>4. \A y \in Address : account'[y].amount = account[y].amount
  BY <1>2
<1>5. TokenUnique'
  BY <1>4, SameHolders
<1> QED
  BY <1>1, <1>3, <1>5

\* A token that is burnt leaves its position without one, whether the program
\* closes the position or the holder has burnt the token for no reason.
LEMMA TokenGone ==
  ASSUME TokenIInv, NEW m \in Position, NEW x \in Holders(m), NEW a \in Account,
         account' = [account EXCEPT ![x] = a],
         a.amount = 0, a.exists => a.owner = account[x].owner,
         mint' = [mint EXCEPT ![m].supply = @ - 1],
         \/ /\ position' = [position EXCEPT ![m].status = "closed"]
            /\ burnt' = burnt
         \/ /\ position' = position
            /\ burnt' = burnt \cup {m},
         is_enabled' = is_enabled
  PROVE  TokenIInv'
<1> USE DEF TokenIInv
<1>1. x \in Address /\ x[2] = m /\ account[x].amount = 1 /\ account[x].exists
      /\ account[x].owner \in Person
  BY DEF Holders, MintOf, AccountsSound
<1>2. mint[m].supply = 1 /\ position[m].status = "open" /\ m \notin burnt
      /\ \A y \in Holders(m) : y = x
  BY DEF TokenUnique
<1>3. account'[x] = a /\ \A y \in Address : y # x => account'[y] = account[y]
  BY <1>1 DEF TokenTypeOK
<1>4. /\ position'[m].status # "none"
      /\ position'[m].status = "closed" \/ m \in burnt'
      /\ \A n \in Position : n # m => position'[n] = position[n]
      /\ \A n \in Position \ {m} : n \in burnt' <=> n \in burnt
      /\ m \in burnt' => position'[m] = position[m]
  BY <1>2 DEF TokenTypeOK
<1>5. /\ mint'[m].supply = 0 /\ mint'[m].authority = None
      /\ \A n \in Position : n # m => mint'[n] = mint[n]
  BY <1>2 DEF TokenTypeOK
<1>6. TokenTypeOK'
  <2>1. account' \in [Address -> Account]
    BY <1>1 DEF TokenTypeOK
  <2>2. mint' \in [Position -> [supply : {0, 1}, authority : {None}, metadata : BOOLEAN]]
    BY <1>2 DEF TokenTypeOK
  <2>3. position' \in [Position -> [status : {"none", "open", "closed"}, worth : 0 .. MaxWorth]]
    BY DEF TokenTypeOK
  <2> QED
    BY <2>1, <2>2, <2>3 DEF TokenTypeOK
<1>7. AccountsSound' /\ BurntWereOpen'
  <2>1. \A y \in Address : y[2] \in Position
    BY DEF Address
  <2>2. \A n \in Position : position[n].status # "none" => position'[n].status # "none"
    BY <1>4
  <2>3. burnt' \subseteq burnt \cup {m} /\ position'[m].status # "none" /\ burnt \subseteq Position
    BY <1>4 DEF TokenTypeOK
  <2> QED
    BY <1>1, <1>3, <2>1, <2>2, <2>3 DEF AccountsSound, BurntWereOpen, MintOf
<1>8. \A y \in Address :
        account'[y].amount = IF y[2] = m THEN IF y \in {} THEN 1 ELSE 0 ELSE account[y].amount
  <2> SUFFICES ASSUME NEW y \in Address, y[2] = m, y # x
               PROVE  account'[y].amount = 0
    BY <1>1, <1>3
  <2>1. account[y].amount # 1
    BY <1>2 DEF Holders, MintOf
  <2> QED
    BY <1>3, <2>1 DEF TokenTypeOK, Account
<1>9. TokenUnique'
  <2> DEFINE new == {}
  <2>1. /\ new \in SUBSET Address /\ new = {} /\ (\A y \in new : y[2] = m)
        /\ \A y, z \in new : y = z
        /\ \A y \in Address :
             account'[y].amount = IF y[2] = m THEN IF y \in new THEN 1 ELSE 0 ELSE account[y].amount
    BY <1>8
  <2>2. /\ ~(position'[m].status = "open" /\ m \notin burnt')
        /\ \A n \in Position \ {m} :
            /\ mint'[n] = mint[n]
            /\ position'[n].status = "open" <=> position[n].status = "open"
            /\ n \in burnt' <=> n \in burnt
    BY <1>4, <1>5
  <2>3. TokenUnique
    OBVIOUS
  <2> HIDE DEF new
  <2> QED
    BY ONLY <1>5, <2>1, <2>2, <2>3, HolderChanges, m \in Position
<1> QED
  BY <1>6, <1>7, <1>9

\* Closing a position burns its token together with the account that held it.
LEMMA CloseKeeps ==
  ASSUME TokenIInv, NEW m \in Position, NEW x \in Address, NEW key \in Person,
         ClosePosition(m, x, key)
  PROVE  TokenIInv'
<1>1. x \in Holders(m) /\ x[2] = m
  BY DEF ClosePosition, Authorized, HoldsPositionToken, Holders, MintOf
<1>2. NoAccount \in Account /\ NoAccount.amount = 0 /\ ~NoAccount.exists
  BY DEF NoAccount, Account
<1> QED
  BY <1>1, <1>2, TokenGone DEF ClosePosition, burn_and_close_user_position_token, MintOf

\* Burning takes the only token of a mint away, and leaves the account empty.
LEMMA BurnKeeps ==
  ASSUME TokenIInv, NEW x \in Address, NEW key \in Person, TokenProgram, Burn(x, key)
  PROVE  TokenIInv'
<1> DEFINE m == x[2]
           a == AfterSpending(account[x], key)
<1>1. m \in Position /\ x \in Holders(m)
  BY DEF Address, Burn, Holders, MintOf
<1>2. account[x] \in Account
  BY DEF TokenIInv, TokenTypeOK
<1>3. a \in Account /\ a.amount = 0 /\ a.owner = account[x].owner
  BY <1>2, Spent DEF Burn
<1>4. /\ account' = [account EXCEPT ![x] = a]
      /\ mint' = [mint EXCEPT ![m].supply = @ - 1]
      /\ position' = position /\ burnt' = burnt \cup {m} /\ is_enabled' = is_enabled
  BY DEF Burn, TokenProgram, MintOf
<1> HIDE DEF a, m
<1> QED
  BY <1>1, <1>3, <1>4, TokenGone

\* A transfer moves a mint's only token: one account becomes empty, the other
\* holds it.
LEMMA TransferKeeps ==
  ASSUME TokenIInv, NEW from \in Address, NEW to \in Address, NEW key \in Person, TokenProgram,
         Transfer(from, to, key)
  PROVE  TokenIInv'
<1> DEFINE m == from[2]
           a == AfterSpending(account[from], key)
           b == [account[to] EXCEPT !.amount = 1]
<1> USE DEF TokenIInv
<1>1. /\ m \in Position /\ from \in Holders(m) /\ to[2] = m /\ from # to
      /\ account[to].exists
  BY DEF Address, Transfer, Holders, MintOf
<1>2. account[from] \in Account /\ account[to] \in Account
  BY DEF TokenTypeOK
<1>3. /\ a \in Account /\ a.amount = 0 /\ a.exists = account[from].exists
      /\ a.owner = account[from].owner
  BY <1>2, Spent DEF Transfer
<1>4. /\ b \in Account /\ b.amount = 1 /\ b.exists /\ b.owner = account[to].owner
  BY <1>1, <1>2 DEF Account
<1>5. account' = [account EXCEPT ![from] = a, ![to] = b]
  BY <1>1, <1>2 DEF Transfer, TokenTypeOK
<1>6. UNCHANGED <<is_enabled, position, mint, burnt>>
  BY DEF Transfer, TokenProgram
<1> HIDE DEF a, b, m
<1>7. TokenTypeOK'
  BY <1>3, <1>4, <1>5, <1>6 DEF TokenTypeOK
<1>8. /\ account'[from] = a /\ account'[to] = b
      /\ \A y \in Address : y # from /\ y # to => account'[y] = account[y]
  BY <1>1, <1>5 DEF TokenTypeOK
<1>9. AccountsSound' /\ BurntWereOpen'
  BY <1>1, <1>3, <1>4, <1>6, <1>8 DEF AccountsSound, BurntWereOpen, MintOf
<1>10. \A y \in Holders(m) : y = from
  BY <1>1 DEF TokenUnique
<1>11. \A y \in Address :
         account'[y].amount = IF y[2] = m THEN IF y \in {to} THEN 1 ELSE 0 ELSE account[y].amount
  <2> SUFFICES ASSUME NEW y \in Address, y[2] = m, y # to, y # from
               PROVE  account'[y].amount = 0
    BY <1>1, <1>3, <1>4, <1>8 DEF m
  <2>1. account[y].amount # 1
    BY <1>10 DEF Holders, MintOf
  <2> QED
    BY <1>8, <2>1 DEF TokenTypeOK, Account
<1>12. TokenUnique'
  <2> DEFINE new == {to}
  <2>1. /\ new \in SUBSET Address /\ new # {} /\ (\A y \in new : y[2] = m)
        /\ \A y, z \in new : y = z
        /\ \A y \in Address :
             account'[y].amount = IF y[2] = m THEN IF y \in new THEN 1 ELSE 0 ELSE account[y].amount
    BY <1>1, <1>11
  <2>2. /\ position'[m].status = "open" /\ m \notin burnt'
        /\ mint'[m].supply = 1 /\ mint'[m].authority = None
    BY <1>1, <1>6 DEF TokenUnique
  <2>3. TokenUnique
    OBVIOUS
  <2> HIDE DEF new
  <2> QED
    BY ONLY <1>1, <1>6, <2>1, <2>2, <2>3, HolderChanges
<1> QED
  BY <1>7, <1>9, <1>12

\* The other things keys do in the token program.
LEMMA TokenProgramKeeps ==
  ASSUME TokenIInv, NEW x \in Address, TokenProgram,
         \/ CreateAccount(x)
         \/ \E delegate \in Person, amount \in DelegatedAmounts : Approve(x, delegate, amount)
         \/ Revoke(x)
         \/ \E new \in Person : SetOwner(x, new)
         \/ \E new \in Person \cup {None} : SetCloseAuthority(x, new)
         \/ CloseAccount(x)
  PROVE  TokenIInv'
<1> DEFINE old == account[x]
<1>1. /\ old \in Account
      /\ old.amount = 1 => old.exists
      /\ old.exists => old.owner \in Person /\ position[x[2]].status # "none"
      /\ UNCHANGED <<is_enabled, position>>
      /\ account \in [Address -> Account]
  BY DEF TokenIInv, TokenTypeOK, AccountsSound, TokenProgram, MintOf
<1>2. CASE CreateAccount(x)
  <2>1. EmptyAccount(x[1]) \in Account
    BY DEF EmptyAccount, NoAccount, Account, Address
  <2>2. /\ EmptyAccount(x[1]).amount = 0 /\ EmptyAccount(x[1]).owner \in Person
        /\ old.amount = 0
    BY <1>1, <1>2 DEF EmptyAccount, NoAccount, Account, Address, CreateAccount
  <2> QED
    BY <1>1, <1>2, <2>1, <2>2, AccountEdited DEF CreateAccount, MintOf
<1>3. CASE CloseAccount(x)
  <2>1. NoAccount \in Account /\ NoAccount.amount = 0 /\ ~NoAccount.exists
    BY DEF NoAccount, Account
  <2> DEFINE a == NoAccount
  <2>2. account' = [account EXCEPT ![x] = a] /\ old.amount = 0 /\ UNCHANGED <<mint, burnt>>
    BY <1>3 DEF CloseAccount
  <2>3. a \in Account /\ a.amount = old.amount /\ ~(a.amount = 1) /\ ~a.exists
    BY <2>1, <2>2
  <2> HIDE DEF a
  <2> QED
    BY <1>1, <2>2, <2>3, AccountEdited
<1>4. ASSUME NEW a \in Account, account' = [account EXCEPT ![x] = a], a.amount = old.amount,
             a.exists = old.exists, old.exists => a.owner \in Person, UNCHANGED <<mint, burnt>>
      PROVE  TokenIInv'
  BY <1>1, <1>4, AccountEdited
<1>5. ASSUME NEW delegate \in Person, NEW amount \in DelegatedAmounts,
             Approve(x, delegate, amount)
      PROVE  TokenIInv'
  <2> DEFINE a == [old EXCEPT !.delegate = delegate, !.delegated_amount = amount]
  <2>1. a \in Account /\ a.amount = old.amount /\ a.exists = old.exists /\ a.owner = old.owner
    BY <1>1, PositionTokenAssumption DEF Account
  <2>2. account' = [account EXCEPT ![x] = a]
    BY <1>1, <1>5 DEF Approve
  <2> QED
    BY <1>1, <1>4, <1>5, <2>1, <2>2 DEF Approve
<1>6. CASE Revoke(x)
  <2> DEFINE a == [old EXCEPT !.delegate = None, !.delegated_amount = 0]
  <2>1. a \in Account /\ a.amount = old.amount /\ a.exists = old.exists /\ a.owner = old.owner
    BY <1>1 DEF Account
  <2>2. account' = [account EXCEPT ![x] = a]
    BY <1>1, <1>6 DEF Revoke
  <2> QED
    BY <1>1, <1>4, <1>6, <2>1, <2>2 DEF Revoke
<1>7. ASSUME NEW new \in Person, SetOwner(x, new)
      PROVE  TokenIInv'
  <2> DEFINE a == [old EXCEPT !.owner = new, !.delegate = None, !.delegated_amount = 0]
  <2>1. a \in Account /\ a.amount = old.amount /\ a.exists = old.exists /\ a.owner = new
    BY <1>1 DEF Account
  <2>2. account' = [account EXCEPT ![x] = a]
    BY <1>1, <1>7 DEF SetOwner
  <2> QED
    BY <1>1, <1>4, <1>7, <2>1, <2>2, ZenonT(60) DEF SetOwner
<1>8. ASSUME NEW new \in Person \cup {None}, SetCloseAuthority(x, new)
      PROVE  TokenIInv'
  <2> DEFINE a == [old EXCEPT !.close_authority = new]
  <2>1. a \in Account /\ a.amount = old.amount /\ a.exists = old.exists /\ a.owner = old.owner
    BY <1>1 DEF Account
  <2>2. account' = [account EXCEPT ![x] = a]
    BY <1>1, <1>8 DEF SetCloseAuthority
  <2> QED
    BY <1>1, <1>4, <1>8, <2>1, <2>2 DEF SetCloseAuthority
<1> QED
  BY <1>2, <1>3, <1>5, <1>6, <1>7, <1>8

\* Every instruction on positions and every one of the token program keeps the
\* invariant of the tokens.
LEMMA TokenInvStep == TokenIInv /\ [PositionTokenNext]_tokenvars => TokenIInv'
<1> SUFFICES ASSUME TokenIInv, [PositionTokenNext]_tokenvars
             PROVE  TokenIInv'
  OBVIOUS
<1>1. ASSUME NEW m \in Position, NEW owner \in Person,
             OpenPosition(m, owner) \/ OpenPositionWithMetadata(m, owner)
      PROVE  TokenIInv'
  BY <1>1, OpenedKeeps DEF OpenPosition, OpenPositionWithMetadata
<1>2. ASSUME NEW m \in Position, NEW x \in Address, NEW key \in Person,
             \/ IncreaseLiquidity(m, x, key)
             \/ \E collect \in BOOLEAN : Withdraw(m, x, key, collect)
      PROVE  TokenIInv'
  BY <1>2, WorthChanges
<1>3. ASSUME NEW m \in Position, NEW x \in Address, NEW key \in Person, ClosePosition(m, x, key)
      PROVE  TokenIInv'
  BY <1>3, CloseKeeps
<1>4. ASSUME UNCHANGED <<position, mint, account, burnt>>, is_enabled' \in BOOLEAN
      PROVE  TokenIInv'
  <2>1. \A m \in Position : Holders(m)' = Holders(m)
    BY <1>4 DEF Holders
  <2> QED
    BY <1>4, <2>1 DEF TokenIInv, TokenTypeOK, AccountsSound, BurntWereOpen, TokenUnique
<1>5. ASSUME NEW enabled \in BOOLEAN, SetEnableFlagOfPool(enabled)
      PROVE  TokenIInv'
  BY <1>4, <1>5 DEF SetEnableFlagOfPool
<1>6. ASSUME TokenNext
      PROVE  TokenIInv'
  BY <1>6, TokenProgramKeeps, TransferKeeps, BurnKeeps DEF TokenNext
<1>7. ASSUME UNCHANGED tokenvars
      PROVE  TokenIInv'
  BY <1>4, <1>7 DEF tokenvars, TokenIInv, TokenTypeOK
<1> QED
  BY <1>1, <1>2, <1>3, <1>5, <1>6, <1>7 DEF PositionTokenNext, ProgramNext

\* So it holds in every reachable state.
LEMMA TokenInvariance == PositionTokenSpec => []TokenIInv
BY TokenInitInv, TokenInvStep, PTL DEF PositionTokenSpec

\* Whatever is done with tokens, accounts and delegations, a position that is
\* open has exactly one token unless its holder burnt it, and no other has any.
THEOREM OneToken == PositionTokenSpec => []OneTokenPerPosition
<1>1. TokenIInv => OneTokenPerPosition
  <2> SUFFICES ASSUME TokenIInv, NEW m \in Position
               PROVE  /\ Cardinality(Holders(m)) = mint[m].supply
                      /\ mint[m].authority = None
                      /\ mint[m].supply =
                           IF position[m].status = "open" /\ m \notin burnt THEN 1 ELSE 0
    BY DEF OneTokenPerPosition
  <2>1. CASE Holders(m) = {}
    BY <2>1, FS_EmptySet DEF TokenIInv, TokenUnique
  <2>2. ASSUME NEW x \in Holders(m)
        PROVE  Cardinality(Holders(m)) = 1
    <3>1. Holders(m) = {x}
      BY DEF TokenIInv, TokenUnique
    <3> QED
      BY <3>1, FS_Singleton
  <2> QED
    BY <2>1, <2>2 DEF TokenIInv, TokenUnique
<1> QED
  BY <1>1, TokenInvariance, PTL

\* Only the account that holds the token gives its owner, and its delegate for
\* exactly one, the right to act (util/util.rs:15); when nobody holds it, nobody
\* acts.
THEOREM HolderActs == PositionTokenSpec => []OnlyHolderActs
<1>1. ASSUME TokenIInv, NEW m \in Position, NEW x \in Holders(m)
      PROVE  ActsForPosition(m) =
               IF account[x].delegate = None THEN {account[x].owner}
               ELSE IF account[x].delegated_amount = 1
               THEN {account[x].owner, account[x].delegate}
               ELSE {account[x].owner} \ {account[x].delegate}
  <2>1. /\ x \in Address /\ x[2] = m /\ account[x].amount = 1 /\ account[x].exists
        /\ account[x].owner \in Person /\ account[x].delegate \in Person \cup {None}
    BY <1>1 DEF TokenIInv, AccountsSound, TokenTypeOK, Account, Holders, MintOf
  <2>2. \A y \in Address : HoldsPositionToken(m, y) => y = x
    BY <1>1 DEF TokenIInv, TokenUnique, HoldsPositionToken, Holders
  <2>3. \A key \in Person :
          (\E y \in Address : Authorized(m, y, key)) <=> verify_position_authority(account[x], key)
    BY <2>1, <2>2 DEF Authorized, HoldsPositionToken, MintOf
  <2>4. ActsForPosition(m) = {key \in Person : verify_position_authority(account[x], key)}
    BY <2>3 DEF ActsForPosition
  <2> QED
    BY <2>1, <2>4, PositionTokenAssumption DEF verify_position_authority
<1>2. ASSUME NEW m \in Position, Holders(m) = {}
      PROVE  ActsForPosition(m) = {}
  BY <1>2 DEF ActsForPosition, Authorized, HoldsPositionToken, Holders
<1>3. TokenIInv => OnlyHolderActs
  BY <1>1, <1>2 DEF OnlyHolderActs
<1> QED
  BY <1>3, TokenInvariance, PTL

\* The body of ClosedByRightfulKey.
RightfulClosings ==
  \A m \in Position :
    (position[m].status = "open" /\ position'[m].status = "closed") =>
      /\ position[m].worth = 0
      /\ \E x \in Holders(m), key \in Person :
           LET a == account[x]
           IN  /\ acted' = <<m, key>>
               /\ \/ key = a.owner /\ key # a.delegate
                  \/ key = a.delegate /\ a.delegated_amount = 1
               /\ key = a.close_authority \/ (a.close_authority = None /\ key = a.owner)
               /\ ~account'[x].exists

\* Closing takes one key with both rights, to act for the position and to close the
\* account that holds its token (instructions/close_position.rs:33, util/token.rs:20).
THEOREM RightfulKeyCloses == PositionTokenSpec => ClosedByRightfulKey
<1>1. ASSUME TokenIInv, [PositionTokenNext]_tokenvars, NEW m \in Position,
             position[m].status = "open", position'[m].status = "closed"
      PROVE  \E x \in Address, key \in Person : ClosePosition(m, x, key)
  <2> USE DEF TokenIInv, TokenTypeOK
  <2>1. ASSUME NEW n \in Position, NEW owner \in Person,
               OpenPosition(n, owner) \/ OpenPositionWithMetadata(n, owner)
        PROVE  FALSE
    BY <1>1, <2>1 DEF OpenPosition, OpenPositionWithMetadata, Opened
  <2>2. ASSUME NEW n \in Position, NEW x \in Address, NEW key \in Person,
               \/ IncreaseLiquidity(n, x, key)
               \/ \E collect \in BOOLEAN : Withdraw(n, x, key, collect)
        PROVE  FALSE
    BY <1>1, <2>2 DEF IncreaseLiquidity, Withdraw
  <2>3. ASSUME NEW n \in Position, NEW x \in Address, NEW key \in Person,
               ClosePosition(n, x, key)
        PROVE  ClosePosition(m, x, key)
    BY <1>1, <2>3 DEF ClosePosition
  <2>4. ~ UNCHANGED position
    BY <1>1
  <2> QED
    BY <1>1, <2>1, <2>2, <2>3, <2>4
       DEF PositionTokenNext, ProgramNext, TokenNext, TokenProgram, SetEnableFlagOfPool, tokenvars
<1>2. ASSUME TokenIInv, NEW m \in Position, NEW x \in Address, NEW key \in Person,
             ClosePosition(m, x, key)
      PROVE  /\ position[m].worth = 0 /\ x \in Holders(m)
             /\ acted' = <<m, key>>
             /\ \/ key = account[x].owner /\ key # account[x].delegate
                \/ key = account[x].delegate /\ account[x].delegated_amount = 1
             /\ \/ key = account[x].close_authority
                \/ account[x].close_authority = None /\ key = account[x].owner
             /\ ~account'[x].exists
  <2>1. account[x] \in Account /\ account \in [Address -> Account]
    BY <1>2 DEF TokenIInv, TokenTypeOK
  <2>2. x \in Holders(m) /\ verify_position_authority(account[x], key)
    BY <1>2 DEF ClosePosition, Authorized, HoldsPositionToken, Holders
  <2>3. MayClose(AfterSpending(account[x], key), key) /\ Spends(account[x], key)
        /\ account' = [account EXCEPT ![x] = NoAccount]
    BY <1>2 DEF ClosePosition, burn_and_close_user_position_token
  <2>4. key = IF account[x].close_authority = None THEN account[x].owner
              ELSE account[x].close_authority
    BY <2>1, <2>3, Spent DEF MayClose
  <2>5. \/ key = account[x].owner /\ key # account[x].delegate
        \/ key = account[x].delegate /\ account[x].delegated_amount = 1
    BY <2>2 DEF verify_position_authority
  <2>6. ~account'[x].exists
    BY <2>1, <2>3 DEF NoAccount
  <2> QED
    BY <1>2, <2>2, <2>4, <2>5, <2>6 DEF ClosePosition
<1>3. TokenIInv /\ [PositionTokenNext]_tokenvars => [RightfulClosings]_tokenvars
  BY <1>1, <1>2 DEF RightfulClosings
<1> QED
  BY <1>3, TokenInvariance, PTL DEF PositionTokenSpec, ClosedByRightfulKey, RightfulClosings
=============================================================================
