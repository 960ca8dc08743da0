----------------------------- MODULE PositionToken -----------------------------
(***************************************************************************)
(* The token that represents a position: whoever holds it, or is delegated *)
(* exactly one of it, acts for the position (util/util.rs, util/token.rs,  *)
(* the account constraints of the instructions on positions).              *)
(*                                                                         *)
(* The program mints one token when it opens a position and burns it when  *)
(* it closes it.  In between, the token lives in the token program, where  *)
(* its holder may transfer it, delegate it, burn it, hand its account or   *)
(* the right to close that over, all without the program's knowing.  The   *)
(* caller of an instruction chooses the token account it passes.           *)
(*                                                                         *)
(* What a position is worth is one number: 0 when is_position_empty holds. *)
(***************************************************************************)
EXTENDS Integers, FiniteSets

CONSTANTS
  Person,                  \* the keys of persons
  Position,                \* positions, each with its own mint
  None,                    \* no delegate, no authority
  MaxWorth,                \* bound: what a position may be worth
  DelegatedAmounts         \* the amounts a delegate is approved for

ASSUME PositionTokenAssumption ==
  /\ None \notin Person
  /\ MaxWorth \in Nat
  /\ DelegatedAmounts \subseteq Nat

VARIABLES
  is_enabled,              \* of the pool
  position,                \* Position accounts
  mint,                    \* their mints
  account,                 \* token accounts, at associated addresses
  acted,                   \* history: who acted on which position in the last step
  burnt                    \* history: tokens burnt by their holders

tokenvars == <<is_enabled, position, mint, account, acted, burnt>>

\* An associated account's address is derived from a person and a mint; its
\* owner may be another person later.
Address == Person \X Position
MintOf(x) == x[2]

NoAccount ==
  [exists |-> FALSE, owner |-> None, amount |-> 0, delegate |-> None, delegated_amount |-> 0,
   close_authority |-> None]

EmptyAccount(owner) == [NoAccount EXCEPT !.exists = TRUE, !.owner = owner]

NoActor == <<None, None>>

Account ==
  [exists : BOOLEAN, owner : Person \cup {None}, amount : {0, 1},
   delegate : Person \cup {None}, delegated_amount : Nat, close_authority : Person \cup {None}]

TokenTypeOK ==
  /\ is_enabled \in BOOLEAN
  /\ position \in [Position -> [status : {"none", "open", "closed"}, worth : 0 .. MaxWorth]]
  /\ mint \in [Position -> [supply : {0, 1}, authority : {None}, metadata : BOOLEAN]]
  /\ account \in [Address -> Account]
  /\ burnt \subseteq Position

TokenInit ==
  /\ is_enabled = TRUE
  /\ position = [m \in Position |-> [status |-> "none", worth |-> 0]]
  /\ mint = [m \in Position |-> [supply |-> 0, authority |-> None, metadata |-> FALSE]]
  /\ account = [x \in Address |-> NoAccount]
  /\ acted = NoActor
  /\ burnt = {}

-----------------------------------------------------------------------------
(* Opening *)

\* Mutant: the pool keeps the right to mint.
MintAndKeepAuthority(with_metadata) ==
  [supply |-> 1, authority |-> "whirlpool", metadata |-> with_metadata]

\* mint_position_token_and_remove_authority: the mint is created with the pool
\* as its authority, one token is minted, metadata is attached or not, and the
\* authority is removed.
MintedAndSealed(with_metadata) == [supply |-> 1, authority |-> None, metadata |-> with_metadata]

Opened(m, owner, with_metadata) ==
  /\ is_enabled
  /\ position[m].status = "none"
  /\ position' = [position EXCEPT ![m] = [status |-> "open", worth |-> 0]]
  /\ mint' = [mint EXCEPT ![m] = MintedAndSealed(with_metadata)]
  /\ account' = [account EXCEPT ![<<owner, m>>] = [EmptyAccount(owner) EXCEPT !.amount = 1]]
  /\ acted' = NoActor
  /\ UNCHANGED <<is_enabled, burnt>>

\* Anybody may open a position for any owner.
OpenPosition(m, owner) == Opened(m, owner, FALSE)

OpenPositionWithMetadata(m, owner) == Opened(m, owner, TRUE)

-----------------------------------------------------------------------------
(* Who may act *)

\* Mutant: the amount that is delegated is not looked at.
VerifyAnyDelegate(a, key) == IF a.delegate = key THEN TRUE ELSE a.owner = key

\* A key that is the delegate is judged as delegate, even if it is the owner.
verify_position_authority(a, key) ==
  IF a.delegate = key THEN a.delegated_amount = 1 ELSE a.owner = key

\* Mutant: an account that has held the token is good enough.
EmptyAccountAccepted(m, x) == account[x].exists /\ MintOf(x) = m

\* The constraints on position_token_account.
HoldsPositionToken(m, x) == account[x].exists /\ MintOf(x) = m /\ account[x].amount = 1

Authorized(m, x, key) == HoldsPositionToken(m, x) /\ verify_position_authority(account[x], key)

\* The instructions that put something into a position and take something out.
IncreaseLiquidity(m, x, key) ==
  /\ is_enabled
  /\ position[m].status = "open"
  /\ Authorized(m, x, key)
  /\ position[m].worth < MaxWorth
  /\ position' = [position EXCEPT ![m].worth = @ + 1]
  /\ acted' = <<m, key>>
  /\ UNCHANGED <<is_enabled, mint, account, burnt>>

\* decrease_liquidity needs the pool enabled, collect_fees and collect_reward do not.
Withdraw(m, x, key, collect) ==
  /\ is_enabled \/ collect
  /\ position[m].status = "open"
  /\ Authorized(m, x, key)
  /\ position[m].worth > 0
  /\ position' = [position EXCEPT ![m].worth = @ - 1]
  /\ acted' = <<m, key>>
  /\ UNCHANGED <<is_enabled, mint, account, burnt>>

-----------------------------------------------------------------------------
(* Closing *)

\* External (spl-token): a delegate spends its delegation, an owner does not.
Spends(a, key) == IF a.delegate = key THEN a.delegated_amount >= 1 ELSE a.owner = key

AfterSpending(a, key) ==
  LET left == a.delegated_amount - 1
  IN  IF a.delegate # key THEN [a EXCEPT !.amount = 0]
      ELSE [a EXCEPT !.amount = 0, !.delegated_amount = left,
                     !.delegate = IF left = 0 THEN None ELSE @]

\* External (spl-token): only the close authority closes an account, its owner
\* when it has none.
MayClose(a, key) == a.amount = 0 /\ key = IF a.close_authority = None THEN a.owner ELSE a.close_authority

\* Mutant: the token is burnt, and its account stays.
BurnOnly(x, key) ==
  /\ Spends(account[x], key)
  /\ account' = [account EXCEPT ![x] = AfterSpending(@, key)]
  /\ mint' = [mint EXCEPT ![MintOf(x)].supply = @ - 1]

\* Both calls succeed, or the transaction fails.
burn_and_close_user_position_token(x, key) ==
  /\ Spends(account[x], key)
  /\ MayClose(AfterSpending(account[x], key), key)
  /\ account' = [account EXCEPT ![x] = NoAccount]
  /\ mint' = [mint EXCEPT ![MintOf(x)].supply = @ - 1]

ClosePosition(m, x, key) ==
  /\ position[m].status = "open"
  /\ Authorized(m, x, key)
  /\ position[m].worth = 0
  /\ is_enabled
  /\ burn_and_close_user_position_token(x, key)
  /\ position' = [position EXCEPT ![m].status = "closed"]
  /\ acted' = <<m, key>>
  /\ UNCHANGED <<is_enabled, burnt>>

SetEnableFlagOfPool(enabled) ==
  /\ is_enabled' = enabled
  /\ acted' = NoActor
  /\ UNCHANGED <<position, mint, account, burnt>>

-----------------------------------------------------------------------------
(* External: what keys do in the token program on their own. *)

TokenProgram == acted' = NoActor /\ UNCHANGED <<is_enabled, position>>

CreateAccount(x) ==
  /\ position[MintOf(x)].status # "none"
  /\ ~account[x].exists
  /\ account' = [account EXCEPT ![x] = EmptyAccount(x[1])]
  /\ UNCHANGED <<mint, burnt>>

\* A delegation outlives the transfer: it stays with the account.
Transfer(from, to, key) ==
  /\ from # to /\ MintOf(from) = MintOf(to)
  /\ account[to].exists /\ account[from].amount = 1
  /\ Spends(account[from], key)
  /\ account' = [account EXCEPT ![from] = AfterSpending(@, key), ![to].amount = 1]
  /\ UNCHANGED <<mint, burnt>>

Approve(x, delegate, amount) ==
  /\ account[x].exists
  /\ account' = [account EXCEPT ![x].delegate = delegate, ![x].delegated_amount = amount]
  /\ UNCHANGED <<mint, burnt>>

Revoke(x) ==
  /\ account[x].delegate # None
  /\ account' = [account EXCEPT ![x].delegate = None, ![x].delegated_amount = 0]
  /\ UNCHANGED <<mint, burnt>>

\* The account goes to another owner with what it holds.
SetOwner(x, new) ==
  /\ account[x].exists
  /\ account' = [account EXCEPT ![x].owner = new, ![x].delegate = None, ![x].delegated_amount = 0]
  /\ UNCHANGED <<mint, burnt>>

SetCloseAuthority(x, new) ==
  /\ account[x].exists
  /\ account' = [account EXCEPT ![x].close_authority = new]
  /\ UNCHANGED <<mint, burnt>>

CloseAccount(x) ==
  /\ account[x].exists /\ account[x].amount = 0
  /\ account' = [account EXCEPT ![x] = NoAccount]
  /\ UNCHANGED <<mint, burnt>>

\* Nothing keeps a holder from burning the token of a position it has not closed.
Burn(x, key) ==
  /\ account[x].amount = 1
  /\ Spends(account[x], key)
  /\ account' = [account EXCEPT ![x] = AfterSpending(@, key)]
  /\ mint' = [mint EXCEPT ![MintOf(x)].supply = @ - 1]
  /\ burnt' = burnt \cup {MintOf(x)}

-----------------------------------------------------------------------------
ProgramNext ==
  \/ \E m \in Position, owner \in Person :
       OpenPosition(m, owner) \/ OpenPositionWithMetadata(m, owner)
  \/ \E m \in Position, x \in Address, key \in Person :
       \/ IncreaseLiquidity(m, x, key)
       \/ \E collect \in BOOLEAN : Withdraw(m, x, key, collect)
       \/ ClosePosition(m, x, key)
  \/ \E enabled \in BOOLEAN : SetEnableFlagOfPool(enabled)

TokenNext ==
  /\ TokenProgram
  /\ \E x \in Address :
       \/ CreateAccount(x)
       \/ \E to \in Address, key \in Person : Transfer(x, to, key)
       \/ \E delegate \in Person, amount \in DelegatedAmounts : Approve(x, delegate, amount)
       \/ Revoke(x)
       \/ \E new \in Person : SetOwner(x, new)
       \/ \E new \in Person \cup {None} : SetCloseAuthority(x, new)
       \/ CloseAccount(x)
       \/ \E key \in Person : Burn(x, key)

PositionTokenNext == ProgramNext \/ TokenNext

PositionTokenSpec == TokenInit /\ [][PositionTokenNext]_tokenvars

-----------------------------------------------------------------------------
(* Properties *)

Holders(m) == {x \in Address : MintOf(x) = m /\ account[x].amount = 1}

\* A position that is open has exactly one token, unless its holder has burnt
\* it, one that is not has none, and no more can ever be minted.
OneTokenPerPosition ==
  \A m \in Position :
    /\ Cardinality(Holders(m)) = mint[m].supply
    /\ mint[m].authority = None
    /\ mint[m].supply = IF position[m].status = "open" /\ m \notin burnt THEN 1 ELSE 0

\* The keys that can act on a position are the owner of the one account that
\* holds its token and that account's delegate for exactly one token.  Delegates
\* and owners of accounts that once held it cannot, and neither can an owner
\* who has approved itself for another amount.  When the token is gone, nobody
\* acts, and what was in the position stays (util/util.rs:15, util/token.rs:76).
ActsForPosition(m) == {key \in Person : \E x \in Address : Authorized(m, x, key)}

OnlyHolderActs ==
  \A m \in Position :
    /\ Holders(m) = {} => ActsForPosition(m) = {}
    /\ \A x \in Holders(m) :
         LET a == account[x]
         IN  ActsForPosition(m) =
               IF a.delegate = None THEN {a.owner}
               ELSE IF a.delegated_amount = 1 THEN {a.owner, a.delegate}
               ELSE {a.owner} \ {a.delegate}

\* A position is closed only when it is empty, and only by a key that has both rights at
\* once: it owns the account that holds the token, and has not delegated that to itself for
\* another amount, or is its delegate for exactly one; and it may close that account.  So a
\* delegate needs the owner's consent to that, and an owner whose account has another close
\* authority cannot close alone (instructions/close_position.rs:33).
ClosedByRightfulKey ==
  [][ \A m \in Position :
        (position[m].status = "open" /\ position'[m].status = "closed") =>
          /\ position[m].worth = 0
          /\ \E x \in Holders(m), key \in Person :
               LET a == account[x]
               IN  /\ acted' = <<m, key>>
                   /\ \/ key = a.owner /\ key # a.delegate
                      \/ key = a.delegate /\ a.delegated_amount = 1
                   /\ key = a.close_authority \/ (a.close_authority = None /\ key = a.owner)
                   /\ ~account'[x].exists ]_tokenvars
=============================================================================
