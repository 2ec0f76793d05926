---------------------------- MODULE RewardSystem ----------------------------
(***************************************************************************)
(* Token and reward contract together.  The token is a cw20 contract (the  *)
(* library cw20_legacy, external) whose handlers announce every balance    *)
(* change to the reward contract.  The handler and its messages are one    *)
(* atomic transaction: DecreaseBalance, IncreaseBalance and a Send's hook  *)
(* are applied in the order they are emitted, and if one fails nothing     *)
(* happened.                                                               *)
(*                                                                         *)
(* The hub takes part as the minter, as the receiver of Unbond, which      *)
(* burns what it received, and as the caller of UpdateGlobalIndex.         *)
(* Allowances do not expire here.                                          *)
(***************************************************************************)
EXTENDS Reward

CONSTANTS Users,           \* accounts that act
          HubAddr,         \* the hub
          RewardAddr,      \* the reward contract
          InitialBalances, \* initial_balances of the token
          Amounts,         \* tokens moved, minted, burnt or allowed
          Rewards,         \* coins that reach the reward contract
          MaxSupply,       \* bound: tokens minted
          MaxAllowance,    \* bound: allowances
          MaxArrivals      \* bound: coins that reach it altogether

ASSUME RewardSystemAssumption ==
    /\ Users \cup {HubAddr, RewardAddr} \subseteq Addrs
    /\ HubAddr \notin Users /\ RewardAddr \notin Users
    /\ HubAddr # RewardAddr
    /\ InitialBalances \in [Addrs -> Nat]
    /\ Amounts \subseteq Nat \ {0}
    /\ Rewards \subseteq Nat
    /\ MaxSupply \in Nat /\ MaxAllowance \in Nat /\ MaxArrivals \in Nat

VARIABLES reward,       \* storage of the reward contract
          balances,     \* BALANCES of the token
          total_supply, \* TOKEN_INFO.total_supply
          allowances,   \* <<owner, spender>> -> amount
          registered,   \* the hub's config names both contracts
          bank,         \* reward_denom coins of the reward contract
          other,        \* its coins of other denoms that can be swapped
          arrivals      \* coins that have reached it so far (for the bound)

tokenVars == <<balances, total_supply, allowances>>
bankVars == <<bank, other, arrivals>>
vars == <<reward, tokenVars, registered, bankVars>>

Init ==
    /\ reward = reward_init
    /\ balances = InitialBalances
    /\ total_supply = SumFunction(InitialBalances)
    /\ allowances = [p \in Users \X Users |-> 0]
    /\ registered = FALSE
    /\ bank = 0
    /\ other = 0
    /\ arrivals = 0

\* UpdateConfig of the hub with both contracts.
Register ==
    /\ ~registered
    /\ registered' = TRUE
    /\ UNCHANGED <<reward, tokenVars, bankVars>>

-----------------------------------------------------------------------------
(* cw20_legacy. *)

cw20_move(bals, from, to, amount) ==
    LET taken == [bals EXCEPT ![from] = @ - amount]
    IN  [taken EXCEPT ![to] = @ + amount]

\* An allowance is enough, and what is left of it.
deduct_allowance(owner, spender, amount) ==
    /\ amount <= allowances[<<owner, spender>>]
    /\ allowances' = [allowances EXCEPT ![<<owner, spender>>] = @ - amount]

-----------------------------------------------------------------------------
(* The reward contract's part of a token operation: query_reward_contract  *)
(* panics unless it is registered, then the messages are applied.          *)

\* Mutant: the receiver is not announced.
MutMoveUnannounced(from, to, amount) ==
    /\ registered
    /\ decrease_ok(reward, from, amount)
    /\ reward' = execute_decrease_balance(reward, from, amount)

announce_move(from, to, amount) ==
    /\ registered
    /\ decrease_ok(reward, from, amount)
    /\ reward' = execute_increase_balance(
                     execute_decrease_balance(reward, from, amount),
                     to, amount)

announce_burn(from, amount) ==
    /\ registered
    /\ decrease_ok(reward, from, amount)
    /\ reward' = execute_decrease_balance(reward, from, amount)

\* Tokens move from `from` to `to`, in the token and at the reward contract.
move(from, to, amount) ==
    /\ amount <= balances[from]
    /\ balances' = cw20_move(balances, from, to, amount)
    /\ announce_move(from, to, amount)
    /\ UNCHANGED total_supply

\* Tokens of `from` are burnt.
burn(from, amount) ==
    /\ amount <= balances[from]
    /\ balances' = [balances EXCEPT ![from] = @ - amount]
    /\ total_supply' = total_supply - amount
    /\ announce_burn(from, amount)

\* Tokens of `from` reach the hub with the Unbond hook, and the hub burns
\* them: Decrease and Increase of the Send, then Decrease of the Burn.
unbond(from, amount) ==
    LET received == execute_increase_balance(
                        execute_decrease_balance(reward, from, amount),
                        HubAddr, amount)
    IN  /\ registered
        /\ amount <= balances[from]
        /\ decrease_ok(reward, from, amount)
        /\ decrease_ok(received, HubAddr, amount)
        /\ balances' = [balances EXCEPT ![from] = @ - amount]
        /\ total_supply' = total_supply - amount
        /\ reward' = execute_decrease_balance(received, HubAddr, amount)

\* Staking rewards, which may be of any denom, reach the reward contract when
\* the hub's delegations change.
pay_out(paid) ==
    /\ arrivals + paid <= MaxArrivals
    /\ arrivals' = arrivals + paid
    /\ other' = other + paid
    /\ UNCHANGED bank

-----------------------------------------------------------------------------
(* Transactions of the token. *)

\* Mint, sent by the hub in Bond after its Delegate, for which the chain pays
\* out the staking rewards `paid`.
Mint(to, amount, paid) ==
    /\ registered
    /\ total_supply + amount <= MaxSupply
    /\ balances' = [balances EXCEPT ![to] = @ + amount]
    /\ total_supply' = total_supply + amount
    /\ reward' = execute_increase_balance(reward, to, amount)
    /\ pay_out(paid)
    /\ UNCHANGED <<allowances, registered>>

\* Transfer, and Send to a contract other than the hub.
Transfer(sender, to, amount) ==
    /\ move(sender, to, amount)
    /\ UNCHANGED <<allowances, registered, bankVars>>

Burn(sender, amount) ==
    /\ burn(sender, amount)
    /\ UNCHANGED <<allowances, registered, bankVars>>

\* Send to the hub with the Unbond hook; the hub's Undelegates make the chain
\* pay out staking rewards, too.
SendUnbond(sender, amount, paid) ==
    /\ unbond(sender, amount)
    /\ pay_out(paid)
    /\ UNCHANGED <<allowances, registered>>

\* TransferFrom, and SendFrom to a contract other than the hub.
TransferFrom(spender, owner, to, amount) ==
    /\ deduct_allowance(owner, spender, amount)
    /\ move(owner, to, amount)
    /\ UNCHANGED <<registered, bankVars>>

BurnFrom(spender, owner, amount) ==
    /\ deduct_allowance(owner, spender, amount)
    /\ burn(owner, amount)
    /\ UNCHANGED <<registered, bankVars>>

\* SendFrom to the hub with the Unbond hook.
SendFromUnbond(spender, owner, amount, paid) ==
    /\ deduct_allowance(owner, spender, amount)
    /\ unbond(owner, amount)
    /\ pay_out(paid)
    /\ UNCHANGED registered

\* cw20_legacy refuses an allowance for oneself.
IncreaseAllowance(owner, spender, amount) ==
    /\ owner # spender
    /\ allowances[<<owner, spender>>] + amount <= MaxAllowance
    /\ allowances' = [allowances EXCEPT ![<<owner, spender>>] = @ + amount]
    /\ UNCHANGED <<reward, balances, total_supply, registered, bankVars>>

DecreaseAllowance(owner, spender, amount) ==
    /\ owner # spender
    /\ allowances' = [allowances EXCEPT ![<<owner, spender>>] =
                        IF amount < @ THEN @ - amount ELSE 0]
    /\ UNCHANGED <<reward, balances, total_supply, registered, bankVars>>

-----------------------------------------------------------------------------
(* Transactions of the reward contract, and arrivals of coins. *)

\* ClaimRewards: the coins sent and the chain's tax on them leave the
\* account, and come back when the recipient is the contract itself.  The
\* bank refuses to send nothing.
ClaimRewards(holder, recipient) ==
    LET sent == deduct_tax(rewards_of(reward, reward.holders[holder]))
        back == IF recipient = RewardAddr THEN sent ELSE 0
    IN  /\ claim_ok(reward, holder)
        /\ sent > 0
        /\ sent + chain_tax(sent) <= bank
        /\ arrivals + back <= MaxArrivals
        /\ arrivals' = arrivals + back
        /\ reward' = execute_claim_rewards(reward, holder)
        /\ bank' = bank - sent - chain_tax(sent) + back
        /\ UNCHANGED <<tokenVars, registered, other>>

\* Coins sent by anybody, or for a swapped airdrop.
CoinsArrive(amount, is_reward_denom) ==
    /\ arrivals + amount <= MaxArrivals
    /\ arrivals' = arrivals + amount
    /\ IF is_reward_denom
       THEN bank' = bank + amount /\ UNCHANGED other
       ELSE other' = other + amount /\ UNCHANGED bank
    /\ UNCHANGED <<reward, tokenVars, registered>>

\* What the market may pay for the coins of other denoms that execute_swap
\* offers it: the price is the chain's, and at most 1 here.
execute_swap(coins) == 0 .. coins

\* UpdateGlobalIndex of the hub, called by anyone: `withdrawn` coins come in
\* as staking rewards and for swapped airdrops, coins of other denoms are
\* swapped for `swapped` coins, the index follows.
UpdateGlobalIndex(withdrawn, swapped) ==
    /\ registered
    /\ arrivals + withdrawn <= MaxArrivals
    /\ arrivals' = arrivals + withdrawn
    /\ swapped \in execute_swap(other + withdrawn)
    /\ update_ok(reward, bank + swapped)
    /\ bank' = bank + swapped
    /\ other' = 0
    /\ reward' = execute_update_global_index(reward, bank + swapped)
    /\ UNCHANGED <<tokenVars, registered>>

TokenNext ==
    \/ \E to \in Users, n \in Amounts, p \in Rewards : Mint(to, n, p)
    \/ \E s \in Users, to \in Addrs, n \in Amounts : Transfer(s, to, n)
    \/ \E s \in Users, n \in Amounts : Burn(s, n)
    \/ \E s \in Users, n \in Amounts, p \in Rewards : SendUnbond(s, n, p)
    \/ \E s \in Users, o \in Users, to \in Addrs, n \in Amounts :
          TransferFrom(s, o, to, n)
    \/ \E s \in Users, o \in Users, n \in Amounts : BurnFrom(s, o, n)
    \/ \E s \in Users, o \in Users, n \in Amounts, p \in Rewards :
          SendFromUnbond(s, o, n, p)
    \/ \E o \in Users, s \in Users, n \in Amounts : IncreaseAllowance(o, s, n)
    \/ \E o \in Users, s \in Users, n \in Amounts : DecreaseAllowance(o, s, n)

RewardNext ==
    \/ \E h \in Users, to \in Addrs : ClaimRewards(h, to)
    \/ \E n \in Rewards, d \in BOOLEAN : CoinsArrive(n, d)
    \/ \E w \in Rewards : \E y \in execute_swap(other + w) :
          UpdateGlobalIndex(w, y)

Next == Register \/ TokenNext \/ RewardNext

Spec == Init /\ [][Next]_vars

-----------------------------------------------------------------------------
(* Properties. *)

\* Types of the two contracts' storage and of the account.
TypeOK ==
    /\ reward \in RewardStorage
    /\ balances \in [Addrs -> Nat]
    /\ total_supply \in Nat
    /\ allowances \in [Users \X Users -> Nat]
    /\ registered \in BOOLEAN
    /\ bank \in Nat /\ other \in Nat /\ arrivals \in Nat

\* What holder a has accrued, in atomics.
Accrued(a) == all_reward_with_decimals(reward, reward.holders[a])

TotalAccrued == SumFunction([a \in Addrs |-> Accrued(a)])

\* The reward contract knows every balance of the token but the initial ones,
\* which no message announces (token contract.rs:37): whoever sends, burns,
\* spends an allowance or unbonds, the two contracts never drift apart.
BalancesMirrored ==
    \A a \in Addrs :
        balances[a] = reward.holders[a].balance + InitialBalances[a]

\* The index is computed from total_balance: it is the sum of the balances
\* that will be multiplied by the index, and no holder is ahead of the index.
IndexConsistent ==
    /\ reward.total_balance =
         SumFunction([a \in Addrs |-> reward.holders[a].balance])
    /\ \A a \in Addrs : reward.holders[a].index <= reward.global_index

\* All holders could claim at once: what they have accrued, fractions
\* included, is covered by prev_reward_balance, and that by the account's
\* coins.  So the checked_subs of execute_claim_rewards and of
\* execute_update_global_index never fail and no claim lacks coins.
Solvent ==
    /\ TotalAccrued <= reward.prev_reward_balance * ONE
    /\ reward.prev_reward_balance <= bank

\* While the index stands still, nobody's accrued rewards change but by a
\* claim, which takes from the claimer exactly what is booked out of
\* prev_reward_balance; so neither transfers, nor new holders (whose index
\* starts at zero), nor a self-transfer gain or lose rewards.
AccruedStep ==
    reward'.global_index = reward.global_index =>
        \A a \in Addrs :
            Accrued(a)' # Accrued(a) =>
                Accrued(a) - Accrued(a)' =
                    (reward.prev_reward_balance
                       - reward'.prev_reward_balance) * ONE

\* AccruedStep holds of every transaction.
AccruedKept == [][AccruedStep]_vars

\* The coins that back no accrued reward, in atomics.
Unshared == reward.prev_reward_balance * ONE - TotalAccrued

\* An index update shares out all that arrived but a rest smaller than one
\* atomic per token (execute_update_global_index truncates once), and no
\* other transaction leaves a rest.
SharedStep ==
    Unshared' - Unshared <=
        IF reward'.global_index = reward.global_index
           /\ reward'.prev_reward_balance <= reward.prev_reward_balance
        THEN 0 ELSE reward.total_balance - 1

\* SharedStep holds of every transaction: of the coins that arrive, no more
\* than the rests of the divisions is ever kept from the holders.
AllShared == [][SharedStep]_vars

=============================================================================
