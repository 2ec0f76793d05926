------------------------------ MODULE Dispatch ------------------------------
(***************************************************************************)
(* The four contracts and the chain, message by message.  A transaction is *)
(* one message of an account.  Executing a message changes the contracts'  *)
(* state and emits further messages, which are executed at once, depth     *)
(* first, before the caller's next message.  The first error or panic      *)
(* undoes the whole transaction.                                           *)
(*                                                                         *)
(* `world` is the state the handlers work on, `committed` the state after  *)
(* the last finished transaction.  Amounts and rates of Bond and Unbond    *)
(* are HubSystem's subject: here a Bond mints any of Amounts, an Unbond    *)
(* undelegates any amounts, and either may be refused.  So may a message   *)
(* to the chain, the market or an airdrop's contracts.  The contracts'     *)
(* addresses do not change once they are registered; the registry's table  *)
(* is one that RegistrySystem reaches.                                     *)
(***************************************************************************)
EXTENDS Reward, Registry

CONSTANTS Users,           \* accounts that act
          Owner,           \* creator of the hub
          HubAddr, TokenAddr, RewardAddr, RegistryAddr,
          InitialBalances, \* initial_balances of the token
          Validators,
          FirstValidator,  \* the validator given to the hub's instantiate
          AirdropPays,     \* airdrop contract -> the cw20 token it pays
          ConfigUpdates,   \* addresses given to UpdateConfig: reward contract,
                           \* token and registry, or None
          Tables,          \* contents the registry's table may have
          HookLists,       \* airdrops that an index update may ask for, or None
          Amounts,         \* tokens moved, minted or burnt
          Payments,        \* coins bonded
          MaxSupply,       \* bound: tokens minted
          MaxBonded,       \* bound: coins delegated
          MaxArrivals      \* bound: rewards earned and coins received

ASSUME DispatchAssumption ==
    /\ IsFiniteSet(Validators) /\ FirstValidator \in Validators
    /\ Owner \notin Users /\ None \notin Users \cup Validators
    /\ Payments \subseteq Nat \ {0}
    /\ ConfigUpdates \subseteq
         {None, RewardAddr} \X {None, TokenAddr} \X {None, RegistryAddr}

VARIABLES world,      \* what the handlers see
          committed,  \* the state after the last transaction
          calls,      \* messages still to be executed
          tx          \* the transaction that is being executed, or None

vars == <<world, committed, calls, tx>>

Tokens == {AirdropPays[c] : c \in DOMAIN AirdropPays}

\* A handler's result: the next state and the messages it emits; a handler
\* that fails has none.
ok(w, out) == {[world |-> w, out |-> out]}

when(condition, outcomes) == IF condition THEN outcomes ELSE {}

-----------------------------------------------------------------------------
(* The chain's staking and distribution modules. *)

delegated(w) == {v \in Validators : w.delegations[v] > 0}

\* The rewards outstanding at validators vs go to the withdraw address: at the
\* reward contract they are coins that can be swapped.
pay_rewards(w, vs) ==
    LET n == SumFunctionOnSet(w.outstanding, vs)
        rest == [v \in Validators |-> IF v \in vs THEN 0 ELSE w.outstanding[v]]
    IN  IF w.withdraw_address = RewardAddr
        THEN [w EXCEPT !.outstanding = rest, !.other = @ + n,
                       !.received = @ + n]
        ELSE [w EXCEPT !.outstanding = rest, !.hub_coins = @ + n]

\* A change of a delegation pays out its rewards first.
delegate(w, c) ==
    ok([pay_rewards(w, {c.validator}) EXCEPT
            !.delegations[c.validator] = @ + c.amount], <<>>)

undelegate(w, c) ==
    when(c.amount <= w.delegations[c.validator],
         ok([pay_rewards(w, {c.validator}) EXCEPT
                !.delegations[c.validator] = @ - c.amount], <<>>))

redelegate(w, c) ==
    LET paid == pay_rewards(w, {c.validator, c.dst_validator})
        left == [paid EXCEPT !.delegations[c.validator] = @ - c.amount]
    IN  ok([left EXCEPT !.delegations[c.dst_validator] = @ + c.amount], <<>>)

withdraw_reward(w, c) == ok(pay_rewards(w, {c.validator}), <<>>)

set_withdraw_address(w, c) ==
    ok([w EXCEPT !.withdraw_address = c.address], <<>>)

-----------------------------------------------------------------------------
(* The bank and the market, airdrop contracts and pairs. *)

\* The market pays for the swapped coins at most as many of reward_denom.
market_swap(w, c) ==
    UNION {ok([w EXCEPT !.other = @ - c.amount, !.bank = @ + y], <<>>) :
             y \in 0 .. c.amount}

bank_send(w, c) ==
    when(c.amount > 0 /\ c.amount + chain_tax(c.amount) <= w.bank,
         ok([w EXCEPT !.bank = @ - c.amount - chain_tax(c.amount)], <<>>))

\* The airdrop contract pays the hub what it has not yet claimed.
airdrop_claim(w, c) ==
    LET n == w.claimable[c.airdrop_contract]
    IN  when(n > 0,
             ok([w EXCEPT !.claimable[c.airdrop_contract] = 0,
                          !.airdrops[AirdropPays[c.airdrop_contract]] = @ + n],
                <<>>))

\* Send of an airdropped token to its pair, which pays the address the swap
\* message names.
airdrop_send(w, c) ==
    UNION {ok([w EXCEPT !.airdrops[c.token] = @ - c.amount,
                        !.bank = @ + y, !.received = @ + y], <<>>) :
             y \in IF c.swap_to = RewardAddr THEN 0 .. c.amount ELSE {0}}

-----------------------------------------------------------------------------
(* The token: cw20_legacy's change of balances, then the announcements. *)

increase_msg(a, n) == [msg |-> "IncreaseBalance", sender |-> TokenAddr,
                       address |-> a, amount |-> n]
decrease_msg(a, n) == [msg |-> "DecreaseBalance", sender |-> TokenAddr,
                       address |-> a, amount |-> n]

\* query_reward_contract finds the reward contract in the hub's config.
query_reward_contract(w) == w.config.reward_contract # None

cw20_move(w, from, to, n) ==
    LET taken == [w EXCEPT !.balances[from] = @ - n]
    IN  [taken EXCEPT !.balances[to] = @ + n]

\* Mutant: the receiver is not announced.
MutReceiverForgotten(w, c) ==
    when(query_reward_contract(w) /\ c.amount <= w.balances[c.sender],
         ok(cw20_move(w, c.sender, c.recipient, c.amount),
            <<decrease_msg(c.sender, c.amount)>>))

execute_transfer(w, c) ==
    when(query_reward_contract(w) /\ c.amount <= w.balances[c.sender],
         ok(cw20_move(w, c.sender, c.recipient, c.amount),
            <<decrease_msg(c.sender, c.amount),
              increase_msg(c.recipient, c.amount)>>))

execute_burn(w, c) ==
    when(query_reward_contract(w) /\ c.amount <= w.balances[c.sender],
         ok([w EXCEPT !.balances[c.sender] = @ - c.amount,
                      !.total_supply = @ - c.amount],
            <<decrease_msg(c.sender, c.amount)>>))

\* Only the minter, the hub.
execute_mint(w, c) ==
    when(query_reward_contract(w) /\ c.sender = HubAddr,
         ok([w EXCEPT !.balances[c.recipient] = @ + c.amount,
                      !.total_supply = @ + c.amount],
            <<increase_msg(c.recipient, c.amount)>>))

\* Send to the hub with the Unbond hook.
execute_send(w, c) ==
    when(query_reward_contract(w) /\ c.amount <= w.balances[c.sender],
         ok(cw20_move(w, c.sender, HubAddr, c.amount),
            <<decrease_msg(c.sender, c.amount),
              increase_msg(HubAddr, c.amount),
              [msg |-> "Receive", sender |-> TokenAddr, amount |-> c.amount]>>))

-----------------------------------------------------------------------------
(* The reward contract. *)

\* query_token_contract: the token contract in the hub's config.
from_token(w, c) ==
    w.config.token_contract # None /\ c.sender = w.config.token_contract

increase_balance(w, c) ==
    when(from_token(w, c),
         ok([w EXCEPT !.reward =
                execute_increase_balance(@, c.address, c.amount)], <<>>))

decrease_balance(w, c) ==
    when(from_token(w, c) /\ decrease_ok(w.reward, c.address, c.amount),
         ok([w EXCEPT !.reward =
                execute_decrease_balance(@, c.address, c.amount)], <<>>))

claim_rewards(w, c) ==
    LET rewards == rewards_of(w.reward, w.reward.holders[c.sender])
    IN  when(claim_ok(w.reward, c.sender),
             ok([w EXCEPT !.reward = execute_claim_rewards(@, c.sender)],
                <<[msg |-> "BankSend", amount |-> deduct_tax(rewards)]>>))

\* A swap for the coins that are not of reward_denom.
execute_swap(w, c) ==
    when(c.sender = HubAddr,
         ok(w, IF w.other > 0
               THEN <<[msg |-> "MarketSwap", amount |-> w.other]>> ELSE <<>>))

\* Mutant: a balance equal to the recorded one is refused.
MutUpdateStrict(w, c) ==
    when(c.sender = HubAddr /\ update_ok(w.reward, w.bank)
           /\ w.bank # w.reward.prev_reward_balance,
         ok([w EXCEPT !.reward = execute_update_global_index(@, w.bank)],
            <<>>))

update_index(w, c) ==
    when(c.sender = HubAddr /\ update_ok(w.reward, w.bank),
         ok([w EXCEPT !.reward = execute_update_global_index(@, w.bank)],
            <<>>))

-----------------------------------------------------------------------------
(* The registry. *)

\* FabricateMIRClaim and FabricateANCClaim: the entry must exist.
execute_fabricate_claim(w, c) ==
    when(exists(w.registry, c.token),
         ok(w, <<[msg |-> "ClaimAirdrop", sender |-> RegistryAddr,
                  info |-> w.registry.airdrop_info[c.token],
                  swap_to |-> w.registry.reward_contract]>>))

-----------------------------------------------------------------------------
(* The hub. *)

execute_bond(w, c) ==
    when(c.validator \in w.validators /\ w.config.token_contract # None,
         UNION {ok(w, <<[msg |-> "Delegate", validator |-> c.validator,
                         amount |-> c.amount],
                        [msg |-> "Mint", sender |-> HubAddr,
                         recipient |-> c.sender, amount |-> n]>>) :
                  n \in Amounts})

\* What an Unbond may undelegate from each validator: nothing while the epoch
\* lasts, and amounts that pick_validator finds when it is over.
undelegations(w) ==
    {picked \in [Validators -> 0 .. MaxBonded] :
        \A v \in Validators : picked[v] <= w.delegations[v]}

undelegate_msgs(picked) ==
    LET vs == SetToSeq({v \in Validators : picked[v] > 0})
    IN  [i \in DOMAIN vs |-> [msg |-> "Undelegate", validator |-> vs[i],
                              amount |-> picked[vs[i]]]]

receive_cw20(w, c) ==
    when(from_token(w, c),
         UNION {ok(w, Append(undelegate_msgs(picked),
                             [msg |-> "Burn", sender |-> HubAddr,
                              amount |-> c.amount])) :
                  picked \in undelegations(w)})

\* The hooks are messages for the registry, sent by the hub.
hook_msgs(hooks) ==
    IF hooks = None THEN <<>>
    ELSE [i \in DOMAIN hooks |->
            [msg |-> "FabricateClaim", sender |-> HubAddr, token |-> hooks[i]]]

withdraw_all_rewards(w) ==
    LET vs == SetToSeq(delegated(w))
    IN  [i \in DOMAIN vs |-> [msg |-> "WithdrawReward", validator |-> vs[i]]]

swap_msg == [msg |-> "SwapToRewardDenom", sender |-> HubAddr]
update_msg == [msg |-> "UpdateIndex", sender |-> HubAddr]

\* The contracts it sends messages to are registered.
update_global_ok(w, c) ==
    /\ w.config.reward_contract # None
    /\ c.hooks # None => w.config.airdrop_registry_contract # None

\* Mutants: rewards are withdrawn after the index was updated; the hub calls
\* itself again.
MutUpdateFirst(w, c) ==
    when(update_global_ok(w, c),
         ok(w, hook_msgs(c.hooks) \o <<swap_msg, update_msg>>
                 \o withdraw_all_rewards(w)))
MutUpdateAgain(w, c) ==
    when(update_global_ok(w, c),
         ok(w, hook_msgs(c.hooks) \o withdraw_all_rewards(w)
                 \o <<swap_msg, update_msg, c>>))

execute_update_global(w, c) ==
    when(update_global_ok(w, c),
         ok(w, hook_msgs(c.hooks) \o withdraw_all_rewards(w)
                 \o <<swap_msg, update_msg>>))

from_registry(w, c) ==
    /\ w.config.airdrop_registry_contract # None
    /\ c.sender = w.config.airdrop_registry_contract

\* Mutants: the airdrop is claimed and not swapped; the index is updated after
\* the swap, before the reward contract's other coins are swapped.
MutClaimOnly(w, c) ==
    when(from_registry(w, c),
         ok(w, <<[msg |-> "AirdropClaim",
                  airdrop_contract |-> c.info.airdrop_contract]>>))
MutClaimUpdates(w, c) ==
    when(from_registry(w, c),
         ok(w, <<[msg |-> "AirdropClaim",
                  airdrop_contract |-> c.info.airdrop_contract],
                 [msg |-> "SwapHook", sender |-> HubAddr, info |-> c.info,
                  swap_to |-> c.swap_to],
                 update_msg>>))

claim_airdrop(w, c) ==
    when(from_registry(w, c),
         ok(w, <<[msg |-> "AirdropClaim",
                  airdrop_contract |-> c.info.airdrop_contract],
                 [msg |-> "SwapHook", sender |-> HubAddr, info |-> c.info,
                  swap_to |-> c.swap_to]>>))

swap_hook(w, c) ==
    LET token == c.info.airdrop_token_contract
    IN  when(c.sender = HubAddr /\ w.airdrops[token] # 0,
             ok(w, <<[msg |-> "AirdropSend", token |-> token,
                      amount |-> w.airdrops[token],
                      swap_to |-> c.swap_to]>>))

\* The fields of the config that are given are replaced.
updated(config, c) ==
    [f \in DOMAIN config |-> IF c[f] = None THEN config[f] ELSE c[f]]

\* Mutant: the chain is not told where rewards go.
MutAddressKept(w, c) ==
    when(c.sender = Owner,
         ok([w EXCEPT !.config = updated(@, c)], <<>>))

update_config(w, c) ==
    when(c.sender = Owner,
         ok([w EXCEPT !.config = updated(@, c)],
            IF c.reward_contract = None THEN <<>>
            ELSE <<[msg |-> "SetWithdrawAddress",
                    address |-> c.reward_contract]>>))

register_validator(w, c) ==
    when(c.sender \in {Owner, HubAddr},
         ok([w EXCEPT !.validators = @ \cup {c.validator}], <<>>))

\* The whole delegation moves to some other validator of the list, and the
\* rewards this pays out are shared at once.
deregister_validator(w, c) ==
    LET rest == w.validators \ {c.validator}
        removed == [w EXCEPT !.validators = rest]
    IN  when(c.sender = Owner /\ Cardinality(w.validators) # 1,
             IF c.validator \notin delegated(w) THEN ok(removed, <<>>)
             ELSE UNION {ok(removed,
                            <<[msg |-> "Redelegate",
                               validator |-> c.validator, dst_validator |-> v,
                               amount |-> w.delegations[c.validator]],
                              [msg |-> "UpdateGlobalIndex",
                               sender |-> HubAddr, hooks |-> None]>>) :
                           v \in rest})

-----------------------------------------------------------------------------
(* Transactions. *)

\* The entry points of the contracts and of the chain.
execute(w, c) ==
    CASE c.msg = "Bond"                -> execute_bond(w, c)
      [] c.msg = "Receive"             -> receive_cw20(w, c)
      [] c.msg = "UpdateGlobalIndex"   -> execute_update_global(w, c)
      [] c.msg = "ClaimAirdrop"        -> claim_airdrop(w, c)
      [] c.msg = "SwapHook"            -> swap_hook(w, c)
      [] c.msg = "UpdateConfig"        -> update_config(w, c)
      [] c.msg = "RegisterValidator"   -> register_validator(w, c)
      [] c.msg = "DeregisterValidator" -> deregister_validator(w, c)
      [] c.msg = "Transfer"            -> execute_transfer(w, c)
      [] c.msg = "Burn"                -> execute_burn(w, c)
      [] c.msg = "Mint"                -> execute_mint(w, c)
      [] c.msg = "Send"                -> execute_send(w, c)
      [] c.msg = "IncreaseBalance"     -> increase_balance(w, c)
      [] c.msg = "DecreaseBalance"     -> decrease_balance(w, c)
      [] c.msg = "ClaimRewards"        -> claim_rewards(w, c)
      [] c.msg = "SwapToRewardDenom"   -> execute_swap(w, c)
      [] c.msg = "UpdateIndex"         -> update_index(w, c)
      [] c.msg = "FabricateClaim"      -> execute_fabricate_claim(w, c)
      [] c.msg = "Delegate"            -> delegate(w, c)
      [] c.msg = "Undelegate"          -> undelegate(w, c)
      [] c.msg = "Redelegate"          -> redelegate(w, c)
      [] c.msg = "WithdrawReward"      -> withdraw_reward(w, c)
      [] c.msg = "SetWithdrawAddress"  -> set_withdraw_address(w, c)
      [] c.msg = "MarketSwap"          -> market_swap(w, c)
      [] c.msg = "BankSend"            -> bank_send(w, c)
      [] c.msg = "AirdropClaim"        -> airdrop_claim(w, c)
      [] c.msg = "AirdropSend"         -> airdrop_send(w, c)

\* All contracts instantiated, with the hub's first delegation; the token was
\* instantiated with its initial balances, and nothing is registered yet.
Init ==
    /\ \E p \in Payments, table \in Tables :
          world =
            [config |-> [reward_contract |-> None, token_contract |-> None,
                         airdrop_registry_contract |-> None],
             validators |-> {FirstValidator},
             delegations |-> [v \in Validators |->
                                IF v = FirstValidator THEN p ELSE 0],
             outstanding |-> [v \in Validators |-> 0],
             withdraw_address |-> HubAddr, hub_coins |-> 0,
             balances |-> InitialBalances,
             total_supply |-> SumFunction(InitialBalances),
             reward |-> reward_init, bank |-> 0, other |-> 0, received |-> 0,
             registry |-> [registry_init(Owner, HubAddr, RewardAddr) EXCEPT
                             !.airdrop_tokens = SetToSeq(DOMAIN table),
                             !.airdrop_info = table],
             claimable |-> [c \in DOMAIN AirdropPays |-> 1],
             airdrops |-> [t \in Tokens |-> 0]]
    /\ committed = world
    /\ calls = <<>>
    /\ tx = None

AtRest == calls = <<>>

Begin(c) ==
    /\ AtRest
    /\ calls' = <<c>>
    /\ tx' = c
    /\ UNCHANGED <<world, committed>>

\* The next message is executed; its own messages come before the others.
Execute ==
    /\ ~AtRest
    /\ \E o \in execute(world, Head(calls)) :
          /\ world' = o.world
          /\ calls' = o.out \o Tail(calls)
          /\ IF calls' = <<>>
             THEN committed' = o.world /\ tx' = None
             ELSE UNCHANGED <<committed, tx>>

Failing == ~AtRest /\ execute(world, Head(calls)) = {}

\* What Bond and Unbond may refuse for reasons that are not modelled here: the
\* subtraction in the peg fee, a division by a rate cut to zero, an amount of
\* 1 to undelegate, delegations that do not cover it.
hub_refuses(c) == c.msg \in {"Bond", "Receive"}

\* Messages the chain, the market, an airdrop contract or a pair may refuse:
\* too many unbonding entries, a redelegation in progress, no liquidity, a
\* wrong proof.  What the bank refuses is in bank_send.
chain_refuses(c) ==
    c.msg \in {"Delegate", "Undelegate", "Redelegate", "WithdrawReward",
               "SetWithdrawAddress", "MarketSwap", "AirdropClaim",
               "AirdropSend"}

Refused == ~AtRest /\ (hub_refuses(Head(calls)) \/ chain_refuses(Head(calls)))

\* It fails, and the transaction with it.
Revert ==
    /\ Failing \/ Refused
    /\ world' = committed
    /\ calls' = <<>>
    /\ tx' = None
    /\ UNCHANGED committed

\* Rewards and coins that may still arrive, and rewards on their way.
room(w) == MaxArrivals - w.received - w.hub_coins
             - SumFunctionOnSet(w.outstanding, Validators)
             - SumFunctionOnSet(w.claimable, DOMAIN AirdropPays)

\* The chain changes what the contracts see between transactions.
Outside(w) ==
    /\ AtRest
    /\ world' = w
    /\ committed' = w
    /\ UNCHANGED <<calls, tx>>

\* A delegation earns a reward.
Earn(v) ==
    /\ v \in delegated(world) /\ room(world) > 0
    /\ Outside([world EXCEPT !.outstanding[v] = @ + 1])

\* Anybody sends coins to the reward contract.
CoinsArrive ==
    /\ room(world) > 0
    /\ Outside([world EXCEPT !.bank = @ + 1, !.received = @ + 1])

\* Messages a user may send, also some that only a contract may.
UserMessages ==
    [msg : {"Bond"}, sender : Users, validator : Validators,
     amount : Payments]
    \cup [msg : {"Send", "Burn"}, sender : Users, amount : Amounts]
    \cup [msg : {"Transfer"}, sender : Users, recipient : Addrs,
          amount : Amounts]
    \cup [msg : {"IncreaseBalance"}, sender : Users, address : Users,
          amount : Amounts]
    \cup [msg : {"ClaimRewards", "SwapToRewardDenom"}, sender : Users]
    \cup [msg : {"UpdateGlobalIndex"}, sender : Users, hooks : HookLists]
    \cup [msg : {"FabricateClaim"}, sender : Users, token : AirdropTokens]

OwnerMessages ==
    {[msg |-> "UpdateConfig", sender |-> Owner, reward_contract |-> c[1],
      token_contract |-> c[2], airdrop_registry_contract |-> c[3]] :
        c \in ConfigUpdates}
    \cup [msg : {"RegisterValidator", "DeregisterValidator"},
          sender : {Owner}, validator : Validators]

\* The bounds on delegated coins and tokens.
within_bounds(c) ==
    c.msg = "Bond" =>
        /\ SumFunctionOnSet(world.delegations, Validators) + c.amount
             <= MaxBonded
        /\ \A m \in Amounts : world.total_supply + m <= MaxSupply

Next ==
    \/ \E c \in UserMessages : within_bounds(c) /\ Begin(c)
    \/ \E c \in OwnerMessages : Begin(c)
    \/ Execute \/ Revert
    \/ \E v \in Validators : Earn(v)
    \/ CoinsArrive

\* The chain executes the messages of a transaction to the end.
Spec == Init /\ [][Next]_vars /\ WF_vars(Execute \/ Revert)

-----------------------------------------------------------------------------
(* Properties. *)

Registered(w) ==
    w.config.reward_contract # None /\ w.config.token_contract # None

\* RewardSystem, where a transaction is one step, on the committed state.
\* There are no allowances here.
Atomic ==
    INSTANCE RewardSystem WITH
        reward <- committed.reward, balances <- committed.balances,
        total_supply <- committed.total_supply,
        allowances <- [p \in Users \X Users |-> 0],
        registered <- Registered(committed), bank <- committed.bank,
        other <- committed.other, arrivals <- committed.received,
        Rewards <- 0 .. MaxArrivals, MaxAllowance <- 0

\* The contracts implement RewardSystem: the chains of messages of token, hub,
\* reward contract, registry and chain, with their errors and reverts, have
\* the effect of its single steps and no other.
ImplementsAtomic == Atomic!Spec

\* Staking rewards are never paid to the hub, where nothing could share them:
\* the chain pays them out whenever a delegation changes, and no such change
\* succeeds before UpdateConfig has told it the reward contract's address.
RewardsNeverStranded == committed.hub_coins = 0

\* Between transactions the hub holds no airdropped token: what it claims is
\* swapped in the same transaction, even when the registry's entry pairs an
\* airdrop contract with the wrong token (swap_hook then fails, and undoes the
\* claim).  Nobody else sends airdropped tokens to the hub here: with some of
\* the wrong token there, swap_hook would swap those.
AirdropsSwapped == \A t \in Tokens : committed.airdrops[t] = 0

\* A transaction that runs the hub's UpdateGlobalIndex, called by anyone or by
\* the hub after a Redelegate, leaves no reward at a validator, no coin to be
\* swapped and no coin that is not in the index.
UpdateStep ==
    LET deregistered == /\ tx.msg = "DeregisterValidator"
                        /\ tx.validator \in delegated(committed)
    IN  (~AtRest /\ committed' # committed
           /\ (tx.msg = "UpdateGlobalIndex" \/ deregistered)) =>
        /\ \A v \in Validators : committed'.outstanding[v] = 0
        /\ committed'.other = 0
        /\ committed'.reward.prev_reward_balance = committed'.bank

\* UpdateStep holds of every transaction.
UpdateComplete == [][UpdateStep]_vars

\* The checks the contracts make on each other's messages never fail in the
\* middle of a transaction on their own.  Apart from what hub_refuses and
\* chain_refuses name, a message fails only for a reason that can be seen
\* before the transaction: an index update needs a reward contract that knows
\* tokens, and so does a deregistration of a validator with a delegation; any
\* deregistration needs a second validator; a transfer, burn or unbond needs
\* the tokens (the initial ones are unknown to the reward contract), a claim
\* rewards that the tax does not eat up, a bond a whitelisted validator.
ChecksExplained ==
    Failing =>
      LET w == committed
          no_index == \/ w.config.reward_contract = None
                      \/ w.reward.total_balance = 0
          poor == w.balances[tx.sender] - InitialBalances[tx.sender]
                    < tx.amount
      IN  CASE tx.msg = "UpdateGlobalIndex" -> no_index \/ tx.hooks # None
            [] tx.msg = "DeregisterValidator" ->
                 \/ no_index /\ tx.validator \in delegated(w)
                 \/ Cardinality(w.validators) = 1
            [] tx.msg \in {"Transfer", "Burn", "Send"} ->
                 ~Registered(w) \/ poor
            [] tx.msg = "ClaimRewards" ->
                 LET n == rewards_of(w.reward, w.reward.holders[tx.sender])
                 IN  deduct_tax(n) = 0
            [] tx.msg = "Bond" ->
                 ~Registered(w) \/ tx.validator \notin w.validators
            [] tx.msg \in {"UpdateConfig", "RegisterValidator"} -> FALSE
            [] OTHER -> TRUE

\* Every transaction comes to an end: no contract's messages lead back to it
\* for ever.
Terminates == ~AtRest ~> AtRest

=============================================================================
