# A TLA+ model of the bAsset contracts

The contracts under `src/` turn staked coins into a transferable token (the
bAsset) and back. This directory models them in TLA+, model-checks small
instances with TLC and proves the central invariants for every instance with
TLAPS. Handlers and fields keep their Rust names. There are four models:

1. the hub on its chain, where a transaction is one step (`HubSystem`), and
   what it promises to users who unbond (`UnbondQueue`);
2. the token with the reward contract, where a transaction is one step
   (`RewardSystem`);
3. the airdrop registry with a client that reads its table (`RegistrySystem`);
4. all four contracts and the chain, message by message (`Dispatch`), shown to
   implement the second.

## The system

| Part | Source | Role | Model |
|---|---|---|---|
| Hub, bonding and unbonding | `anchor_basset_hub/src/bond.rs`, `unbond.rs`, `state.rs` | delegates payments, mints tokens, collects unbond requests in batches, undelegates a batch per epoch, releases and pays it after the unbonding period | `Hub`, `HubSystem`, `UnbondQueue` |
| Hub, configuration | `config.rs` | parameters, contract addresses, validator whitelist | `Hub`, `HubSystem`; its messages in `Dispatch` |
| Hub, entry points | `contract.rs` | dispatch, slashing, reward and airdrop dispatch, queries | `Hub`, `HubSystem`, `Dispatch` |
| Arithmetic | `anchor_basset_hub/src/math.rs`, `packages/signed_integers` | truncating fixed-point numbers, unsigned distance with a sign | `Decimals` |
| Shared types | `packages/basset` | messages, `State`, the exchange rate, the tax | `Hub`, `Reward`, `Dispatch` in part |
| Reward | `anchor_basset_reward` | shares staking rewards by a global index | `Reward`, `RewardSystem`, `Dispatch` |
| Token | `anchor_basset_token` | cw20 token that mirrors each balance change to the reward contract | `RewardSystem`, `Dispatch` |
| Airdrop registry | `anchor_airdrop_registry` | fabricates airdrop claims for the hub | `Registry`, `RegistrySystem`, `Dispatch` |
| Chain | not in `src/` | staking, slashing, bank, block clock; airdrop contracts and pairs | `Chain`, `Dispatch` (external) |

A user pays coins to the hub with *Bond*. The hub delegates them and has the
token mint `payment / exchange_rate`, less a peg recovery fee when the rate is
below a threshold. To leave, a user sends tokens to the hub (*Unbond*): the
request joins the current batch and the tokens are burnt. The first Unbond
after an epoch closes the batch, records it in the history and undelegates its
worth. Once `unbonding_period` has passed, the first *WithdrawUnbonded*
releases all due batches: it compares the coins that arrived with what the
batches were worth, spreads the difference over them, and fixes each batch's
`withdraw_rate`. Every user is then paid from the released batches.

Staking rewards go to the reward contract. Anyone may call *UpdateGlobalIndex*
on the hub: rewards are withdrawn, swapped into one denom, and the reward
contract raises its global index by what arrived per token. The token announces
every balance change (DecreaseBalance, IncreaseBalance), upon which the reward
contract puts aside what the holder has accrued at the old balance. A holder is
paid the whole units of the accrued amount by *ClaimRewards* and keeps the
fraction.

The registry keeps, for each airdrop, the contracts that pay and swap it.
*FabricateMIRClaim* and *FabricateANCClaim* make it send *ClaimAirdrop* to the
hub, alone or as hooks of an index update. The hub claims the airdrop and calls
itself with *SwapHook*, which swaps the airdropped tokens for coins of the
reward contract.

## Modules

- `Decimals`: `Decimal` as a number of atomics, with all truncations. `FRAC` is
  the square root of 1.0 (`10^9` in the code, 100 in the runs). The proofs hold
  for every `FRAC`. The 128-bit width is not modelled; the amounts of a real
  deployment do not come near it.
- `Hub`: the hub's storage and one operator per handler. The answers of the
  queries a handler makes are its parameters. An error or panic reverts the
  transaction, so every error path is a guard.
- `Chain`: delegations, unbonding entries, the hub's balance, the token supply
  and the clock, modelled from how the contracts use them. An entry is paid at
  the end of the first block that has reached its completion time.
- `HubSystem`: one action per transaction, that is a handler with the messages
  it emits; then the properties.
- `UnbondQueue`: the abstract specification of unbonding, without rates,
  validators, slashing and tokens: open and closed batches, claims, the clock.
- `MCHub` and its `.cfg` files: the instances for TLC.
- `Reward`: the reward contract. Each handler is an operator from storage to
  storage, so the messages of a transaction are applied one after the other.
- `RewardSystem`: the token, the reward contract and its account, one action
  per transaction; then the properties. The cw20 library is external.
- `MCReward` and its `.cfg` files: the instances for TLC.
- `Registry`: the registry's storage and handlers, and the paginated query with
  the encoding of its keys, which decides the order of the pages.
- `RegistrySystem`: the owner's transactions, and a client that reads the table
  page by page between them; then the properties.
- `Dispatch`: a stack of messages. Executing one changes the contracts' state
  and puts the messages it emits in front of the others. The first message that
  fails restores the state before the transaction. Then the properties.
- `MCRegistry`, `MCDispatch` and their `.cfg` files: the instances for TLC.
- `SumTheorems`, `DecimalsProofs`, `HubProofs`, `HubSafety`, `QueueProofs`,
  `BondProofs`, `RewardProofs`: the proofs.

State and actions of the hub:

| Variable | Code |
|---|---|
| `config`, `params`, `state`, `current_batch` | `CONFIG`, `PARAMETERS`, `STATE`, `CURRENT_BATCH` |
| `wait_list` | the bucket `PREFIX_WAIT_MAP`: user, batch, amount |
| `history` | the bucket of `UnbondHistory` records |
| `validators` | the whitelist |
| `delegations`, `unbonding`, `hub_balance`, `supply`, `now` | answers of the chain and of the token |
| `events`, `bonds` | counters for the bounds only |

| Action | Code |
|---|---|
| `Init` | `instantiate`, with its RegisterValidator and Delegate |
| `Bond` | `execute_bond`, Delegate, Mint |
| `Unbond` | `receive_cw20`, `execute_unbond`, Undelegates, Burn |
| `WithdrawUnbonded` | `execute_withdraw_unbonded`, `process_withdraw_rate`, bank Send |
| `CheckSlashing` | `execute_slashing` |
| `UpdateParams`, `UpdateConfig`, `RegisterValidator`, `DeregisterValidator` | `config.rs` |
| `Environment` | next block, slash, coins sent to the hub, tokens burnt directly |

State and actions of the token and the reward contract:

| Variable | Code |
|---|---|
| `reward` | `STATE` and the bucket of holders of the reward contract; a missing holder reads as zeros |
| `balances`, `total_supply`, `allowances` | storage of the cw20 library |
| `registered` | the hub's config names the two contracts |
| `bank`, `other` | coins of the reward contract: of `reward_denom`, and of denoms that can be swapped |
| `arrivals` | counter for the bound only |

| Action | Code |
|---|---|
| `Init` | `instantiate` of both contracts |
| `Register` | UpdateConfig of the hub |
| `Mint`, `Transfer`, `Burn`, `TransferFrom`, `BurnFrom` | the handlers of `handler.rs` with their messages |
| `SendUnbond`, `SendFromUnbond` | `execute_send`, `execute_send_from` to the hub, whose hook burns the tokens |
| `IncreaseAllowance`, `DecreaseAllowance` | the library's handlers, called by `contract.rs` |
| `ClaimRewards` | `execute_claim_rewards`, bank Send and the chain's tax |
| `CoinsArrive` | coins sent to the account |
| `UpdateGlobalIndex` | the hub's message: withdrawal, `execute_swap`, `execute_update_global_index` |

State and actions of the registry:

| Variable | Code |
|---|---|
| `registry` | `CONFIG` with `airdrop_tokens`, and the map `AIRDROP_INFO` |
| `scan` | the client: its last token, the pages it has read, and the tokens that have been in the table since it began |

| Action | Code |
|---|---|
| `Init` | `instantiate` |
| `UpdateConfig`, `AddAirdrop`, `UpdateAirdrop`, `RemoveAirdrop` | the owner's handlers of `contract.rs` |
| `BeginScan`, `ReadPage` | `query_airdrop_infos`, `read_all_airdrop_infos` called with `start_after` |

State and actions of `Dispatch`:

| Variable | Code |
|---|---|
| `world` | one record of what the four contracts store and the chain knows, as the running transaction sees it |
| `committed` | the same record after the last transaction |
| `calls` | messages still to be executed, the next one first |
| `tx` | the message an account sent |

| Action | Code |
|---|---|
| `Begin` | an account sends one of `UserMessages` or `OwnerMessages` to a contract |
| `Execute` | the entry point of the receiver: `execute` lists 18 handlers of the contracts and 9 of the chain, the bank, the market, airdrop contracts and pairs |
| `Revert` | the message has an error or panics, or is refused for a reason outside this model |
| `Earn`, `CoinsArrive` | the chain between transactions |

In `Dispatch` a Bond mints any of `Amounts` and an Unbond undelegates any
amounts, because rates and batches are the subject of `HubSystem`. For the same
reason either may be refused at will (`hub_refuses`): the hub's own arithmetic,
its limit on the undelegated amount and `pick_validator` decide that. The
chain, the market, airdrop contracts and pairs may refuse a message at will,
too (`chain_refuses`): a validator has too many unbonding entries, a
redelegation is in progress, there is no liquidity, a proof is wrong. There are
no allowances and no slashes, and nobody but the airdrop contracts sends
airdropped tokens to the hub. The two fabricate handlers differ only in the name of
the token and are one handler. The registry's table does not change during a
run and is one that `RegistrySystem` reaches.

Abstractions. The random choices of `pick_validator` and of the replacement
validator are nondeterministic. The token is its total supply, because it can
be transferred freely. `last_index_modification` is left out: no handler reads
it. In `HubSystem`, DeregisterValidator's UpdateGlobalIndex message is
modelled by its failure conditions (no reward contract, no tokens known to it);
`Dispatch` executes it. Replacing the
token contract by one with another supply is not modelled: UpdateConfig
changes the address, and the supply stays. In `RewardSystem` allowances do not
expire, a Send to a contract other than the hub is a Transfer, and a swap pays
at most one coin for one. Coins of denoms without an exchange rate stay in the
account and are left out. The bank refuses to send nothing, so a claim that the
tax eats up fails.

## Runs

| Run | Shows |
|---|---|
| `release` | two users, one validator, several batches, up to two slashes, donations or burns and an owner who shortens the unbonding period at any time: types, batch order, requests adding up, claims of released batches covered, releases final, recorded balance sound; the hub implements `UnbondQueue` |
| `bonding` | two validators, two bonds, slashes and burns, validator changes, the peg recovery switched off: the bonded amount follows the delegations, the rate is covered, minted tokens are worth no more than the payment, an unbond does not lower the rate, the delegations cover what closing the batch undelegates |
| `timing` | at most one slash or burn, no donations: due batches that were worth anything can be released, in every order of closing, falling due and withdrawing; before the slash or burn every batch pays exactly its worth, the query of the withdrawable amount promises no more than a withdrawal pays, up to one coin for each batch not yet released, and every request of a closed batch is paid in the end |
| `share` | two users, the hub and the reward contract as holders, up to four coins arriving, claims paid to any of them: the total is the sum of the balances, all accrued rewards are covered, they change by claims only, and an index update leaves only a rest below one atomic per token |
| `mirror` | allowances as well, one arrival: types, and the two contracts' balances never drift apart |
| `registry` | four names, one the beginning of two others and one with a character that JSON escapes: the list and the map of names agree, a client's pages repeat no name and miss none that was there all the time |
| `dispatch` | two validators, contracts registered one by one, rewards, redelegations: the chains of messages implement the single steps of `RewardSystem`, rewards are never paid to the hub, an index update leaves nothing behind, and the checks the contracts make on each other's messages fail only for a reason that can be seen before the transaction |
| `airdrops` | airdrop claims alone and as hooks, with a right table, a table that pairs an airdrop with the wrong token and a table that lacks an entry: no airdropped token stays at the hub, `RewardSystem` is implemented, every transaction ends |

Four runs show places where the code and its own text disagree:

| Run | The text | The code |
|---|---|---|
| `burn_amount` | "Burn amount must be greater than 1 ubluna" (`unbond.rs:79`) | refuses exactly 1; a batch worth 0 is closed |
| `arrived_coins` | "Store state.actual_unbonded_amount for future new batches release" (`unbond.rs:312`) | sets it to zero, also when no batch was released |
| `rogue_transfer` | "Use signed integer in case of some rogue transfers." (`unbond.rs:252`) | a small surplus makes `checked_sub(1)` fail |
| `issue_quotient` | "Issue `amount` / exchange_rate for the user." (`hub.rs:88`) | the divisor is truncated first, so slightly more is issued |

`ReleasedClaimsCovered` allows one coin for each batch that pays at most one:
when such a batch loses everything, the extra unit taken off makes the
unsigned distance turn -1 into 1.

Bounds. In the hub's runs `MaxTime` stops the clock, which is why deadlock is
not checked there.
`MaxBonds` and `MaxEvents` bound the payments and the disturbances. In
`release` the clock leaves room for several batches to be closed and for two to
fall due together. The amounts 2, 3 and 7 and a slash by half do not divide
evenly, so truncation happens at every conversion. The chain's unbonding time
is one second shorter than the hub's period, so the coins have arrived exactly
when a batch falls due; `arrived_coins` widens that margin. Users and
validators are symmetric. In `share` 1.0 has nine atomics, so that
one coin shared among two tokens leaves a rest. Four coins leave room for two
claims and for a claim that is paid back to the contract. The tax is two thirds
with a cap of one coin, which a claim of two coins does not exceed and a claim
of three or four does, so `compute_tax` takes both branches. In `share` and
`mirror` `u1` holds an initial balance that the reward contract never heard
of. In `registry` pages of one and of two
entries divide four names in every way. In `dispatch` and `airdrops` the bounds
are on tokens (`MaxSupply`), delegated coins (`MaxBonded`) and arrivals
(`MaxArrivals`); a transaction may emit any number of messages. Two arrivals
are enough for a reward at each validator, or for a reward and a coin sent by
somebody else, before one index update, and for a claim that the tax does not
eat up.

Deadlock is checked in `share`, `mirror`, `registry`, `dispatch` and `airdrops`,
where somebody can always act.

Fairness. `Dispatch` assumes weak fairness of `Execute` or `Revert`: the chain
executes the messages of a transaction to the end and takes no other one in
between. `Terminates` then says that no chain of messages leads back to its
start. In `timing`, `FairSpec` assumes that blocks keep coming, and that a user
whose withdrawal would go on succeeding asks for it at some time. Nothing makes
users bond, unbond or close a batch, so `EventuallyPaid` speaks of requests in
closed batches: the last batch stays open when nobody unbonds after the epoch.
Symmetry is not used where liveness is checked.

Refinement. `ImplementsQueue` maps the hub's batches, histories and wait lists
to the queue of `UnbondQueue`; the queue leaves the rate of a release open,
which the hub computes from the coins that arrived. `ImplementsAtomic` maps the
`committed` state of `Dispatch` to the variables of `RewardSystem`: messages in
the middle of a transaction, and whole transactions that are undone, are
stuttering steps.

## Proofs

All proofs hold for every number of users and validators, all amounts,
parameters and digits, under the assumptions named in the modules: the sets of
users, validators and addresses are finite, amounts and times are natural numbers, and
blocks have strictly increasing times.

`HubProofs` and `HubSafety`:

- `TypeCorrect`: `TypeOK` is inductive. Each action has its own lemma, and each
  rests on what the handler's computations return (`BondFacts`, `UnbondFacts`,
  `SlashedAmountType`, `BatchPaysType`).
- `BatchesInOrder`: `BatchLifecycle` is inductive relative to `TypeOK`. It had
  to be strengthened by `last_unbonded_time <= now`; a batch closes only when
  the epoch has strictly passed, so its time is later than any before.
- `ReleasesAreFinal`: follows from `BatchLifecycle`, because due batches lie
  above `last_processed_batch` and released ones do not.
- `PrevBalanceNeverAbove`: only a withdrawal lowers the balance, and it records
  what is left.
- `RateAlwaysBacked`: a recomputed rate is covered because `from_ratio`
  truncates. Closing a batch takes off at most the batch's share at the current
  rate, so the rate that is not recomputed still covers the other tokens.
  Direct burns only reduce what must be covered.

`QueueProofs`:

- `HubImplementsQueue`: the initial state of the hub is one of the queue, and
  every step is a step of the queue or a stutter (`NextIsQueueStep`). An Unbond
  is a Request, whether it closes the batch or not (`UnbondIsRequest`). A
  withdrawal releases exactly the batches that are due because their times
  increase with their numbers (`BatchLifecycle`), so the first batch that is
  not due ends the iteration (`WithdrawReleases`). All other steps only let
  time pass or coins arrive.
- `RequestsAddUp`: `BatchAmountsAddUp` is inductive relative to `TypeOK` and
  `BatchLifecycle`. A request adds the same amount to one entry and to the
  batch (`StoreAdds`), and a withdrawal removes entries of released batches
  only (`WithdrawAddsUp`).

`BondProofs`:

- `NeverUnderstated`, `CountSettled`: both rest on `SlashedExact`. When the
  amount counted as bonded is not below the delegations, `slashing` makes the
  two equal. Each handler then changes both by the same amount (`Settles`), and
  slashes between transactions only lower the delegations.
- `UndelegationsCovered`: after `slashing` the rate is freshly computed and
  covers all tokens, so the part of the batch is at most what is bonded, and
  that is what is delegated.
- `MintsAreBacked`: `decimal_division` rounds the quotient by the truncated
  rate down (`DecimalDivisionBound`), and the peg fee only reduces the mint.
- `UnbondsKeepRate`: the tokens of a request move from the supply into the
  batch, and a fee makes the sum smaller, so the recomputed quotient is not
  lower. The exception is a hub that has nothing bonded, where the rate becomes
  1 by convention. This needs the invariant `ZeroBondRate`: with nothing bonded
  the stored rate is at most 1 or there are no tokens. Closing a batch
  subtracts after the rate was computed, so this does not hold by itself.

`RewardProofs`:

`Sound` collects what each message of the reward contract
preserves; the transactions are chains of such messages. The inductive
invariant `RewardInv` joins `TypeOK`, `IndexConsistent`, `BalancesMirrored`,
`Solvent` and `SupplyAddsUp`. The last is needed because a burn subtracts from
the supply, which must be at least the burnt balance.

- `MirrorKept`, `IndexKept`: every message changes one holder's balance and the
  total by the same amount.
- `RewardsCovered`: a product with a whole balance is not truncated, so putting
  rewards aside is exact. An index update truncates once, downwards. A claim
  takes from the account no more than it books out, because `deduct_tax` holds
  back at least the tax on the rest (`TaxCovered`).
- `AccruedOnlyClaimed`: from the same lemmas, for every step.
- `ArrivedShared`: the sum of what is accrued grows by the index step times the
  total balance (`UpdateSound`), which is less than one atomic per token below
  what arrived (`FromRatioRest`). Claims and token transactions change nothing.
- `RewardTypeCorrect`: no subtraction goes below zero.

`SumTheorems` derives the facts about finite sums from the definition of the
fold, with minimal counterexamples in place of induction.

Only model-checked:

- `ReleasedClaimsCovered`, `PaidInFull`, `ReleasePossible`, `AnswerHonoured`.
  They compare sums over the due batches with sums over the chain's unbonding
  entries, through several truncations per batch. A proof needs an invariant
  that matches entries with batches by their times.
- `EventuallyPaid`, `Terminates`: liveness is beyond the prover.
- The properties of `Dispatch` and `RegistrySystem`, which are about sequences
  of messages and of bytes. `ImplementsAtomic` needs an invariant on a stack of
  any length, and the pages are cut from a sorted sequence of keys, whose
  properties need induction.

## Not modelled

- `migrate` entry points, which only answer, and JSON schemas.
- Serialisation. The one place where it decides what the code does is modelled:
  the keys of the registry's table, whose order the pages follow.
- Queries that return a stored record, and the paginated queries of unbonding
  history and of reward holders. The registry's pages, the total issued and the
  withdrawable amount are modelled.
- Response types, error texts, attributes and logs, and the mock querier for
  tests in `packages/basset`.
- The width of 128 bits; no run and no deployment comes near it.
- Expiration of allowances, and contracts other than the hub that receive a
  Send.

Two situations are modelled and carry no property, because the code promises
nothing about them. After a direct burn of tokens the subtraction in the peg fee
can fail, and unbonding stops until a slash, a bond or new parameters. An epoch
cannot be closed while the chain's limit of open unbonding entries is reached.

Two properties have limits. `ReleasePossible` leaves out due batches that
were all worth nothing: `burn_amount` shows how one is closed, and its release
divides by zero. `AnswerHonoured` speaks of the time before a slash: afterwards
the query still answers with the rates stored when the batches were closed,
until the release corrects them.
