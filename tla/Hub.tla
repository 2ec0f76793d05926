-------------------------------- MODULE Hub --------------------------------
(***************************************************************************)
(* The hub contract: what it stores and what its handlers do to it.        *)
(*                                                                         *)
(* A handler reads its own storage, the block time and the answers of      *)
(* three queries: the hub's delegations (dels, a function from validators  *)
(* to amounts), the token's total supply and the hub's bank balance.       *)
(* Those are parameters here; module HubSystem supplies them and carries   *)
(* out the messages the handlers emit.  A handler that returns an error or *)
(* panics has its transaction reverted, so every error path is a guard.    *)
(*                                                                         *)
(* State.last_index_modification is left out: execute_update_global writes *)
(* it and no handler reads it.  Denominations are left out: only coins of  *)
(* the underlying denom are modelled.                                      *)
(***************************************************************************)
EXTENDS Decimals, Sequences, FiniteSets, Functions, FiniteSetsExt

CONSTANTS Users,       \* accounts that hold the token or unbond
          Validators,  \* validators that exist on the chain
          Accounts,    \* accounts that may call owner operations
          HubAddr,     \* the hub's own address
          None         \* Option::None

ASSUME HubAssumption == IsFiniteSet(Users) /\ IsFiniteSet(Validators)

VARIABLES config,        \* CONFIG
          params,        \* PARAMETERS
          state,         \* STATE
          current_batch, \* CURRENT_BATCH
          wait_list,     \* user -> batch id -> requested amount
          history,       \* batch id -> UnbondHistory
          validators     \* the whitelist

hubVars == <<config, params, state, current_batch, wait_list, history,
             validators>>

-----------------------------------------------------------------------------
(* Storage types. *)

Contracts == Accounts \cup {None}

Config == [creator : Accounts, reward_contract : Contracts,
           token_contract : Contracts, airdrop_registry_contract : Contracts]

Parameters == [epoch_period : Nat, unbonding_period : Nat,
               peg_recovery_fee : Nat, er_threshold : Nat]

State == [exchange_rate : Nat, total_bond_amount : Nat,
          prev_hub_balance : Nat, actual_unbonded_amount : Nat,
          last_unbonded_time : Nat, last_processed_batch : Nat]

CurrentBatch == [id : Nat \ {0}, requested_with_fee : Nat]

UnbondHistory == [batch_id : Nat, time : Nat, amount : Nat,
                  applied_exchange_rate : Nat, withdraw_rate : Nat,
                  released : BOOLEAN]

\* A storage bucket after key k is set to v.
put(f, k, v) ==
    [x \in DOMAIN f \cup {k} |-> IF x = k THEN v ELSE f[x]]

\* f is a storage bucket: some of the keys K are set, to values in V.
IsBucket(f, K, V) == DOMAIN f \subseteq K /\ f \in [DOMAIN f -> V]

\* Type invariant of the hub's storage.
HubTypeOK ==
    /\ config \in Config
    /\ params \in Parameters
    /\ state \in State
    /\ current_batch \in CurrentBatch
    /\ DOMAIN wait_list = Users
    /\ \A u \in Users :
          IsBucket(wait_list[u], 1 .. current_batch.id, Nat)
    /\ IsBucket(history, 1 .. current_batch.id, UnbondHistory)
    /\ validators \subseteq Validators

-----------------------------------------------------------------------------
(* Exchange rate and slashing. *)

\* Everything the hub has delegated.
Bonded(dels) == SumFunction(dels)

\* Mutant: the requests of the current batch are forgotten.
MutRateWithoutRequests(st, total_issued, requested) ==
    [st EXCEPT !.exchange_rate =
        IF st.total_bond_amount = 0 \/ total_issued = 0 THEN ONE
        ELSE from_ratio(st.total_bond_amount, total_issued)]

\* State::update_exchange_rate
update_exchange_rate(st, total_issued, requested) ==
    [st EXCEPT !.exchange_rate =
        IF st.total_bond_amount = 0 \/ total_issued + requested = 0
        THEN ONE
        ELSE from_ratio(st.total_bond_amount, total_issued + requested)]

\* Mutant: slashing is not looked at.
MutNoSlashing(dels, supply) == state

\* The state after `slashing`: total_bond_amount follows the delegations
\* down, never up.
slashing(dels, supply) ==
    IF DOMAIN dels # {} /\ state.total_bond_amount > Bonded(dels)
    THEN update_exchange_rate(
            [state EXCEPT !.total_bond_amount = Bonded(dels)],
            supply, current_batch.requested_with_fee)
    ELSE state

\* The peg recovery fee of execute_bond and execute_unbond: what is left of
\* `amount` when `owed` tokens are backed by `backing` coins.
with_fee(st, amount, owed, backing) ==
    IF st.exchange_rate < params.er_threshold
    THEN amount - min(mul(amount, params.peg_recovery_fee), owed - backing)
    ELSE amount

\* The two checked_subs of the fee computation succeed.
fee_ok(st, amount, owed, backing) ==
    st.exchange_rate < params.er_threshold =>
        owed >= backing /\ with_fee(st, amount, owed, backing) >= 0

-----------------------------------------------------------------------------
(* instantiate, and the two messages it emits: RegisterValidator by the    *)
(* hub itself and Delegate of the payment (see HubSystem).                 *)

instantiate(creator, payment, now, v, prm) ==
    /\ payment > 0
    /\ config = [creator |-> creator, reward_contract |-> None,
                 token_contract |-> None, airdrop_registry_contract |-> None]
    /\ params = prm
    /\ state = [exchange_rate |-> ONE, total_bond_amount |-> payment,
                prev_hub_balance |-> 0, actual_unbonded_amount |-> 0,
                last_unbonded_time |-> now, last_processed_batch |-> 0]
    /\ current_batch = [id |-> 1, requested_with_fee |-> 0]
    /\ wait_list = [u \in Users |-> <<>>]
    /\ history = <<>>
    /\ validators = {v}

-----------------------------------------------------------------------------
(* execute_bond: `payment` coins are delegated to v, mint_amount_with_fee  *)
(* tokens are minted.                                                      *)

\* Mutant: tokens are minted one for one.
MutMintOneForOne(st, payment) == payment

mint_amount(st, payment) == decimal_division(payment, st.exchange_rate)

mint_amount_with_fee(st, payment, supply) ==
    LET mint == mint_amount(st, payment)
    IN  with_fee(st, mint, supply + mint + current_batch.requested_with_fee,
                 st.total_bond_amount + payment)

\* Mutants: the payment is not counted as bonded; it is counted twice.
MutBondUncounted(st, payment, supply) ==
    update_exchange_rate(st,
        supply + mint_amount_with_fee(st, payment, supply),
        current_batch.requested_with_fee)
MutBondTwice(st, payment, supply) ==
    update_exchange_rate(
        [st EXCEPT !.total_bond_amount = @ + 2 * payment],
        supply + mint_amount_with_fee(st, payment, supply),
        current_batch.requested_with_fee)

bond_state(st, payment, supply) ==
    update_exchange_rate(
        [st EXCEPT !.total_bond_amount = @ + payment],
        supply + mint_amount_with_fee(st, payment, supply),
        current_batch.requested_with_fee)

execute_bond(v, payment, dels, supply) ==
    LET st == slashing(dels, supply)
    IN  /\ v \in validators
        /\ payment > 0
        /\ config.token_contract # None
        /\ mul(FRAC, st.exchange_rate) # 0
        /\ fee_ok(st, mint_amount(st, payment),
                  supply + mint_amount(st, payment)
                         + current_batch.requested_with_fee,
                  st.total_bond_amount + payment)
        /\ state' = bond_state(st, payment, supply)
        /\ UNCHANGED <<config, params, current_batch, wait_list, history,
                       validators>>

-----------------------------------------------------------------------------
(* execute_unbond, reached by the token's Send through receive_cw20: the   *)
(* request joins the current batch; when the epoch has passed the batch is *)
(* closed and its value undelegated.                                       *)

requested_after(st, amount, supply) ==
    current_batch.requested_with_fee
      + with_fee(st, amount, supply + current_batch.requested_with_fee,
                 st.total_bond_amount)

\* Mutant: the burnt tokens are not taken off the supply.
MutSupplyNotReduced(st, amount, supply) ==
    update_exchange_rate(st, supply, requested_after(st, amount, supply))

\* The state once the request is in the batch and the rate recomputed.
unbond_state(st, amount, supply) ==
    update_exchange_rate(st, supply - amount,
                         requested_after(st, amount, supply))

epoch_passed(now) ==
    now - state.last_unbonded_time > params.epoch_period

undelegation_amount(st, amount, supply) ==
    mul(requested_after(st, amount, supply),
        unbond_state(st, amount, supply).exchange_rate)

\* The error path of the undelegated amount: only exactly 1 is refused.
burn_amount_ok(amount) == amount # 1

\* pick_validator: the possible undelegations of `claim`.  Delegations are
\* taken in a random order, each emptied (the set S) until one of them, v,
\* covers what is left; the order is nondeterministic.  Too small a total
\* panics: no undelegation.
pick_validator(dels, claim) ==
    IF claim = 0 THEN {[x \in DOMAIN dels |-> 0]}
    ELSE UNION {
      {[x \in DOMAIN dels |->
          IF x = v THEN claim - SumFunctionOnSet(dels, S)
          ELSE IF x \in S THEN dels[x] ELSE 0] :
        v \in {y \in DOMAIN dels \ S :
                 /\ SumFunctionOnSet(dels, S) <= claim
                 /\ claim - SumFunctionOnSet(dels, S) <= dels[y]}} :
      S \in SUBSET DOMAIN dels}

\* Mutants: a second request overwrites the first; the request is filed under
\* the next batch.
MutRequestOverwritten(u, id, amount) ==
    [wait_list EXCEPT ![u] = put(@, id, amount)]
MutRequestNextBatch(u, id, amount) ==
    [wait_list EXCEPT ![u] = put(@, id + 1, amount)]

store_unbond_wait_list(u, id, amount) ==
    [wait_list EXCEPT ![u] =
        put(@, id, amount + IF id \in DOMAIN @ THEN @[id] ELSE 0)]

\* Mutant: the request that closes the batch is missing from its record.
MutStaleAmount(st, requested, now) ==
    put(history, current_batch.id,
        [batch_id |-> current_batch.id, time |-> now,
         amount |-> current_batch.requested_with_fee,
         applied_exchange_rate |-> st.exchange_rate,
         withdraw_rate |-> st.exchange_rate, released |-> FALSE])

\* The record and the state when the batch is closed.
closed_history(st, requested, now) ==
    put(history, current_batch.id,
        [batch_id |-> current_batch.id, time |-> now, amount |-> requested,
         applied_exchange_rate |-> st.exchange_rate,
         withdraw_rate |-> st.exchange_rate, released |-> FALSE])

closed_state(st, undelegated, now) ==
    [st EXCEPT !.total_bond_amount = @ - undelegated,
               !.last_unbonded_time = now]

execute_unbond(u, amount, now, dels, supply, picked) ==
    LET st  == slashing(dels, supply)
        req == requested_after(st, amount, supply)
        st1 == unbond_state(st, amount, supply)
        und == undelegation_amount(st, amount, supply)
    IN  /\ config.token_contract # None
        /\ amount <= supply
        /\ fee_ok(st, amount, supply + current_batch.requested_with_fee,
                  st.total_bond_amount)
        /\ wait_list' = store_unbond_wait_list(u, current_batch.id,
                          req - current_batch.requested_with_fee)
        /\ IF epoch_passed(now)
           THEN /\ burn_amount_ok(und)
                /\ picked \in pick_validator(dels, und)
                /\ und <= st1.total_bond_amount
                /\ history' = closed_history(st1, req, now)
                /\ current_batch' = [id |-> current_batch.id + 1,
                                     requested_with_fee |-> 0]
                /\ state' = closed_state(st1, und, now)
           ELSE /\ picked = [x \in DOMAIN dels |-> 0]
                /\ current_batch' =
                     [current_batch EXCEPT !.requested_with_fee = req]
                /\ state' = st1
                /\ UNCHANGED history
        /\ UNCHANGED <<config, params, validators>>

-----------------------------------------------------------------------------
(* execute_withdraw_unbonded: batches old enough are released at the rate  *)
(* the coins that arrived allow, then the caller is paid for every         *)
(* released batch it waits on.                                             *)

\* What a batch was worth when it was undelegated.
unbonded_amount(h) == mul(h.amount, h.withdraw_rate)

\* Mutant: batches are due as soon as they are closed.
MutDueAtOnce(historical_time) ==
    {i \in DOMAIN history : i > state.last_processed_batch}

\* Mutant: one batch is released at a time.
MutOneDue(historical_time) ==
    {i \in DOMAIN history :
        /\ i = state.last_processed_batch + 1
        /\ history[i].time <= historical_time
        /\ ~history[i].released}

\* The run of unreleased batches, oldest first, closed by `historical_time`.
due_batches(historical_time) ==
    {i \in DOMAIN history :
        /\ i > state.last_processed_batch
        /\ \A j \in state.last_processed_batch + 1 .. i :
              /\ j \in DOMAIN history
              /\ history[j].time <= historical_time
              /\ ~history[j].released}

total_unbonded_amount(due) ==
    SumFunction([i \in due |-> unbonded_amount(history[i])])

\* Mutant: coins that back earlier releases are counted again.
MutWholeBalance(hub_balance) == state.actual_unbonded_amount + hub_balance

\* The coins that arrived since the last withdrawal: the distance, its sign
\* is dropped.
arrived(hub_balance) ==
    state.actual_unbonded_amount
      + from_subtraction(hub_balance, state.prev_hub_balance).abs

slashed_amount(due, hub_balance) ==
    from_subtraction(total_unbonded_amount(due), arrived(hub_balance))

\* The part of the slashed (or surplus) amount that falls on batch i.
slashed_amount_of_batch(i, due, hub_balance) ==
    mul(slashed_amount(due, hub_balance).abs,
        from_ratio(unbonded_amount(history[i]), total_unbonded_amount(due)))

\* Mutant: losses are rounded in favour of the batch.
MutLossRoundedDown(i, due, hub_balance) ==
    LET slashed == slashed_amount(due, hub_balance)
        part    == slashed_amount_of_batch(i, due, hub_balance)
        worth   == unbonded_amount(history[i])
    IN  IF slashed.neg THEN worth + (part - 1)
        ELSE from_subtraction(worth, part).abs

\* What batch i pays out: one unit more than its part is taken off when
\* coins are missing, one unit less is added when there is a surplus.
actual_unbonded_amount_of_batch(i, due, hub_balance) ==
    LET slashed == slashed_amount(due, hub_balance)
        part    == slashed_amount_of_batch(i, due, hub_balance)
        worth   == unbonded_amount(history[i])
    IN  IF slashed.neg
        THEN worth + (part - 1)
        ELSE from_subtraction(worth,
                 IF slashed.abs # 0 THEN part + 1 ELSE part).abs

\* No division by zero and no failing checked_sub while releasing.
release_ok(due, hub_balance) ==
    \A i \in due :
        /\ total_unbonded_amount(due) # 0
        /\ history[i].amount # 0
        /\ slashed_amount(due, hub_balance).neg =>
              slashed_amount_of_batch(i, due, hub_balance) >= 1

\* The histories and the state process_withdraw_rate stores.
released_history(due, hub_balance) ==
    [i \in DOMAIN history |->
        IF i \in due
        THEN [history[i] EXCEPT
                !.withdraw_rate = from_ratio(
                    actual_unbonded_amount_of_batch(i, due, hub_balance),
                    history[i].amount),
                !.released = TRUE]
        ELSE history[i]]

\* Mutant: one batch is recorded as processed, however many were.
MutOneProcessed(due) ==
    [state EXCEPT !.last_processed_batch = IF due = {} THEN @ ELSE @ + 1,
                  !.actual_unbonded_amount = 0]

processed_state(due) ==
    [state EXCEPT !.last_processed_batch = IF due = {} THEN @ ELSE Max(due),
                  !.actual_unbonded_amount = 0]

\* get_unbond_batches: the released batches u waits on.
released_batches(hist, u) ==
    {b \in DOMAIN wait_list[u] : b \in DOMAIN hist /\ hist[b].released}

get_finished_amount(hist, u) ==
    SumFunction([b \in released_batches(hist, u) |->
                    mul(wait_list[u][b], hist[b].withdraw_rate)])

\* Mutant: one of the paid requests is removed.
MutOneRemoved(u, batches) ==
    [wait_list EXCEPT ![u] = Restrict(@, DOMAIN @ \ {Min(batches)})]

remove_unbond_wait_list(u, batches) ==
    [wait_list EXCEPT ![u] = Restrict(@, DOMAIN @ \ batches)]

\* What a withdrawal by u at time `now` pays.
withdraw_amount(u, now, hub_balance) ==
    LET due == due_batches(now - params.unbonding_period)
    IN  get_finished_amount(released_history(due, hub_balance), u)

\* Mutant: every closed batch is counted.
MutAnyTime(u, block_time) ==
    SumFunction([b \in DOMAIN wait_list[u] \cap DOMAIN history |->
                    mul(wait_list[u][b], history[b].withdraw_rate)])

\* The sum query_withdrawable_unbonded answers: closed before block_time,
\* released or not, at the rate stored so far.
query_get_finished_amount(u, block_time) ==
    SumFunction([b \in {c \in DOMAIN wait_list[u] \cap DOMAIN history :
                          history[c].time < block_time} |->
                    mul(wait_list[u][b], history[b].withdraw_rate)])

query_withdrawable_unbonded(u, now) ==
    query_get_finished_amount(u, now - params.unbonding_period)

\* Mutant: the balance is recorded before the payout.
MutBalanceBeforePayout(due, hub_balance, amount) ==
    [processed_state(due) EXCEPT !.prev_hub_balance = hub_balance]

\* The state a withdrawal stores.
withdrawn_state(due, hub_balance, amount) ==
    [processed_state(due) EXCEPT !.prev_hub_balance = hub_balance - amount]

execute_withdraw_unbonded(u, now, hub_balance) ==
    LET due    == due_batches(now - params.unbonding_period)
        hist   == released_history(due, hub_balance)
        amount == get_finished_amount(hist, u)
    IN  /\ now >= params.unbonding_period
        /\ release_ok(due, hub_balance)
        /\ amount # 0
        /\ amount <= hub_balance
        /\ history' = hist
        /\ wait_list' = remove_unbond_wait_list(u, released_batches(hist, u))
        /\ state' = withdrawn_state(due, hub_balance, amount)
        /\ UNCHANGED <<config, params, current_batch, validators>>

-----------------------------------------------------------------------------
(* The remaining handlers. *)

\* CheckSlashing; query_total_issued panics without a token contract.
execute_slashing(dels, supply) ==
    /\ DOMAIN dels # {} => config.token_contract # None
    /\ state' = slashing(dels, supply)
    /\ UNCHANGED <<config, params, current_batch, wait_list, history,
                   validators>>

\* Option::unwrap_or
unwrap_or(opt, default) == IF opt = None THEN default ELSE opt

execute_update_params(sender, upd) ==
    /\ sender = config.creator
    /\ params' =
         [epoch_period |-> unwrap_or(upd.epoch_period, params.epoch_period),
          unbonding_period |->
              unwrap_or(upd.unbonding_period, params.unbonding_period),
          peg_recovery_fee |->
              unwrap_or(upd.peg_recovery_fee, params.peg_recovery_fee),
          er_threshold |-> unwrap_or(upd.er_threshold, params.er_threshold)]
    /\ UNCHANGED <<config, state, current_batch, wait_list, history,
                   validators>>

execute_update_config(sender, upd) ==
    /\ sender = config.creator
    /\ config' =
         [creator |-> unwrap_or(upd.owner, config.creator),
          reward_contract |->
              unwrap_or(upd.reward_contract, config.reward_contract),
          token_contract |->
              unwrap_or(upd.token_contract, config.token_contract),
          airdrop_registry_contract |->
              unwrap_or(upd.airdrop_registry_contract,
                        config.airdrop_registry_contract)]
    /\ UNCHANGED <<params, state, current_batch, wait_list, history,
                   validators>>

execute_register_validator(sender, v) ==
    /\ sender \in {config.creator, HubAddr}
    /\ v \in Validators
    /\ validators' = validators \cup {v}
    /\ UNCHANGED <<config, params, state, current_batch, wait_list, history>>

\* The whitelist without v; `replaced_val` receives its delegation.  With an
\* empty whitelist the choice of replaced_val panics.
execute_deregister_validator(sender, v, replaced_val) ==
    /\ sender = config.creator
    /\ Cardinality(validators) # 1
    /\ replaced_val \in validators \ {v}
    /\ validators' = validators \ {v}
    /\ UNCHANGED <<config, params, state, current_batch, wait_list, history>>

=============================================================================
