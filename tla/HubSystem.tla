----------------------------- MODULE HubSystem -----------------------------
(***************************************************************************)
(* The hub on its chain.  A transaction is atomic: the handler and the     *)
(* messages it emits (Delegate, Undelegate, Redelegate, Mint, Burn, Send)  *)
(* take effect together or not at all, so each action is one transaction,  *)
(* with the emitted messages as its effect on the chain's variables.       *)
(*                                                                         *)
(* The token is reduced to its total supply: it can be transferred freely, *)
(* so any user may come to hold, and unbond, any part of it.               *)
(***************************************************************************)
EXTENDS Hub, Chain

CONSTANTS Owner,        \* creator of the hub
          InitPayment,  \* coins sent with instantiate
          InitTime,     \* block time of instantiate
          InitParams,   \* parameters given to instantiate
          Payments,     \* coins sent with Bond
          Amounts,      \* tokens sent with Unbond, or burnt
          Donations,    \* coins sent to the hub's address
          ParamUpdates, \* arguments of UpdateParams
          ConfigUpdates,\* arguments of UpdateConfig
          MaxBonds      \* bound: number of Bonds

ASSUME HubSystemAssumption ==
    /\ Owner \in Accounts
    /\ None \notin Accounts \cup Nat
    /\ InitPayment \in Nat \ {0}
    /\ InitTime \in Nat
    /\ InitParams \in Parameters
    /\ Payments \subseteq Nat
    /\ Amounts \subseteq Nat \ {0}
    /\ Donations \subseteq Nat \ {0}
    /\ ParamUpdates \subseteq
         [epoch_period : Nat \cup {None}, unbonding_period : Nat \cup {None},
          peg_recovery_fee : Nat \cup {None}, er_threshold : Nat \cup {None}]
    /\ ConfigUpdates \subseteq
         [owner : Contracts, reward_contract : Contracts,
          token_contract : Contracts, airdrop_registry_contract : Contracts]
    /\ MaxBonds \in Nat

VARIABLE bonds  \* Bonds so far (for the bound)

vars == <<hubVars, chainVars, bonds>>

Init ==
    \E v \in Validators :
        /\ instantiate(Owner, InitPayment, InitTime, v, InitParams)
        /\ delegations = [x \in {v} |-> InitPayment]
        /\ unbonding = {}
        /\ hub_balance = 0
        /\ supply = 0
        /\ now = InitTime
        /\ events = 0
        /\ bonds = 0

\* Bond: handler, Delegate, Mint.  The token refuses to mint zero.
Bond(v, payment) ==
    LET mint == mint_amount_with_fee(slashing(delegations, supply), payment,
                                     supply)
    IN  /\ bonds < MaxBonds
        /\ bonds' = bonds + 1
        /\ execute_bond(v, payment, delegations, supply)
        /\ mint > 0
        /\ delegations' = delegated(delegations, v, payment)
        /\ supply' = supply + mint
        /\ UNCHANGED <<unbonding, hub_balance, now, events>>

\* Send of tokens to the hub with the Unbond hook: handler, Undelegates, Burn.
Unbond(u, amount, picked) ==
    /\ execute_unbond(u, amount, now, delegations, supply, picked)
    /\ entries_ok(picked)
    /\ delegations' = undelegated(delegations, picked)
    /\ unbonding' = unbonding \cup opened(picked)
    /\ supply' = supply - amount
    /\ UNCHANGED <<hub_balance, now, events, bonds>>

\* The undelegations an Unbond of `amount` may choose from.
Picks(amount) ==
    IF epoch_passed(now)
    THEN pick_validator(delegations,
             undelegation_amount(slashing(delegations, supply), amount,
                                 supply))
    ELSE {[x \in DOMAIN delegations |-> 0]}

\* WithdrawUnbonded: handler, bank Send to the caller.
WithdrawUnbonded(u) ==
    /\ execute_withdraw_unbonded(u, now, hub_balance)
    /\ hub_balance' = hub_balance - withdraw_amount(u, now, hub_balance)
    /\ UNCHANGED <<delegations, unbonding, supply, now, events, bonds>>

CheckSlashing ==
    /\ execute_slashing(delegations, supply)
    /\ UNCHANGED <<chainVars, bonds>>

UpdateParams(sender, upd) ==
    execute_update_params(sender, upd) /\ UNCHANGED <<chainVars, bonds>>

UpdateConfig(sender, upd) ==
    execute_update_config(sender, upd) /\ UNCHANGED <<chainVars, bonds>>

RegisterValidator(sender, v) ==
    execute_register_validator(sender, v) /\ UNCHANGED <<chainVars, bonds>>

\* DeregisterValidator: handler and, when the hub has a delegation at v, the
\* Redelegate and UpdateGlobalIndex messages.  A zero amount is refused by
\* x/staking, UpdateGlobalIndex needs a reward contract and fails while it
\* knows of no tokens.
DeregisterValidator(sender, v, replaced_val) ==
    /\ execute_deregister_validator(sender, v, replaced_val)
    /\ IF v \in DOMAIN delegations
       THEN /\ delegations[v] > 0
            /\ config.reward_contract # None
            /\ supply > 0
            /\ delegations' = redelegated(delegations, v, replaced_val)
       ELSE UNCHANGED delegations
    /\ UNCHANGED <<unbonding, hub_balance, supply, now, events, bonds>>

Environment ==
    /\ \/ NextBlock
       \/ \E v \in Validators, percent \in SlashKept,
             since \in now .. now + UnbondingTime : Slash(v, percent, since)
       \/ \E a \in Donations : Donate(a)
       \/ \E a \in Amounts : BurnTokens(a)
    /\ UNCHANGED <<hubVars, bonds>>

Next ==
    \/ \E v \in Validators, p \in Payments : Bond(v, p)
    \/ \E u \in Users, a \in Amounts : \E picked \in Picks(a) :
          Unbond(u, a, picked)
    \/ \E u \in Users : WithdrawUnbonded(u)
    \/ CheckSlashing
    \/ \E s \in Accounts, upd \in ParamUpdates : UpdateParams(s, upd)
    \/ \E s \in Accounts, upd \in ConfigUpdates : UpdateConfig(s, upd)
    \/ \E s \in Accounts, v \in Validators : RegisterValidator(s, v)
    \/ \E s \in Accounts, v \in Validators, w \in Validators :
          DeregisterValidator(s, v, w)
    \/ Environment

Spec == Init /\ [][Next]_vars

-----------------------------------------------------------------------------
(* Properties. *)

\* Types of the hub's storage and of the chain's state.
TypeOK ==
    /\ HubTypeOK
    /\ IsBucket(delegations, Validators, Nat)
    /\ unbonding \subseteq [val : Validators, done : Nat, amount : Nat]
    /\ IsFiniteSet(unbonding)
    /\ hub_balance \in Nat
    /\ supply \in Nat
    /\ now \in Nat
    /\ events \in Nat
    /\ bonds \in Nat

\* The hub never counts less as bonded than it has delegated: slashing
\* (contract.rs) corrects only downwards and would never notice.  Without a
\* delegation nothing is counted as bonded, though slashing then returns
\* before comparing anything.
BondNeverUnderstated ==
    /\ Bonded(delegations) <= state.total_bond_amount
    /\ DOMAIN delegations = {} => state.total_bond_amount = 0

\* A handler that changes total_bond_amount leaves it exact: slashes that
\* happened since the last handler are folded in before the payment of
\* execute_bond is added or the undelegation of execute_unbond subtracted.
BondSettled ==
    [][state'.total_bond_amount # state.total_bond_amount =>
          state'.total_bond_amount = Bonded(delegations')]_vars

\* The delegations always cover what closing the batch with one more request
\* undelegates, so pick_validator, which panics when it runs out of them, does
\* not block the epoch; except when everything bonded is lost and the rate is
\* 1 by convention.
UndelegationCovered ==
    LET st == slashing(delegations, supply)
        requested == current_batch.requested_with_fee
    IN  st.total_bond_amount > 0 =>
          \A a \in Amounts :
            a <= supply /\ fee_ok(st, a, supply + requested,
                                 st.total_bond_amount) =>
                undelegation_amount(st, a, supply) <= Bonded(delegations)

\* What the stored exchange rate promises to all tokens, outstanding or
\* waiting in the current batch, never exceeds the coins counted as bonded,
\* also when an epoch closes without recomputing the rate and when tokens are
\* burnt behind the hub's back.  The rate is 1 by convention when nothing is
\* bonded.
RateBacked ==
    state.total_bond_amount = 0
    \/ state.exchange_rate * (supply + current_batch.requested_with_fee)
         <= state.total_bond_amount * ONE

\* The tokens execute_bond mints are worth no more than the coins paid, at
\* the rate after slashing cut to the digits decimal_division keeps.
MintWorthPayment ==
    [][LET st == slashing(delegations, supply) IN
       supply' > supply =>
          (supply' - supply) * mul(FRAC, st.exchange_rate)
            <= (state'.total_bond_amount - st.total_bond_amount) * FRAC]_vars

\* An unbond request never lowers the exchange rate the remaining holders
\* see once slashes are accounted for: neither the fee, nor the tokens that
\* move from the supply into the batch, nor closing the batch.
UnbondKeepsRate ==
    [][supply' < supply /\ wait_list' # wait_list =>
          state'.exchange_rate
            >= slashing(delegations, supply).exchange_rate]_vars

\* The balance recorded after a withdrawal is never above the real one, so
\* process_withdraw_rate, which uses the distance of the two and drops its
\* sign, always counts coins that arrived.
PrevBalanceSound ==
    state.prev_hub_balance <= hub_balance

\* Batches are closed in order and without gaps, at strictly increasing
\* times none of which is in the future, and exactly those up to
\* last_processed_batch are released.
BatchLifecycle ==
    /\ DOMAIN history = 1 .. current_batch.id - 1
    /\ \A i \in DOMAIN history :
          /\ history[i].batch_id = i
          /\ history[i].released <=> i <= state.last_processed_batch
          /\ history[i].time <= state.last_unbonded_time
          /\ \A j \in DOMAIN history :
                i < j => history[i].time < history[j].time
    /\ state.last_processed_batch < current_batch.id
    /\ state.last_unbonded_time <= now

\* A released batch is left alone; a batch becomes released only after its
\* unbonding period.
ReleaseStep ==
    \A i \in DOMAIN history :
        /\ history[i].released => history'[i] = history[i]
        /\ ~history[i].released /\ history'[i].released =>
              history[i].time + params.unbonding_period <= now

\* A batch is released only once its unbonding period has passed, and what
\* it pays is never changed afterwards (process_withdraw_rate).
ReleaseFinal == [][ReleaseStep]_vars

\* What u has requested in batch b.
Requested(u, b) == IF b \in DOMAIN wait_list[u] THEN wait_list[u][b] ELSE 0

RequestedByAll(b) == SumFunction([u \in Users |-> Requested(u, b)])

\* The users' requests of a batch add up to the amount the batch was closed
\* with (or has collected so far); withdrawals only remove requests of
\* released batches.
BatchAmountsAddUp ==
    /\ RequestedByAll(current_batch.id) = current_batch.requested_with_fee
    /\ \A i \in DOMAIN history :
          IF history[i].released
          THEN RequestedByAll(i) <= history[i].amount
          ELSE RequestedByAll(i) = history[i].amount

\* What the users can still claim from released batches.
ReleasedClaims == SumFunction([u \in Users |-> get_finished_amount(history, u)])

\* Released batches whose worth was zero or that lost everything: the extra
\* unit taken off makes SignedInt turn -1 into 1, so they may claim one coin
\* that never arrived.
PhantomBatches ==
    {i \in DOMAIN history :
        history[i].released /\ mul(history[i].amount,
                                   history[i].withdraw_rate) <= 1}

\* The claims of released batches are covered by the coins recorded after
\* the last withdrawal, whatever was slashed or donated and however the
\* loss was spread over batches; except one coin for each batch that lost
\* everything.
ReleasedClaimsCovered ==
    ReleasedClaims <= state.prev_hub_balance + Cardinality(PhantomBatches)

-----------------------------------------------------------------------------
(* What the hub promises to users who unbond. *)

Queue == INSTANCE UnbondQueue WITH
    Requests  <- UNION {0 .. a : a \in Amounts},
    Periods   <- Nat,
    open      <- current_batch.id,
    closed_at <- [b \in DOMAIN history |-> history[b].time],
    released  <- state.last_processed_batch,
    rates     <- [b \in 1 .. state.last_processed_batch |->
                    history[b].withdraw_rate],
    claims    <- wait_list,
    balance   <- hub_balance,
    clock     <- now,
    period    <- params.unbonding_period

\* The hub implements UnbondQueue, whatever is slashed, donated or burnt and
\* however the owner changes the parameters: a withdrawal pays its caller the
\* released rate of exactly the claims it removes, it releases in order and
\* not before the unbonding period, and no other operation takes coins from
\* the hub, drops a claim or changes a rate.
ImplementsQueue == Queue!Spec

-----------------------------------------------------------------------------
(* Properties for a chain whose coins are visible to the hub exactly when  *)
(* a batch falls due; with events = 0, of the time before the first slash, *)
(* donation or direct burn.                                                *)

\* Every released batch pays what it was worth when it was undelegated: each
\* batch gets its own coins, whoever withdraws first and however many
\* batches fall due together.
PaidInFull ==
    [][events = 0 =>
         \A i \in DOMAIN history :
            ~history[i].released /\ history'[i].released =>
               history'[i].withdraw_rate =
                  from_ratio(unbonded_amount(history[i]),
                             history[i].amount)]_vars

\* While nobody sends coins to the hub, releasing due batches that were worth
\* anything never fails, whatever was slashed before or after they were
\* closed: the hub does not revert every withdrawal on a division by zero or a
\* failing checked_sub.
ReleasePossible ==
    LET due == due_batches(now - params.unbonding_period)
    IN  Donations = {} /\ now >= params.unbonding_period
        /\ total_unbonded_amount(due) # 0 =>
          release_ok(due, hub_balance)

\* Batches u waits on that a withdrawal would release now.
Unsettled(u) ==
    DOMAIN wait_list[u] \cap due_batches(now - params.unbonding_period)

\* The answer of query_withdrawable_unbonded, computed from the rates stored
\* when the batches were closed, promises no more than a withdrawal in the
\* same block pays, up to one coin for each batch whose rate is still to be
\* computed from the coins that arrived.
AnswerHonoured ==
    events = 0 /\ now >= params.unbonding_period =>
        \A u \in Users :
            query_withdrawable_unbonded(u, now)
              <= withdraw_amount(u, now, hub_balance)
                   + Cardinality(Unsettled(u))

-----------------------------------------------------------------------------
(* Liveness. *)

Block == NextBlock /\ UNCHANGED <<hubVars, bonds>>

\* A withdrawal by u would succeed: ENABLED WithdrawUnbonded(u).
CanWithdraw(u) ==
    LET due    == due_batches(now - params.unbonding_period)
        amount == withdraw_amount(u, now, hub_balance)
    IN  /\ now >= params.unbonding_period
        /\ release_ok(due, hub_balance)
        /\ amount # 0
        /\ amount <= hub_balance

\* Blocks keep coming, and a user whose withdrawal would go on succeeding asks
\* for it at some time: weak fairness, with the enabling condition written
\* out.  Nobody is obliged to bond, to unbond or to close a batch.
Fairness ==
    /\ WF_vars(Block)
    /\ \A u \in Users :
          []<>~CanWithdraw(u) \/ []<><<WithdrawUnbonded(u)>>_vars

FairSpec == Spec /\ Fairness

\* u waits on closed batch b, whose period ends before the clock's bound.
Awaits(u, b) ==
    /\ b \in DOMAIN wait_list[u] \cap DOMAIN history
    /\ history[b].time + params.unbonding_period <= MaxTime

\* A request of a closed batch is paid in the end unless a slash or a burn
\* intervenes, also when other batches fall due with it, other users withdraw
\* first and new batches are closed behind it: no withdrawal leaves coins
\* uncounted that a later one needs.
EventuallyPaid ==
    \A u \in Users, b \in 1 .. MaxTime - InitTime :
        Awaits(u, b) ~> b \notin DOMAIN wait_list[u] \/ events # 0

-----------------------------------------------------------------------------
(* What comments, messages and tests of the repository say and the code    *)
(* does not do.                                                            *)

\* unbond.rs:79 "Burn amount must be greater than 1 ubluna".
BurnAmountAboveOne ==
    \A i \in DOMAIN history :
        mul(history[i].amount, history[i].applied_exchange_rate) > 1

\* unbond.rs:312 "Store state.actual_unbonded_amount for future new batches
\* release": coins that arrived are still counted after a withdrawal that
\* releases no batch.
ArrivedCoinsKept ==
    [][hub_balance' < hub_balance
       /\ state'.last_processed_batch = state.last_processed_batch =>
          state'.actual_unbonded_amount = arrived(hub_balance)]_vars

\* unbond.rs:252 "Use signed integer in case of some rogue transfers.": a
\* surplus never makes the release of the due batches fail.
RogueTransferAbsorbed ==
    LET due == due_batches(now - params.unbonding_period)
    IN  now >= params.unbonding_period
        /\ due # {} /\ total_unbonded_amount(due) # 0
        /\ slashed_amount(due, hub_balance).neg =>
             \A i \in due : slashed_amount_of_batch(i, due, hub_balance) >= 1

\* hub.rs:88 "Issue `amount` / exchange_rate for the user.": the tokens minted
\* are worth at most the payment at the full exchange rate.
IssuesQuotient ==
    [][LET st == slashing(delegations, supply) IN
       supply' > supply =>
          (supply' - supply) * st.exchange_rate
            <= (state'.total_bond_amount - st.total_bond_amount) * ONE]_vars

=============================================================================
