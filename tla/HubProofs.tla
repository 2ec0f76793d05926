----------------------------- MODULE HubProofs -----------------------------
(***************************************************************************)
(* Theorems about the hub on its chain (module HubSystem), for every       *)
(* number of decimal digits, every finite set of users and validators and  *)
(* every choice of the amounts, parameters and bounds.                     *)
(***************************************************************************)
EXTENDS HubSystem, DecimalsProofs, SumTheorems

-----------------------------------------------------------------------------
(* What the helpers of the handlers return.                                *)

\* What the hub has delegated in all (the sum in slashing) is a natural
\* number.
LEMMA BondedType ==
    ASSUME NEW dels, IsBucket(dels, Validators, Nat)
    PROVE  Bonded(dels) \in Nat /\ IsFiniteSet(DOMAIN dels)
<1>1. IsFiniteSet(DOMAIN dels)
  BY HubAssumption, FS_Subset DEF IsBucket
<1>2. \A x \in DOMAIN dels : dels[x] \in Nat
  BY DEF IsBucket
<1> QED BY <1>1, <1>2, SumFunctionType DEF Bonded

\* update_exchange_rate changes the rate only.
SameButRate(st, st1) ==
    /\ st1.total_bond_amount = st.total_bond_amount
    /\ st1.prev_hub_balance = st.prev_hub_balance
    /\ st1.actual_unbonded_amount = st.actual_unbonded_amount
    /\ st1.last_unbonded_time = st.last_unbonded_time
    /\ st1.last_processed_batch = st.last_processed_batch

\* State::update_exchange_rate never divides by zero and changes only the
\* rate.
LEMMA UpdateRateType ==
    ASSUME NEW st \in State, NEW a \in Nat, NEW b \in Nat
    PROVE  /\ update_exchange_rate(st, a, b) \in State
           /\ SameButRate(st, update_exchange_rate(st, a, b))
<1> DEFINE rate == IF st.total_bond_amount = 0 \/ a + b = 0 THEN ONE
                   ELSE from_ratio(st.total_bond_amount, a + b)
<1>1. rate \in Nat
  <2>1. st.total_bond_amount \in Nat /\ a + b \in Nat
    BY DEF State
  <2>2. a + b # 0 => from_ratio(st.total_bond_amount, a + b) \in Nat
    BY <2>1, FromRatioType
  <2> QED BY <2>2, OneType
<1>2. update_exchange_rate(st, a, b) = [st EXCEPT !.exchange_rate = rate]
  BY DEF update_exchange_rate
<1> HIDE DEF rate
<1> QED BY <1>1, <1>2 DEF State, SameButRate

\* slashing keeps the batch counters and the balance bookkeeping.
LEMMA SlashingType ==
    ASSUME TypeOK
    PROVE  LET st == slashing(delegations, supply)
           IN  /\ st \in State
               /\ st.prev_hub_balance = state.prev_hub_balance
               /\ st.actual_unbonded_amount = state.actual_unbonded_amount
               /\ st.last_unbonded_time = state.last_unbonded_time
               /\ st.last_processed_batch = state.last_processed_batch
<1> DEFINE B == Bonded(delegations)
           s0 == [state EXCEPT !.total_bond_amount = B]
           req == current_batch.requested_with_fee
<1>1. B \in Nat
  BY BondedType DEF TypeOK
<1>2. /\ s0 \in State /\ state \in State
      /\ s0.prev_hub_balance = state.prev_hub_balance
      /\ s0.actual_unbonded_amount = state.actual_unbonded_amount
      /\ s0.last_unbonded_time = state.last_unbonded_time
      /\ s0.last_processed_batch = state.last_processed_batch
  <2> HIDE DEF B
  <2> QED BY <1>1 DEF TypeOK, HubTypeOK, State
<1>3. supply \in Nat /\ req \in Nat
  BY DEF TypeOK, HubTypeOK, CurrentBatch
<1>4. slashing(delegations, supply) = state
      \/ slashing(delegations, supply) = update_exchange_rate(s0, supply, req)
  BY DEF slashing
<1> HIDE DEF s0, req
<1> QED BY <1>2, <1>3, <1>4, UpdateRateType DEF SameButRate

\* The peg recovery fee leaves a natural amount when its checked_subs succeed.
LEMMA WithFeeType ==
    ASSUME TypeOK, NEW st \in State, NEW amount \in Nat, NEW owed \in Nat,
           NEW backing \in Nat, fee_ok(st, amount, owed, backing)
    PROVE  /\ with_fee(st, amount, owed, backing) \in Nat
           /\ with_fee(st, amount, owed, backing) <= amount
<1> DEFINE cut == mul(amount, params.peg_recovery_fee)
<1>1. cut \in Nat
  BY MulType DEF TypeOK, HubTypeOK, Parameters
<1>2. params.er_threshold \in Nat /\ st.exchange_rate \in Nat
  BY DEF TypeOK, HubTypeOK, Parameters, State
<1> HIDE DEF cut
<1> QED BY <1>1, <1>2 DEF with_fee, fee_ok, min, cut

-----------------------------------------------------------------------------
(* Types are preserved, one lemma for each transaction that computes.      *)

\* What a Bond mints and stores.
LEMMA BondFacts ==
    ASSUME TypeOK, NEW v \in Validators, NEW p \in Payments, Bond(v, p)
    PROVE  LET st   == slashing(delegations, supply)
               mint == mint_amount_with_fee(st, p, supply)
           IN  /\ p \in Nat
               /\ mint \in Nat
               /\ supply + mint \in Nat
               /\ state' \in State
               /\ SameButRate([st EXCEPT !.total_bond_amount = @ + p], state')
<1> DEFINE st == slashing(delegations, supply)
           all == mint_amount(st, p)
           mint == mint_amount_with_fee(st, p, supply)
           req == current_batch.requested_with_fee
           s1 == [st EXCEPT !.total_bond_amount = @ + p]
<1>1. p \in Nat
  BY HubSystemAssumption
<1>2. st \in State
  BY SlashingType
<1>3. supply \in Nat /\ req \in Nat
  BY DEF TypeOK, HubTypeOK, CurrentBatch
<1>4. all \in Nat
  <2>1. mul(FRAC, st.exchange_rate) # 0
    BY DEF Bond, execute_bond
  <2>2. st.exchange_rate \in Nat
    BY <1>2 DEF State
  <2> HIDE DEF st
  <2> QED BY <1>1, <2>1, <2>2, DecimalDivisionType DEF mint_amount
<1>5. fee_ok(st, all, supply + all + req, st.total_bond_amount + p)
  BY DEF Bond, execute_bond
<1>6. mint = with_fee(st, all, supply + all + req, st.total_bond_amount + p)
  BY DEF mint_amount_with_fee
<1>7. state' = update_exchange_rate(s1, supply + mint, req)
  BY DEF Bond, execute_bond, bond_state
<1> HIDE DEF st, all, mint, req
<1>8. st.total_bond_amount \in Nat
  BY <1>2 DEF State
<1>9. mint \in Nat
  BY <1>1, <1>2, <1>3, <1>4, <1>5, <1>6, <1>8, WithFeeType
<1>10. s1 \in State
  BY <1>1, <1>2, <1>8 DEF State
<1>11. supply + mint \in Nat
  BY <1>3, <1>9
<1>12. state' \in State /\ SameButRate(s1, state')
  <2> HIDE DEF s1
  <2> QED BY <1>3, <1>7, <1>10, <1>11, UpdateRateType
<1> QED BY <1>1, <1>9, <1>11, <1>12 DEF st, mint

\* A Bond transaction keeps the types.
LEMMA BondTypeOK ==
    ASSUME TypeOK, NEW v \in Validators, NEW p \in Payments, Bond(v, p)
    PROVE  TypeOK'
<1> DEFINE mint == mint_amount_with_fee(slashing(delegations, supply), p,
                                        supply)
<1>1. p \in Nat /\ supply + mint \in Nat /\ state' \in State
  BY BondFacts
<1>2. supply' = supply + mint
  BY DEF Bond
<1> HIDE DEF mint
<1>3. IsBucket(delegations', Validators, Nat)
  BY <1>1 DEF Bond, delegated, TypeOK, IsBucket
<1>4. bonds' \in Nat
  BY DEF Bond, TypeOK
<1>5. UNCHANGED <<config, params, current_batch, wait_list, history,
                  validators, unbonding, hub_balance, now, events>>
  BY DEF Bond, execute_bond
<1> QED BY <1>1, <1>2, <1>3, <1>4, <1>5 DEF TypeOK, HubTypeOK

\* What an Unbond adds to the batch and what it computes the rate from.
LEMMA UnbondFacts ==
    ASSUME TypeOK, NEW u \in Users, NEW a \in Amounts, NEW picked,
           Unbond(u, a, picked)
    PROVE  LET st  == slashing(delegations, supply)
               req == requested_after(st, a, supply)
               st1 == unbond_state(st, a, supply)
           IN  /\ a \in Nat
               /\ supply - a \in Nat
               /\ req \in Nat
               /\ req - current_batch.requested_with_fee \in Nat
               /\ req - current_batch.requested_with_fee <= a
               /\ st \in State
               /\ st1 \in State
               /\ SameButRate(st, st1)
               /\ undelegation_amount(st, a, supply) \in Nat
<1> DEFINE st == slashing(delegations, supply)
           req == requested_after(st, a, supply)
           cur == current_batch.requested_with_fee
           fee == with_fee(st, a, supply + cur, st.total_bond_amount)
           st1 == unbond_state(st, a, supply)
<1>1. a \in Nat
  BY HubSystemAssumption
<1>2. st \in State
  BY SlashingType
<1>3. supply \in Nat /\ cur \in Nat
  BY DEF TypeOK, HubTypeOK, CurrentBatch
<1>4. supply - a \in Nat
  BY <1>1, <1>3 DEF Unbond, execute_unbond
<1>5. fee_ok(st, a, supply + cur, st.total_bond_amount)
  BY DEF Unbond, execute_unbond
<1>6. req = cur + fee
  BY DEF requested_after
<1>7. st1 = update_exchange_rate(st, supply - a, req)
  BY DEF unbond_state
<1>8. undelegation_amount(st, a, supply) = mul(req, st1.exchange_rate)
  BY DEF undelegation_amount
<1> HIDE DEF st, cur, req, st1
<1>9. fee \in Nat /\ fee <= a
  <2>1. st.total_bond_amount \in Nat
    BY <1>2 DEF State
  <2> QED BY <1>1, <1>2, <1>3, <1>5, <2>1, WithFeeType
<1> HIDE DEF fee
<1>10. req \in Nat /\ req - cur \in Nat /\ req - cur <= a
  BY <1>1, <1>3, <1>6, <1>9
<1>11. st1 \in State /\ SameButRate(st, st1)
  BY <1>2, <1>4, <1>7, <1>10, UpdateRateType
<1>12. mul(req, st1.exchange_rate) \in Nat
  BY <1>10, <1>11, MulType DEF State
<1> QED
  BY <1>1, <1>2, <1>4, <1>8, <1>10, <1>11, <1>12 DEF st, req, st1, cur

\* pick_validator undelegates natural amounts from existing delegations.
LEMMA PickValidatorType ==
    ASSUME NEW dels, IsBucket(dels, Validators, Nat), NEW claim \in Nat,
           NEW picked \in pick_validator(dels, claim)
    PROVE  picked \in [DOMAIN dels -> Nat]
<1>1. CASE claim = 0
  BY <1>1 DEF pick_validator
<1>2. CASE claim # 0
  <2>1. PICK S \in SUBSET DOMAIN dels : \E v \in DOMAIN dels \ S :
          /\ SumFunctionOnSet(dels, S) <= claim
          /\ picked = [x \in DOMAIN dels |->
                         IF x = v THEN claim - SumFunctionOnSet(dels, S)
                         ELSE IF x \in S THEN dels[x] ELSE 0]
    BY <1>2 DEF pick_validator
  <2>2. IsFiniteSet(S) /\ \A x \in S : dels[x] \in Nat
    BY BondedType, FS_Subset DEF IsBucket
  <2>3. SumFunctionOnSet(dels, S) \in Nat
    BY <2>2, SumType
  <2> QED BY <2>1, <2>3 DEF IsBucket
<1> QED BY <1>1, <1>2

\* The undelegations an Unbond carries out are natural amounts of existing
\* delegations, whether or not it closes the batch.
LEMMA UnbondPicked ==
    ASSUME TypeOK, NEW u \in Users, NEW a \in Amounts, NEW picked,
           Unbond(u, a, picked)
    PROVE  picked \in [DOMAIN delegations -> Nat]
<1>1. CASE epoch_passed(now)
  <2>1. picked \in pick_validator(delegations,
          undelegation_amount(slashing(delegations, supply), a, supply))
    BY <1>1 DEF Unbond, execute_unbond
  <2>2. undelegation_amount(slashing(delegations, supply), a, supply) \in Nat
    BY UnbondFacts
  <2> QED BY <2>1, <2>2, PickValidatorType DEF TypeOK
<1>2. CASE ~epoch_passed(now)
  BY <1>2 DEF Unbond, execute_unbond
<1> QED BY <1>1, <1>2

\* The chain's side of the undelegations.
LEMMA UndelegatedType ==
    ASSUME TypeOK, NEW picked \in [DOMAIN delegations -> Nat]
    PROVE  /\ IsBucket(undelegated(delegations, picked), Validators, Nat)
           /\ opened(picked) \subseteq
                [val : Validators, done : Nat, amount : Nat]
           /\ IsFiniteSet(unbonding \cup opened(picked))
<1>1. IsBucket(undelegated(delegations, picked), Validators, Nat)
  BY DEF TypeOK, IsBucket, undelegated
<1>2. opened(picked) \subseteq [val : Validators, done : Nat, amount : Nat]
  <2>1. now + UnbondingTime \in Nat
    BY ChainAssumption DEF TypeOK
  <2> QED BY <2>1 DEF opened, TypeOK, IsBucket
<1>3. IsFiniteSet(opened(picked))
  <2> DEFINE V == {x \in DOMAIN picked : picked[x] > 0}
             e == [v \in V |-> [val |-> v, done |-> now + UnbondingTime,
                                amount |-> picked[v]]]
  <2>1. IsFiniteSet(V)
    BY BondedType, FS_Subset DEF TypeOK
  <2>2. opened(picked) = {e[v] : v \in V} /\ DOMAIN e = V
    BY DEF opened
  <2> HIDE DEF e, V
  <2> QED BY <2>1, <2>2, FiniteImage
<1> QED BY <1>1, <1>2, <1>3, FS_Union DEF TypeOK

\* A bucket stays a bucket when a key is set.
LEMMA PutType ==
    ASSUME NEW K, NEW V, NEW f, IsBucket(f, K, V), NEW k \in K, NEW v \in V
    PROVE  /\ IsBucket(put(f, k, v), K, V)
           /\ DOMAIN put(f, k, v) = DOMAIN f \cup {k}
BY DEF IsBucket, put

\* Keys may be added.
LEMMA BucketWiden ==
    ASSUME NEW K, NEW L, K \subseteq L, NEW V, NEW f, IsBucket(f, K, V)
    PROVE  IsBucket(f, L, V)
BY DEF IsBucket

\* An Unbond transaction keeps the types, also when it closes the batch.
LEMMA UnbondTypeOK ==
    ASSUME TypeOK, NEW u \in Users, NEW a \in Amounts, NEW picked,
           Unbond(u, a, picked)
    PROVE  TypeOK'
<1> DEFINE st  == slashing(delegations, supply)
           req == requested_after(st, a, supply)
           st1 == unbond_state(st, a, supply)
           und == undelegation_amount(st, a, supply)
           id  == current_batch.id
           add == req - current_batch.requested_with_fee
           sum == add + IF id \in DOMAIN wait_list[u] THEN wait_list[u][id]
                        ELSE 0
<1>1. /\ supply - a \in Nat /\ req \in Nat /\ add \in Nat
      /\ st1 \in State /\ und \in Nat
  BY UnbondFacts
<1>2. id \in Nat \ {0} /\ id \in 1 .. id
  BY DEF TypeOK, HubTypeOK, CurrentBatch
<1>3. wait_list' = [wait_list EXCEPT ![u] = put(wait_list[u], id, sum)]
  BY DEF Unbond, execute_unbond, store_unbond_wait_list
<1>4. current_batch' \in CurrentBatch /\ current_batch'.id \in {id, id + 1}
  <2>1. CASE epoch_passed(now)
    BY <1>2, <2>1 DEF Unbond, execute_unbond, CurrentBatch
  <2>2. CASE ~epoch_passed(now)
    <3>1. current_batch' = [current_batch EXCEPT !.requested_with_fee = req]
      BY <2>2 DEF Unbond, execute_unbond
    <3> HIDE DEF req
    <3> QED BY <1>1, <3>1 DEF TypeOK, HubTypeOK, CurrentBatch
  <2> QED BY <2>1, <2>2
<1>5. 1 .. id \subseteq 1 .. current_batch'.id
  BY <1>2, <1>4
<1>6. /\ DOMAIN wait_list' = Users
      /\ \A w \in Users :
            IsBucket(wait_list'[w], 1 .. current_batch'.id, Nat)
  <2>1. \A w \in Users : IsBucket(wait_list[w], 1 .. id, Nat)
    BY DEF TypeOK, HubTypeOK
  <2>2. DOMAIN wait_list = Users
    BY DEF TypeOK, HubTypeOK
  <2>3. sum \in Nat
    <3>1. id \in DOMAIN wait_list[u] => wait_list[u][id] \in Nat
      BY <2>1 DEF IsBucket
    <3> HIDE DEF add
    <3> QED BY <1>1, <3>1
  <2> HIDE DEF sum
  <2>4. \A w \in Users : IsBucket(wait_list'[w], 1 .. id, Nat)
    <3> TAKE w \in Users
    <3>1. CASE w = u
      <4>1. wait_list'[w] = put(wait_list[u], id, sum)
        BY <1>3, <2>2, <3>1
      <4>2. IsBucket(wait_list[u], 1 .. id, Nat)
        BY <2>1
      <4>3. IsBucket(put(wait_list[u], id, sum), 1 .. id, Nat)
        <5> DEFINE K == 1 .. id
        <5>1. IsBucket(wait_list[u], K, Nat) /\ id \in K
          BY <1>2, <4>2
        <5> HIDE DEF id, K
        <5>2. IsBucket(put(wait_list[u], id, sum), K, Nat)
          BY <2>3, <5>1, PutType
        <5> QED BY <5>2 DEF K
      <4> QED BY <4>1, <4>3
    <3>2. CASE w # u
      BY <1>3, <2>1, <2>2, <3>2
    <3> QED BY <3>1, <3>2
  <2> QED BY <1>3, <1>5, <2>2, <2>4, BucketWiden
<1>7. IsBucket(history', 1 .. current_batch'.id, UnbondHistory)
  <2>1. IsBucket(history, 1 .. id, UnbondHistory)
    BY DEF TypeOK, HubTypeOK
  <2>2. CASE epoch_passed(now)
    <3> DEFINE h == [batch_id |-> id, time |-> now, amount |-> req,
                     applied_exchange_rate |-> st1.exchange_rate,
                     withdraw_rate |-> st1.exchange_rate, released |-> FALSE]
    <3>1. history' = put(history, id, h)
      BY <2>2 DEF Unbond, execute_unbond, closed_history
    <3>2. now \in Nat /\ st1.exchange_rate \in Nat
      BY <1>1 DEF TypeOK, State
    <3>3. h \in UnbondHistory
      <4> HIDE DEF st1, req, id
      <4> QED BY <1>1, <1>2, <3>2 DEF UnbondHistory
    <3> HIDE DEF h, id
    <3>4. IsBucket(history', 1 .. id, UnbondHistory)
      BY <1>2, <2>1, <3>1, <3>3, PutType
    <3> QED BY <1>5, <3>4, BucketWiden
  <2>3. CASE ~epoch_passed(now)
    <3>1. history' = history
      BY <2>3 DEF Unbond, execute_unbond
    <3> HIDE DEF id
    <3> QED BY <1>5, <2>1, <3>1, BucketWiden
  <2> QED BY <2>2, <2>3
<1>8. state' \in State
  <2>1. CASE epoch_passed(now)
    <3>1. state' = [st1 EXCEPT !.total_bond_amount = @ - und,
                               !.last_unbonded_time = now]
          /\ und <= st1.total_bond_amount
      BY <2>1 DEF Unbond, execute_unbond, closed_state
    <3>2. now \in Nat
      BY DEF TypeOK
    <3> HIDE DEF st1, und
    <3>3. st1.total_bond_amount - und \in Nat
      BY <1>1, <3>1 DEF State
    <3> QED BY <1>1, <3>1, <3>2, <3>3 DEF State
  <2>2. CASE ~epoch_passed(now)
    BY <1>1, <2>2 DEF Unbond, execute_unbond
  <2> QED BY <2>1, <2>2
<1>9. /\ IsBucket(delegations', Validators, Nat)
      /\ unbonding' \subseteq [val : Validators, done : Nat, amount : Nat]
      /\ IsFiniteSet(unbonding')
  BY UnbondPicked, UndelegatedType DEF Unbond, TypeOK
<1>10. supply' \in Nat
  BY <1>1 DEF Unbond
<1>11. UNCHANGED <<config, params, validators, hub_balance, now, events, bonds>>
  BY DEF Unbond, execute_unbond
<1> QED
  BY <1>4, <1>6, <1>7, <1>8, <1>9, <1>10, <1>11 DEF TypeOK, HubTypeOK

\* The due batches are finitely many recorded batches.
LEMMA DueType ==
    ASSUME TypeOK, NEW t
    PROVE  /\ due_batches(t) \subseteq DOMAIN history
           /\ due_batches(t) \subseteq Nat
           /\ IsFiniteSet(due_batches(t))
           /\ IsFiniteSet(DOMAIN history)
<1>1. due_batches(t) \subseteq DOMAIN history
  BY DEF due_batches
<1>2. DOMAIN history \subseteq 1 .. current_batch.id /\ current_batch.id \in Nat
  BY DEF TypeOK, HubTypeOK, IsBucket, CurrentBatch
<1>3. IsFiniteSet(1 .. current_batch.id)
  BY <1>2, FS_Interval
<1>4. IsFiniteSet(DOMAIN history)
  BY <1>2, <1>3, FS_Subset
<1> QED BY <1>1, <1>2, <1>4, FS_Subset

\* What a recorded batch was worth is a natural number.
LEMMA UnbondedAmountType ==
    ASSUME TypeOK, NEW i \in DOMAIN history
    PROVE  history[i] \in UnbondHistory /\ unbonded_amount(history[i]) \in Nat
<1>1. history[i] \in UnbondHistory
  BY DEF TypeOK, HubTypeOK, IsBucket
<1>2. history[i].amount \in Nat /\ history[i].withdraw_rate \in Nat
  BY <1>1 DEF UnbondHistory
<1> QED BY <1>1, <1>2, MulType DEF unbonded_amount

\* What is due, what has arrived, and their distance.
LEMMA SlashedAmountType ==
    ASSUME TypeOK, NEW t
    PROVE  /\ total_unbonded_amount(due_batches(t)) \in Nat
           /\ arrived(hub_balance) \in Nat
           /\ slashed_amount(due_batches(t), hub_balance).abs \in Nat
<1> DEFINE due == due_batches(t)
           f == [i \in due |-> unbonded_amount(history[i])]
<1>1. total_unbonded_amount(due) \in Nat
  <2>1. IsFiniteSet(DOMAIN f) /\ \A i \in DOMAIN f : f[i] \in Nat
    BY DueType, UnbondedAmountType
  <2>2. SumFunction(f) \in Nat
    <3> HIDE DEF f
    <3> QED BY <2>1, SumFunctionType
  <2> QED BY <2>2 DEF total_unbonded_amount
<1>2. arrived(hub_balance) \in Nat
  <2>1. /\ hub_balance \in Nat /\ state.prev_hub_balance \in Nat
        /\ state.actual_unbonded_amount \in Nat
    BY DEF TypeOK, HubTypeOK, State
  <2>2. from_subtraction(hub_balance, state.prev_hub_balance).abs \in Nat
    BY <2>1, SubtractionType
  <2> QED BY <2>1, <2>2 DEF arrived
<1> HIDE DEF due
<1>3. slashed_amount(due, hub_balance).abs \in Nat
  BY <1>1, <1>2, SubtractionType DEF slashed_amount
<1> QED BY <1>1, <1>2, <1>3 DEF due

\* What a batch pays is a natural number when its release does not fail.
LEMMA BatchPaysType ==
    ASSUME TypeOK, NEW t, release_ok(due_batches(t), hub_balance),
           NEW i \in due_batches(t)
    PROVE  /\ actual_unbonded_amount_of_batch(i, due_batches(t), hub_balance)
                \in Nat
           /\ history[i].amount \in Nat \ {0}
<1> DEFINE due == due_batches(t)
           slashed == slashed_amount(due, hub_balance)
           part == slashed_amount_of_batch(i, due, hub_balance)
           worth == unbonded_amount(history[i])
<1>1. worth \in Nat /\ history[i] \in UnbondHistory
  BY DueType, UnbondedAmountType
<1>2. /\ total_unbonded_amount(due) \in Nat \ {0}
      /\ slashed.abs \in Nat
      /\ history[i].amount # 0
      /\ slashed.neg => part >= 1
  BY SlashedAmountType DEF release_ok
<1>3. part \in Nat
  <2>1. part = mul(slashed.abs, from_ratio(worth, total_unbonded_amount(due)))
    BY DEF slashed_amount_of_batch
  <2> HIDE DEF due, slashed, worth, part
  <2>2. from_ratio(worth, total_unbonded_amount(due)) \in Nat
    BY <1>1, <1>2, FromRatioType
  <2> QED BY <1>2, <2>1, <2>2, MulType
<1>4. actual_unbonded_amount_of_batch(i, due, hub_balance)
        = IF slashed.neg THEN worth + (part - 1)
          ELSE from_subtraction(worth, IF slashed.abs # 0 THEN part + 1
                                       ELSE part).abs
  BY DEF actual_unbonded_amount_of_batch
<1> HIDE DEF due, slashed, worth, part
<1>5. actual_unbonded_amount_of_batch(i, due, hub_balance) \in Nat
  <2>1. CASE slashed.neg
    BY <1>1, <1>2, <1>3, <1>4, <2>1
  <2>2. CASE ~slashed.neg
    <3>1. (IF slashed.abs # 0 THEN part + 1 ELSE part) \in Nat
      BY <1>3
    <3> QED BY <1>1, <1>4, <2>2, <3>1, SubtractionType
  <2> QED BY <2>1, <2>2
<1> QED BY <1>1, <1>2, <1>5 DEF due, UnbondHistory

\* The histories process_withdraw_rate stores are well-typed records of the
\* same batches.
LEMMA ReleasedHistoryType ==
    ASSUME TypeOK, NEW t, release_ok(due_batches(t), hub_balance)
    PROVE  LET hist == released_history(due_batches(t), hub_balance)
           IN  /\ hist \in [DOMAIN history -> UnbondHistory]
               /\ DOMAIN hist = DOMAIN history
<1> DEFINE due == due_batches(t)
           rate(i) == from_ratio(
                        actual_unbonded_amount_of_batch(i, due, hub_balance),
                        history[i].amount)
           rec(i) == [history[i] EXCEPT !.withdraw_rate = rate(i),
                                        !.released = TRUE]
<1>1. ASSUME NEW i \in due PROVE rec(i) \in UnbondHistory
  <2>1. rate(i) \in Nat
    BY BatchPaysType, FromRatioType
  <2>2. history[i] \in UnbondHistory
    BY DueType, UnbondedAmountType
  <2> HIDE DEF rate
  <2> QED BY <2>1, <2>2 DEF UnbondHistory
<1>2. \A i \in DOMAIN history : history[i] \in UnbondHistory
  BY UnbondedAmountType
<1>3. released_history(due, hub_balance)
        = [i \in DOMAIN history |-> IF i \in due THEN rec(i) ELSE history[i]]
  BY DEF released_history
<1> HIDE DEF due, rec
<1> QED BY <1>1, <1>2, <1>3 DEF due

\* What a user can be paid (get_finished_amount) is a natural number.
LEMMA FinishedAmountType ==
    ASSUME TypeOK, NEW hist \in [DOMAIN history -> UnbondHistory],
           NEW u \in Users
    PROVE  /\ get_finished_amount(hist, u) \in Nat
           /\ released_batches(hist, u) \subseteq DOMAIN wait_list[u]
<1> DEFINE R == released_batches(hist, u)
           f == [b \in R |-> mul(wait_list[u][b], hist[b].withdraw_rate)]
<1>1. R \subseteq DOMAIN wait_list[u] /\ R \subseteq DOMAIN history
  BY DEF released_batches
<1>2. IsFiniteSet(R)
  BY <1>1, DueType, FS_Subset
<1>3. ASSUME NEW b \in R PROVE f[b] \in Nat
  <2>1. wait_list[u][b] \in Nat
    BY <1>1 DEF TypeOK, HubTypeOK, IsBucket
  <2>2. hist[b].withdraw_rate \in Nat
    BY <1>1 DEF UnbondHistory
  <2> QED BY <2>1, <2>2, MulType
<1>4. SumFunction(f) \in Nat
  <2>1. DOMAIN f = R
    OBVIOUS
  <2> HIDE DEF f, R
  <2> QED BY <1>2, <1>3, <2>1, SumFunctionType
<1> QED BY <1>1, <1>4 DEF get_finished_amount

\* A WithdrawUnbonded transaction keeps the types.
LEMMA WithdrawTypeOK ==
    ASSUME TypeOK, NEW u \in Users, WithdrawUnbonded(u)
    PROVE  TypeOK'
<1> DEFINE t == now - params.unbonding_period
           due == due_batches(t)
           hist == released_history(due, hub_balance)
           amount == get_finished_amount(hist, u)
           R == released_batches(hist, u)
<1>1. /\ release_ok(due, hub_balance) /\ amount <= hub_balance
      /\ history' = hist
      /\ wait_list' = [wait_list EXCEPT ![u] =
                         Restrict(wait_list[u], DOMAIN wait_list[u] \ R)]
      /\ state' = withdrawn_state(due, hub_balance, amount)
      /\ hub_balance' = hub_balance - amount
  BY DEF WithdrawUnbonded, execute_withdraw_unbonded, withdraw_amount,
         remove_unbond_wait_list
<1>2. hist \in [DOMAIN history -> UnbondHistory] /\ DOMAIN hist = DOMAIN history
  BY <1>1, ReleasedHistoryType
<1>3. IsBucket(history', 1 .. current_batch.id, UnbondHistory)
  <2> HIDE DEF hist
  <2> QED BY <1>1, <1>2 DEF TypeOK, HubTypeOK, IsBucket
<1>4. amount \in Nat
  <2> HIDE DEF hist
  <2> QED BY <1>2, FinishedAmountType
<1>5. hub_balance - amount \in Nat
  <2> HIDE DEF amount
  <2> QED BY <1>1, <1>4 DEF TypeOK
<1>6. /\ DOMAIN wait_list' = Users
      /\ \A w \in Users :
            IsBucket(wait_list'[w], 1 .. current_batch.id, Nat)
  <2> HIDE DEF R
  <2>1. /\ DOMAIN wait_list = Users
        /\ \A w \in Users : IsBucket(wait_list[w], 1 .. current_batch.id, Nat)
    BY DEF TypeOK, HubTypeOK
  <2>2. IsBucket(Restrict(wait_list[u], DOMAIN wait_list[u] \ R),
                 1 .. current_batch.id, Nat)
    BY <2>1 DEF IsBucket, Restrict
  <2> QED BY <1>1, <2>1, <2>2
<1>7. state' \in State
  <2> DEFINE last == IF due = {} THEN state.last_processed_batch
                     ELSE Max(due)
  <2>1. last \in Nat
    <3>1. CASE due = {}
      BY <3>1 DEF TypeOK, HubTypeOK, State
    <3>2. CASE due # {}
      <4>1. due \subseteq Nat /\ IsFiniteSet(due)
        BY DueType
      <4> HIDE DEF due
      <4>2. due \subseteq Int
        BY <4>1
      <4>3. Max(due) \in due
        BY <3>2, <4>1, <4>2, MaxExists
      <4> QED BY <3>2, <4>1, <4>3
    <3> QED BY <3>1, <3>2
  <2>2. state' = [[state EXCEPT !.last_processed_batch = last,
                                !.actual_unbonded_amount = 0]
                    EXCEPT !.prev_hub_balance = hub_balance - amount]
    BY <1>1 DEF withdrawn_state, processed_state
  <2> HIDE DEF last, amount
  <2> QED BY <1>5, <2>1, <2>2 DEF TypeOK, HubTypeOK, State
<1>8. UNCHANGED <<config, params, current_batch, validators, delegations,
                  unbonding, supply, now, events, bonds>>
  BY DEF WithdrawUnbonded, execute_withdraw_unbonded
<1> HIDE DEF amount
<1> QED BY <1>1, <1>3, <1>5, <1>6, <1>7, <1>8 DEF TypeOK, HubTypeOK

\* Redelegating keeps the delegations a bucket of natural amounts.
LEMMA RedelegatedType ==
    ASSUME NEW dels, IsBucket(dels, Validators, Nat),
           NEW v \in DOMAIN dels, NEW w \in Validators
    PROVE  IsBucket(redelegated(dels, v, w), Validators, Nat)
<1> DEFINE rest == Restrict(dels, DOMAIN dels \ {v})
<1>1. IsBucket(rest, Validators, Nat) /\ dels[v] \in Nat
  BY DEF IsBucket, Restrict
<1> HIDE DEF rest
<1>2. IsBucket(delegated(rest, w, dels[v]), Validators, Nat)
  BY <1>1 DEF IsBucket, delegated
<1> QED BY <1>2 DEF redelegated, rest

\* Blocks, slashes, donations and direct burns keep the types.
LEMMA EnvironmentTypeOK ==
    ASSUME TypeOK, Environment
    PROVE  TypeOK' /\ now <= now' /\ hub_balance <= hub_balance'
                   /\ supply' <= supply
<1>0. UNCHANGED <<hubVars, bonds>>
  BY DEF Environment
<1>1. CASE NextBlock
  <2> DEFINE f == [e \in mature |-> e.amount]
  <2>1. mature \subseteq unbonding
    BY DEF mature
  <2>2. IsFiniteSet(mature)
    BY <2>1, FS_Subset DEF TypeOK
  <2>3. DOMAIN f = mature /\ \A e \in mature : f[e] \in Nat
    BY <2>1 DEF TypeOK
  <2>4. SumFunction(f) \in Nat
    <3> HIDE DEF f
    <3> QED BY <2>2, <2>3, SumFunctionType
  <2>5. hub_balance' \in Nat /\ hub_balance <= hub_balance'
    <3>1. hub_balance' = hub_balance + SumFunction(f)
      BY <1>1 DEF NextBlock, EntrySum
    <3> HIDE DEF f
    <3> QED BY <2>4, <3>1 DEF TypeOK
  <2>6. IsFiniteSet(unbonding') /\ unbonding' \subseteq unbonding
    BY <1>1, FS_Subset DEF NextBlock, TypeOK
  <2>7. now' \in Nat /\ now <= now'
    BY <1>1, ChainAssumption DEF NextBlock, TypeOK
  <2>8. UNCHANGED <<delegations, supply, events>>
    BY <1>1 DEF NextBlock
  <2> QED
    BY <1>0, <2>5, <2>6, <2>7, <2>8 DEF TypeOK, HubTypeOK, hubVars
<1>2. ASSUME NEW v \in Validators, NEW percent \in SlashKept,
             NEW since \in now .. now + UnbondingTime, Slash(v, percent, since)
      PROVE  TypeOK' /\ now <= now' /\ hub_balance <= hub_balance'
                     /\ supply' <= supply
  <2>1. percent \in 0 .. 99
    BY ChainAssumption
  <2>2. \A n \in Nat : kept(n, percent) \in Nat
    <3> TAKE n \in Nat
    <3>1. n * percent \in Nat
      BY <2>1, ProductNat
    <3> QED BY <3>1, DivBounds DEF kept
  <2>3. \A n \in Nat : n - kept(n, 100 - percent) \in Nat
    <3> TAKE n \in Nat
    <3>1. 100 - percent \in Nat /\ 100 - percent <= 100
      BY <2>1
    <3>2. n * (100 - percent) \in Nat /\ n * (100 - percent) <= n * 100
      <4> DEFINE q == 100 - percent
      <4> HIDE DEF q
      <4>1. q \in Nat /\ q <= 100
        BY <3>1 DEF q
      <4>2. n * q <= n * 100 /\ n * q \in Nat
        BY <4>1
      <4> QED BY <4>2 DEF q
    <3>3. /\ kept(n, 100 - percent) \in Nat
          /\ kept(n, 100 - percent) * 100 <= n * (100 - percent)
      BY <3>2, DivBounds DEF kept
    <3> QED BY <3>2, <3>3
  <2>4. IsBucket(delegations', Validators, Nat)
    BY <1>2, <2>2 DEF Slash, TypeOK, IsBucket
  <2> DEFINE cut(e) == IF e.val = v /\ e.done > since /\ e.done > now
                       THEN [e EXCEPT !.amount =
                               e.amount - kept(e.amount, 100 - percent)]
                       ELSE e
             f == [e \in unbonding |-> cut(e)]
  <2>5. unbonding' = {f[e] : e \in unbonding}
    BY <1>2 DEF Slash
  <2>6. \A e \in unbonding :
           cut(e) \in [val : Validators, done : Nat, amount : Nat]
    BY <2>3 DEF TypeOK
  <2>7. unbonding' \subseteq [val : Validators, done : Nat, amount : Nat]
    <3> HIDE DEF cut
    <3> QED BY <2>5, <2>6
  <2>8. IsFiniteSet(unbonding')
    <3>1. DOMAIN f = unbonding
      OBVIOUS
    <3> HIDE DEF f
    <3> QED BY <2>5, <3>1, FiniteImage DEF TypeOK
  <2>9. events' \in Nat /\ UNCHANGED <<hub_balance, supply, now>>
    BY <1>2 DEF Slash, Event, TypeOK
  <2> QED
    BY <1>0, <2>4, <2>7, <2>8, <2>9 DEF TypeOK, HubTypeOK, hubVars
<1>3. ASSUME NEW a \in Donations, Donate(a)
      PROVE  TypeOK' /\ now <= now' /\ hub_balance <= hub_balance'
                     /\ supply' <= supply
  BY <1>0, <1>3, HubSystemAssumption
  DEF Donate, Event, TypeOK, HubTypeOK, hubVars
<1>4. ASSUME NEW a \in Amounts, BurnTokens(a)
      PROVE  TypeOK' /\ now <= now' /\ hub_balance <= hub_balance'
                     /\ supply' <= supply
  BY <1>0, <1>4, HubSystemAssumption
  DEF BurnTokens, Event, TypeOK, HubTypeOK, hubVars
<1> QED BY <1>1, <1>2, <1>3, <1>4 DEF Environment

\* The state after instantiate is well typed.
LEMMA InitTypeOK ==
    ASSUME Init
    PROVE  TypeOK
<1>1. PICK v \in Validators :
        /\ instantiate(Owner, InitPayment, InitTime, v, InitParams)
        /\ delegations = [x \in {v} |-> InitPayment]
        /\ unbonding = {} /\ hub_balance = 0 /\ supply = 0
        /\ now = InitTime /\ events = 0 /\ bonds = 0
  BY DEF Init
<1>2. config \in Config /\ params \in Parameters /\ validators \subseteq Validators
  BY <1>1, HubSystemAssumption DEF instantiate, Config, Contracts
<1>3. state \in State /\ current_batch \in CurrentBatch
  BY <1>1, HubSystemAssumption, OneType DEF instantiate, State, CurrentBatch
<1>4. /\ DOMAIN wait_list = Users
      /\ \A u \in Users : IsBucket(wait_list[u], 1 .. current_batch.id, Nat)
  BY <1>1 DEF instantiate, IsBucket
<1>5. IsBucket(history, 1 .. current_batch.id, UnbondHistory)
  BY <1>1 DEF instantiate, IsBucket
<1>6. IsBucket(delegations, Validators, Nat)
  BY <1>1, HubSystemAssumption DEF IsBucket
<1>7. IsFiniteSet(unbonding)
  BY <1>1, FS_EmptySet
<1> QED BY <1>1, <1>2, <1>3, <1>4, <1>5, <1>6, <1>7, HubSystemAssumption
        DEF TypeOK, HubTypeOK

\* UpdateParams keeps the types: each field is the given or the old value.
LEMMA UpdateParamsTypeOK ==
    ASSUME TypeOK, NEW s \in Accounts, NEW upd \in ParamUpdates,
           UpdateParams(s, upd)
    PROVE  TypeOK'
<1>1. params' \in Parameters
  BY HubSystemAssumption DEF UpdateParams, execute_update_params, unwrap_or,
     TypeOK, HubTypeOK, Parameters
<1>2. UNCHANGED <<config, state, current_batch, wait_list, history,
                  validators, chainVars, bonds>>
  BY DEF UpdateParams, execute_update_params
<1> QED BY <1>1, <1>2 DEF TypeOK, HubTypeOK, chainVars

\* UpdateConfig keeps the types: each field is the given or the old value.
LEMMA UpdateConfigTypeOK ==
    ASSUME TypeOK, NEW s \in Accounts, NEW upd \in ConfigUpdates,
           UpdateConfig(s, upd)
    PROVE  TypeOK'
<1>1. config' \in Config
  BY HubSystemAssumption DEF UpdateConfig, execute_update_config, unwrap_or,
     TypeOK, HubTypeOK, Config, Contracts
<1>2. UNCHANGED <<params, state, current_batch, wait_list, history,
                  validators, chainVars, bonds>>
  BY DEF UpdateConfig, execute_update_config
<1> QED BY <1>1, <1>2 DEF TypeOK, HubTypeOK, chainVars

\* DeregisterValidator, with its Redelegate, keeps the types.
LEMMA DeregisterTypeOK ==
    ASSUME TypeOK, NEW s \in Accounts, NEW v \in Validators,
           NEW w \in Validators, DeregisterValidator(s, v, w)
    PROVE  TypeOK'
<1>1. IsBucket(delegations', Validators, Nat)
  <2>1. CASE v \in DOMAIN delegations
    BY <2>1, RedelegatedType DEF DeregisterValidator, TypeOK
  <2>2. CASE v \notin DOMAIN delegations
    BY <2>2 DEF DeregisterValidator, TypeOK
  <2> QED BY <2>1, <2>2
<1>2. validators' \subseteq Validators
  BY DEF DeregisterValidator, execute_deregister_validator, TypeOK, HubTypeOK
<1>3. UNCHANGED <<config, params, state, current_batch, wait_list, history,
                  unbonding, hub_balance, supply, now, events, bonds>>
  BY DEF DeregisterValidator, execute_deregister_validator
<1> QED BY <1>1, <1>2, <1>3 DEF TypeOK, HubTypeOK

\* Every step keeps the types.
LEMMA NextTypeOK ==
    ASSUME TypeOK, [Next]_vars
    PROVE  TypeOK'
<1>1. ASSUME NEW v \in Validators, NEW p \in Payments, Bond(v, p)
      PROVE  TypeOK'
  BY <1>1, BondTypeOK
<1>2. ASSUME NEW u \in Users, NEW a \in Amounts, NEW picked \in Picks(a),
             Unbond(u, a, picked)
      PROVE  TypeOK'
  BY <1>2, UnbondTypeOK
<1>3. ASSUME NEW u \in Users, WithdrawUnbonded(u)
      PROVE  TypeOK'
  BY <1>3, WithdrawTypeOK
<1>4. CASE CheckSlashing
  <2>1. state' \in State
    BY <1>4, SlashingType DEF CheckSlashing, execute_slashing
  <2>2. UNCHANGED <<config, params, current_batch, wait_list, history,
                    validators, chainVars, bonds>>
    BY <1>4 DEF CheckSlashing, execute_slashing
  <2> QED BY <2>1, <2>2 DEF TypeOK, HubTypeOK, chainVars
<1>5. ASSUME NEW s \in Accounts, NEW upd \in ParamUpdates,
             UpdateParams(s, upd)
      PROVE  TypeOK'
  BY <1>5, UpdateParamsTypeOK
<1>6. ASSUME NEW s \in Accounts, NEW upd \in ConfigUpdates,
             UpdateConfig(s, upd)
      PROVE  TypeOK'
  BY <1>6, UpdateConfigTypeOK
<1>7. ASSUME NEW s \in Accounts, NEW v \in Validators,
             RegisterValidator(s, v)
      PROVE  TypeOK'
  <2>1. validators' \subseteq Validators
    BY <1>7 DEF RegisterValidator, execute_register_validator, TypeOK,
       HubTypeOK
  <2>2. UNCHANGED <<config, params, state, current_batch, wait_list, history,
                    chainVars, bonds>>
    BY <1>7 DEF RegisterValidator, execute_register_validator
  <2> QED BY <2>1, <2>2 DEF TypeOK, HubTypeOK, chainVars
<1>8. ASSUME NEW s \in Accounts, NEW v \in Validators, NEW w \in Validators,
             DeregisterValidator(s, v, w)
      PROVE  TypeOK'
  BY <1>8, DeregisterTypeOK
<1>9. CASE Environment
  BY <1>9, EnvironmentTypeOK
<1>10. CASE UNCHANGED vars
  BY <1>10 DEF vars, hubVars, chainVars, TypeOK, HubTypeOK
<1> QED
  BY <1>1, <1>2, <1>3, <1>4, <1>5, <1>6, <1>7, <1>8, <1>9, <1>10 DEF Next

\* The hub's storage and the chain's state always have their types: under the
\* handlers' own checks no stored amount goes below zero, and every request is
\* filed under a batch that exists.
THEOREM TypeCorrect == Spec => []TypeOK
<1>1. Init => TypeOK
  BY InitTypeOK
<1>2. TypeOK /\ [Next]_vars => TypeOK'
  BY NextTypeOK
<1> QED BY <1>1, <1>2, PTL DEF Spec

=============================================================================
