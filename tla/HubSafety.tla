----------------------------- MODULE HubSafety -----------------------------
(***************************************************************************)
(* The hub's safety invariants and action properties.  Each is inductive   *)
(* relative to the type invariant of module HubProofs.                     *)
(***************************************************************************)
EXTENDS HubProofs

-----------------------------------------------------------------------------
(* Steps that touch neither batches nor their bookkeeping.                 *)

\* The part of the state that BatchLifecycle speaks about, but the clock.
batchVars == <<current_batch, history, state.last_processed_batch,
               state.last_unbonded_time>>

\* A step that leaves batches and their bookkeeping alone, and does not turn
\* the clock back, keeps BatchLifecycle.
LEMMA QuietBatches ==
    ASSUME TypeOK, BatchLifecycle, UNCHANGED batchVars, now <= now',
           now' \in Nat
    PROVE  BatchLifecycle'
<1>1. /\ current_batch' = current_batch /\ history' = history
      /\ state'.last_processed_batch = state.last_processed_batch
      /\ state'.last_unbonded_time = state.last_unbonded_time
  BY DEF batchVars
<1>2. now \in Nat /\ state.last_unbonded_time \in Nat
  BY DEF TypeOK, HubTypeOK, State
<1>3. state'.last_unbonded_time <= now'
  BY <1>1, <1>2 DEF BatchLifecycle
<1> QED BY <1>1, <1>3 DEF BatchLifecycle

\* Closing a batch: it gets the next number and the latest time.
LEMMA UnbondLifecycle ==
    ASSUME TypeOK, BatchLifecycle, NEW u \in Users, NEW a \in Amounts,
           NEW picked, Unbond(u, a, picked)
    PROVE  BatchLifecycle'
<1> DEFINE st  == slashing(delegations, supply)
           st1 == unbond_state(st, a, supply)
           id  == current_batch.id
<1>1. /\ st1.last_unbonded_time = state.last_unbonded_time
      /\ st1.last_processed_batch = state.last_processed_batch
  BY UnbondFacts, SlashingType DEF SameButRate
<1>2. now' = now /\ now \in Nat
  BY DEF Unbond, TypeOK
<1>3. /\ st1 \in State
      /\ id \in Nat \ {0}
      /\ state.last_unbonded_time \in Nat
      /\ state.last_processed_batch \in Nat
      /\ params.epoch_period \in Nat
  BY UnbondFacts DEF TypeOK, HubTypeOK, CurrentBatch, State, Parameters
<1>4. CASE ~epoch_passed(now)
  <2>1. state' = st1 /\ history' = history
    BY <1>4 DEF Unbond, execute_unbond
  <2>2. DOMAIN history = 1 .. id - 1 /\ state.last_processed_batch < id
    BY DEF BatchLifecycle
  <2>3. current_batch'.id = id
    <3>1. current_batch' = [current_batch EXCEPT !.requested_with_fee =
                              requested_after(st, a, supply)]
      BY <1>4 DEF Unbond, execute_unbond
    <3> QED BY <3>1 DEF TypeOK, HubTypeOK, CurrentBatch
  <2> HIDE DEF st1
  <2> QED BY <1>1, <1>2, <2>1, <2>3 DEF BatchLifecycle
<1>5. CASE epoch_passed(now)
  <2> DEFINE h == history'[id]
  <2>1. /\ history' = closed_history(st1, requested_after(st, a, supply), now)
        /\ current_batch'.id = id + 1
        /\ state' = closed_state(st1, undelegation_amount(st, a, supply), now)
    BY <1>5 DEF Unbond, execute_unbond
  <2>2. /\ DOMAIN history' = DOMAIN history \cup {id}
        /\ \A i \in DOMAIN history : i # id => history'[i] = history[i]
        /\ h.batch_id = id /\ h.time = now /\ h.released = FALSE
    BY <2>1 DEF closed_history, put
  <2>3. /\ state'.last_unbonded_time = now
        /\ state'.last_processed_batch = state.last_processed_batch
    <3> HIDE DEF st1
    <3> QED BY <1>1, <1>3, <2>1 DEF closed_state, State
  <2>4. state.last_unbonded_time < now
    BY <1>2, <1>3, <1>5 DEF epoch_passed
  <2>5. /\ DOMAIN history = 1 .. id - 1
        /\ state.last_processed_batch < id
        /\ \A i \in DOMAIN history :
              /\ history[i].batch_id = i
              /\ history[i].released <=> i <= state.last_processed_batch
              /\ history[i].time <= state.last_unbonded_time
              /\ \A j \in DOMAIN history :
                    i < j => history[i].time < history[j].time
    BY DEF BatchLifecycle
  <2>6. \A i \in DOMAIN history : history[i].time \in Nat
    BY UnbondedAmountType DEF UnbondHistory
  <2> HIDE DEF h, id
  <2>7. DOMAIN history' = 1 .. (id + 1) - 1
    BY <1>3, <2>2, <2>5
  <2>8. state'.last_processed_batch < current_batch'.id
    BY <1>3, <2>1, <2>3, <2>5
  <2>9. \A i \in 1 .. id - 1 : /\ i \in DOMAIN history /\ i # id /\ i < id
                               /\ history'[i] = history[i]
                               /\ history[i].time < now
                               /\ history[i].time \in Nat
    BY <1>2, <1>3, <2>2, <2>4, <2>5, <2>6
  <2>10. \A i \in DOMAIN history' :
           /\ history'[i].batch_id = i
           /\ history'[i].time <= now
           /\ \A j \in DOMAIN history' :
                 i < j => history'[i].time < history'[j].time
    <3>1. \A i \in DOMAIN history' : i \in 1 .. id - 1 \/ i = id
      BY <1>3, <2>7
    <3>2. id \notin 1 .. id - 1 /\ \A i \in 1 .. id - 1 : ~(id < i)
      BY <1>3
    <3> QED BY <1>2, <1>3, <2>2, <2>5, <2>9, <3>1, <3>2 DEF h
  <2>11. \A i \in DOMAIN history' :
           history'[i].released <=> i <= state'.last_processed_batch
    <3>1. \A i \in DOMAIN history' : i \in 1 .. id - 1 \/ i = id
      BY <1>3, <2>7
    <3>2. ~(id <= state'.last_processed_batch)
      BY <1>3, <2>3, <2>5
    <3> QED BY <2>2, <2>3, <2>5, <2>9, <3>1, <3>2 DEF h
  <2> QED BY <1>2, <2>1, <2>3, <2>7, <2>8, <2>10, <2>11 DEF BatchLifecycle
<1> QED BY <1>4, <1>5

\* What a withdrawal does to a recorded batch: a due batch becomes released,
\* any other is left as it was; only the rate and the flag change.
LEMMA ReleasedHistory ==
    ASSUME TypeOK, NEW u \in Users, WithdrawUnbonded(u)
    PROVE  LET due == due_batches(now - params.unbonding_period)
           IN  /\ DOMAIN history' = DOMAIN history
               /\ due \subseteq DOMAIN history
               /\ \A i \in DOMAIN history :
                     /\ history'[i].batch_id = history[i].batch_id
                     /\ history'[i].time = history[i].time
                     /\ i \in due => history'[i].released = TRUE
                     /\ i \notin due => history'[i] = history[i]
               /\ state'.last_processed_batch =
                     IF due = {} THEN state.last_processed_batch ELSE Max(due)
               /\ state'.last_unbonded_time = state.last_unbonded_time
               /\ current_batch' = current_batch
<1> DEFINE due == due_batches(now - params.unbonding_period)
           rate(i) == from_ratio(
                        actual_unbonded_amount_of_batch(i, due, hub_balance),
                        history[i].amount)
           amount == get_finished_amount(released_history(due, hub_balance), u)
<1>1. history' = [i \in DOMAIN history |->
                    IF i \in due
                    THEN [history[i] EXCEPT !.withdraw_rate = rate(i),
                                            !.released = TRUE]
                    ELSE history[i]]
  BY DEF WithdrawUnbonded, execute_withdraw_unbonded, released_history
<1>2. \A i \in DOMAIN history : history[i] \in UnbondHistory
  BY UnbondedAmountType
<1>3. due \subseteq DOMAIN history
  BY DueType
<1>4. state' = withdrawn_state(due, hub_balance, amount)
  BY DEF WithdrawUnbonded, execute_withdraw_unbonded
<1>5. current_batch' = current_batch
  BY DEF WithdrawUnbonded, execute_withdraw_unbonded
<1> HIDE DEF due, rate, amount
<1>6. \A i \in DOMAIN history :
         /\ history'[i].batch_id = history[i].batch_id
         /\ history'[i].time = history[i].time
         /\ i \in due => history'[i].released = TRUE
         /\ i \notin due => history'[i] = history[i]
  BY <1>1, <1>2 DEF UnbondHistory
<1>7. /\ state'.last_processed_batch =
            IF due = {} THEN state.last_processed_batch ELSE Max(due)
      /\ state'.last_unbonded_time = state.last_unbonded_time
  BY <1>4 DEF withdrawn_state, processed_state, TypeOK, HubTypeOK, State
<1> QED BY <1>1, <1>3, <1>5, <1>6, <1>7 DEF due

\* Releasing batches: exactly the batches up to the new last_processed_batch
\* are released, because the due batches follow the released ones without a
\* gap.
LEMMA WithdrawLifecycle ==
    ASSUME TypeOK, BatchLifecycle, NEW u \in Users, WithdrawUnbonded(u)
    PROVE  BatchLifecycle'
<1> DEFINE due == due_batches(now - params.unbonding_period)
           id == current_batch.id
           last == state.last_processed_batch
<1>1. /\ DOMAIN history' = DOMAIN history
      /\ due \subseteq DOMAIN history
      /\ \A i \in DOMAIN history :
            /\ history'[i].batch_id = history[i].batch_id
            /\ history'[i].time = history[i].time
            /\ i \in due => history'[i].released = TRUE
            /\ i \notin due => history'[i] = history[i]
      /\ state'.last_processed_batch = IF due = {} THEN last ELSE Max(due)
      /\ state'.last_unbonded_time = state.last_unbonded_time
      /\ current_batch' = current_batch
  BY ReleasedHistory
<1>2. now' = now
  BY DEF WithdrawUnbonded
<1>3. id \in Nat \ {0} /\ last \in Nat
  BY DEF TypeOK, HubTypeOK, CurrentBatch, State
<1>4. /\ DOMAIN history = 1 .. id - 1
      /\ last < id
      /\ \A i \in DOMAIN history : history[i].released <=> i <= last
  BY DEF BatchLifecycle
<1>5. \A i \in due : i > last /\ \A j \in last + 1 .. i : j \in due
  <2>1. \A i \in due : /\ i > last
                       /\ \A j \in last + 1 .. i :
                             /\ j \in DOMAIN history
                             /\ history[j].time <= now - params.unbonding_period
                             /\ ~history[j].released
    BY DEF due_batches
  <2>2. \A i \in due : i \in Nat
    BY <1>1, <1>4
  <2> TAKE i \in due
  <2>3. i > last
    BY <2>1
  <2>4. ASSUME NEW j \in last + 1 .. i PROVE j \in due
    <3>1. \A k \in last + 1 .. j : k \in last + 1 .. i
      BY <1>3, <2>2
    <3>2. j \in DOMAIN history /\ j > last
      BY <1>3, <2>1, <2>2
    <3> QED BY <2>1, <3>1, <3>2 DEF due_batches
  <2> QED BY <2>3, <2>4
<1>6. \A i \in DOMAIN history :
         history'[i].released <=> i <= state'.last_processed_batch
  <2>1. CASE due = {}
    BY <1>1, <1>4, <2>1
  <2>2. CASE due # {}
    <3>1. IsFiniteSet(due)
      BY DueType
    <3>2. due \subseteq Int
      BY <1>1, <1>4
    <3> HIDE DEF due, id, last
    <3>3. Max(due) \in due /\ \A i \in due : i <= Max(due)
      BY <2>2, <3>1, <3>2, MaxExists
    <3>4. state'.last_processed_batch = Max(due)
      BY <1>1, <2>2
    <3> DEFINE m == Max(due)
    <3>5. m \in DOMAIN history /\ m > last /\ m \in Nat
      BY <1>1, <1>3, <1>4, <1>5, <3>3
    <3>6. \A j \in last + 1 .. m : j \in due
      BY <1>5, <3>3
    <3> HIDE DEF m
    <3>7. ASSUME NEW i \in DOMAIN history PROVE i \in due <=> last < i /\ i <= m
      <4>1. i \in due => last < i /\ i <= m
        BY <1>3, <1>4, <1>5, <3>3 DEF m
      <4>2. last < i /\ i <= m => i \in due
        BY <1>3, <1>4, <3>5, <3>6
      <4> QED BY <4>1, <4>2
    <3>8. ASSUME NEW i \in DOMAIN history
          PROVE  history'[i].released <=> i <= m
      <4>1. i \in Nat
        BY <1>3, <1>4
      <4>2. CASE i \in due
        BY <1>1, <3>7, <4>2
      <4>3. CASE i \notin due
        <5>1. history'[i].released <=> i <= last
          BY <1>1, <1>4, <4>3
        <5>2. i <= last <=> i <= m
          BY <1>3, <3>5, <3>7, <4>1, <4>3
        <5> QED BY <5>1, <5>2
      <4> QED BY <4>2, <4>3
    <3> QED BY <3>4, <3>8 DEF m
  <2> QED BY <2>1, <2>2
<1>7. state'.last_processed_batch < current_batch'.id
  <2>1. CASE due = {}
    BY <1>1, <1>4, <2>1
  <2>2. CASE due # {}
    <3>1. IsFiniteSet(due)
      BY DueType
    <3>2. due \subseteq Int
      BY <1>1, <1>4
    <3> HIDE DEF due, id, last
    <3>3. Max(due) \in due
      BY <2>2, <3>1, <3>2, MaxExists
    <3> QED BY <1>1, <1>3, <1>4, <2>2, <3>3 DEF id
  <2> QED BY <2>1, <2>2
<1> HIDE DEF due, last
<1> QED BY <1>1, <1>2, <1>6, <1>7 DEF BatchLifecycle

\* The remaining steps close and release nothing.
QuietStep ==
    \/ \E v \in Validators, p \in Payments : Bond(v, p)
    \/ CheckSlashing
    \/ \E s \in Accounts, upd \in ParamUpdates : UpdateParams(s, upd)
    \/ \E s \in Accounts, upd \in ConfigUpdates : UpdateConfig(s, upd)
    \/ \E s \in Accounts, v \in Validators : RegisterValidator(s, v)
    \/ \E s \in Accounts, v \in Validators, w \in Validators :
          DeregisterValidator(s, v, w)
    \/ Environment
    \/ UNCHANGED vars

\* Every transaction but Unbond and WithdrawUnbonded leaves batches, requests
\* of the batch and the balance bookkeeping alone.
LEMMA QuietFacts ==
    ASSUME TypeOK, QuietStep
    PROVE  /\ UNCHANGED batchVars
           /\ state'.prev_hub_balance = state.prev_hub_balance
           /\ hub_balance <= hub_balance'
           /\ now <= now' /\ now' \in Nat
<1>0. /\ now \in Nat /\ hub_balance \in Nat
      /\ now <= now /\ hub_balance <= hub_balance
  BY DEF TypeOK
<1>1. ASSUME NEW v \in Validators, NEW p \in Payments, Bond(v, p)
      PROVE  /\ UNCHANGED batchVars
             /\ state'.prev_hub_balance = state.prev_hub_balance
             /\ hub_balance <= hub_balance'
             /\ now <= now' /\ now' \in Nat
  <2> DEFINE st == slashing(delegations, supply)
             s1 == [st EXCEPT !.total_bond_amount = @ + p]
  <2>1. SameButRate(s1, state')
    BY <1>1, BondFacts
  <2>2. /\ st \in State
        /\ st.prev_hub_balance = state.prev_hub_balance
        /\ st.last_unbonded_time = state.last_unbonded_time
        /\ st.last_processed_batch = state.last_processed_batch
    BY SlashingType
  <2>3. UNCHANGED <<current_batch, history, hub_balance, now>>
    BY <1>1 DEF Bond, execute_bond
  <2> HIDE DEF st
  <2>4. /\ s1.prev_hub_balance = state.prev_hub_balance
        /\ s1.last_unbonded_time = state.last_unbonded_time
        /\ s1.last_processed_batch = state.last_processed_batch
    BY <2>2 DEF State
  <2> QED BY <1>0, <2>1, <2>3, <2>4 DEF batchVars, SameButRate
<1>2. CASE CheckSlashing
  <2>1. /\ state'.prev_hub_balance = state.prev_hub_balance
        /\ state'.last_unbonded_time = state.last_unbonded_time
        /\ state'.last_processed_batch = state.last_processed_batch
    BY <1>2, SlashingType DEF CheckSlashing, execute_slashing
  <2>2. UNCHANGED <<current_batch, history, hub_balance, now>>
    BY <1>2 DEF CheckSlashing, execute_slashing, chainVars
  <2> QED BY <1>0, <2>1, <2>2 DEF batchVars
<1>3. ASSUME NEW s \in Accounts, NEW upd, UpdateParams(s, upd)
      PROVE  UNCHANGED <<state, current_batch, history, hub_balance, now>>
  BY <1>3 DEF UpdateParams, execute_update_params, chainVars
<1>4. ASSUME NEW s \in Accounts, NEW upd, UpdateConfig(s, upd)
      PROVE  UNCHANGED <<state, current_batch, history, hub_balance, now>>
  BY <1>4 DEF UpdateConfig, execute_update_config, chainVars
<1>5. ASSUME NEW s \in Accounts, NEW v \in Validators, RegisterValidator(s, v)
      PROVE  UNCHANGED <<state, current_batch, history, hub_balance, now>>
  BY <1>5 DEF RegisterValidator, execute_register_validator, chainVars
<1>6. ASSUME NEW s \in Accounts, NEW v \in Validators, NEW w \in Validators,
             DeregisterValidator(s, v, w)
      PROVE  UNCHANGED <<state, current_batch, history, hub_balance, now>>
  BY <1>6 DEF DeregisterValidator, execute_deregister_validator
<1>7. CASE Environment
  <2>1. UNCHANGED <<state, current_batch, history>>
    BY <1>7 DEF Environment, hubVars
  <2>2. TypeOK' /\ now <= now' /\ hub_balance <= hub_balance'
    BY <1>7, EnvironmentTypeOK
  <2> QED BY <2>1, <2>2 DEF batchVars, TypeOK
<1>8. CASE UNCHANGED vars
  BY <1>0, <1>8 DEF vars, hubVars, chainVars, batchVars
<1>9. ASSUME UNCHANGED <<state, current_batch, history, hub_balance, now>>
      PROVE  /\ UNCHANGED batchVars
             /\ state'.prev_hub_balance = state.prev_hub_balance
             /\ hub_balance <= hub_balance'
             /\ now <= now' /\ now' \in Nat
  BY <1>0, <1>9 DEF batchVars
<1> QED
  BY <1>1, <1>2, <1>3, <1>4, <1>5, <1>6, <1>7, <1>8, <1>9 DEF QuietStep

\* Such a transaction leaves the requests alone, and changes the parameters only
\* when neither the clock nor the balance moves.
LEMMA QuietClaims ==
    ASSUME QuietStep
    PROVE  \/ UNCHANGED <<wait_list, params>>
           \/ UNCHANGED <<wait_list, hub_balance, now>>
<1>1. ASSUME NEW v \in Validators, NEW p \in Payments, Bond(v, p)
      PROVE  UNCHANGED <<wait_list, params>>
  BY <1>1 DEF Bond, execute_bond
<1>2. CASE CheckSlashing
  BY <1>2 DEF CheckSlashing, execute_slashing
<1>3. ASSUME NEW s \in Accounts, NEW upd \in ParamUpdates,
             UpdateParams(s, upd)
      PROVE  UNCHANGED <<wait_list, hub_balance, now>>
  BY <1>3 DEF UpdateParams, execute_update_params, chainVars
<1>4. ASSUME NEW s \in Accounts, NEW upd \in ConfigUpdates,
             UpdateConfig(s, upd)
      PROVE  UNCHANGED <<wait_list, params>>
  BY <1>4 DEF UpdateConfig, execute_update_config
<1>5. ASSUME NEW s \in Accounts, NEW v \in Validators,
             RegisterValidator(s, v)
      PROVE  UNCHANGED <<wait_list, params>>
  BY <1>5 DEF RegisterValidator, execute_register_validator
<1>6. ASSUME NEW s \in Accounts, NEW v \in Validators,
             NEW w \in Validators, DeregisterValidator(s, v, w)
      PROVE  UNCHANGED <<wait_list, params>>
  BY <1>6 DEF DeregisterValidator, execute_deregister_validator
<1>7. CASE Environment
  BY <1>7 DEF Environment, hubVars
<1>8. CASE UNCHANGED vars
  BY <1>8 DEF vars, hubVars
<1> QED BY <1>1, <1>2, <1>3, <1>4, <1>5, <1>6, <1>7, <1>8 DEF QuietStep

\* A step is an Unbond, a WithdrawUnbonded, or quiet about the batches.
LEMMA StepCases ==
    ASSUME [Next]_vars
    PROVE  \/ \E u \in Users, a \in Amounts : \E picked \in Picks(a) :
                 Unbond(u, a, picked)
           \/ \E u \in Users : WithdrawUnbonded(u)
           \/ QuietStep
BY DEF Next, QuietStep

-----------------------------------------------------------------------------
(* Batches and the recorded balance.                                       *)

\* After instantiate no batch is closed and none is processed.
LEMMA InitLifecycle ==
    ASSUME Init
    PROVE  BatchLifecycle /\ PrevBalanceSound
<1>1. /\ history = <<>>
      /\ current_batch.id = 1
      /\ state.last_processed_batch = 0
      /\ state.last_unbonded_time = InitTime /\ now = InitTime
      /\ state.prev_hub_balance = 0 /\ hub_balance = 0
  BY DEF Init, instantiate
<1>2. DOMAIN history = 1 .. current_batch.id - 1 /\ DOMAIN history = {}
  BY <1>1
<1> QED BY <1>1, <1>2, HubSystemAssumption DEF BatchLifecycle, PrevBalanceSound

\* Every step keeps BatchLifecycle.
LEMMA NextLifecycle ==
    ASSUME TypeOK, BatchLifecycle, [Next]_vars
    PROVE  BatchLifecycle'
<1>1. ASSUME QuietStep PROVE BatchLifecycle'
  BY <1>1, QuietFacts, QuietBatches
<1> QED BY <1>1, UnbondLifecycle, WithdrawLifecycle, StepCases

\* Batches are closed in order, without gaps and at strictly increasing
\* times, and exactly those up to last_processed_batch are released, whatever
\* is slashed, donated or burnt and whoever withdraws when.
THEOREM BatchesInOrder == Spec => []BatchLifecycle
<1>1. Init => BatchLifecycle
  BY InitLifecycle
<1>2. TypeOK /\ BatchLifecycle /\ [Next]_vars => BatchLifecycle'
  BY NextLifecycle
<1> QED BY <1>1, <1>2, TypeCorrect, PTL DEF Spec

\* process_withdraw_rate never mistakes coins that left for coins that
\* arrived: the balance it compares with is never above the real one.
THEOREM PrevBalanceNeverAbove == Spec => []PrevBalanceSound
<1>1. Init => PrevBalanceSound
  BY InitLifecycle
<1>2. ASSUME TypeOK, PrevBalanceSound, [Next]_vars, TypeOK'
      PROVE  PrevBalanceSound'
  <2>0. /\ state.prev_hub_balance \in Nat /\ hub_balance \in Nat
        /\ hub_balance' \in Nat
    BY <1>2 DEF TypeOK, HubTypeOK, State
  <2>1. ASSUME QuietStep PROVE PrevBalanceSound'
    BY <1>2, <2>0, <2>1, QuietFacts DEF PrevBalanceSound
  <2>2. ASSUME NEW u \in Users, NEW a \in Amounts, NEW picked,
               Unbond(u, a, picked)
        PROVE  PrevBalanceSound'
    <3> DEFINE st  == slashing(delegations, supply)
               st1 == unbond_state(st, a, supply)
    <3>1. st1.prev_hub_balance = state.prev_hub_balance /\ st1 \in State
      BY <1>2, <2>2, UnbondFacts, SlashingType DEF SameButRate
    <3>2. \/ state' = st1
          \/ state' = closed_state(st1, undelegation_amount(st, a, supply), now)
      BY <2>2 DEF Unbond, execute_unbond
    <3>3. hub_balance' = hub_balance
      BY <2>2 DEF Unbond
    <3> HIDE DEF st1
    <3>4. state'.prev_hub_balance = state.prev_hub_balance
      BY <3>1, <3>2 DEF closed_state, State
    <3> QED BY <1>2, <3>3, <3>4 DEF PrevBalanceSound
  <2>3. ASSUME NEW u \in Users, WithdrawUnbonded(u)
        PROVE  PrevBalanceSound'
    <3> DEFINE due == due_batches(now - params.unbonding_period)
               amount == get_finished_amount(
                             released_history(due, hub_balance), u)
    <3>1. /\ state' = withdrawn_state(due, hub_balance, amount)
          /\ hub_balance' = hub_balance - amount
      BY <2>3 DEF WithdrawUnbonded, execute_withdraw_unbonded, withdraw_amount
    <3> HIDE DEF due, amount
    <3>2. state'.prev_hub_balance = hub_balance'
      BY <1>2, <3>1 DEF withdrawn_state, processed_state, TypeOK, HubTypeOK,
         State
    <3> QED BY <2>0, <3>2 DEF PrevBalanceSound
  <2> QED BY <1>2, <2>1, <2>2, <2>3, StepCases
<1> QED BY <1>1, <1>2, TypeCorrect, PTL DEF Spec

\* Every step releases only batches whose unbonding period has passed, and
\* leaves released ones alone.
LEMMA NextRelease ==
    ASSUME TypeOK, BatchLifecycle, [Next]_vars
    PROVE  [ReleaseStep]_vars
<1>1. ASSUME history' = history PROVE ReleaseStep
  BY <1>1 DEF ReleaseStep
<1>2. ASSUME QuietStep PROVE ReleaseStep
  BY <1>1, <1>2, QuietFacts DEF batchVars
<1>3. ASSUME NEW u \in Users, NEW a \in Amounts, NEW picked,
             Unbond(u, a, picked)
      PROVE  ReleaseStep
  <2>1. CASE ~epoch_passed(now)
    BY <1>1, <1>3, <2>1 DEF Unbond, execute_unbond
  <2>2. CASE epoch_passed(now)
    <3>1. \E h : history' = put(history, current_batch.id, h)
      BY <1>3, <2>2 DEF Unbond, execute_unbond, closed_history
    <3>2. current_batch.id \notin DOMAIN history
      BY DEF BatchLifecycle, TypeOK, HubTypeOK, CurrentBatch
    <3>3. \A i \in DOMAIN history : history'[i] = history[i]
      BY <3>1, <3>2 DEF put
    <3> QED BY <3>3 DEF ReleaseStep
  <2> QED BY <2>1, <2>2
<1>4. ASSUME NEW u \in Users, WithdrawUnbonded(u)
      PROVE  ReleaseStep
  <2> DEFINE due == due_batches(now - params.unbonding_period)
  <2>1. \A i \in DOMAIN history : i \notin due => history'[i] = history[i]
    BY <1>4, ReleasedHistory
  <2>2. ASSUME NEW i \in due
        PROVE  /\ ~history[i].released
               /\ history[i].time + params.unbonding_period <= now
    <3>1. i \in state.last_processed_batch + 1 .. i
      BY <2>2 DEF due_batches, TypeOK, HubTypeOK, State, IsBucket
    <3>2. /\ ~history[i].released
          /\ history[i].time <= now - params.unbonding_period
      BY <2>2, <3>1 DEF due_batches
    <3>3. /\ history[i].time \in Nat /\ now \in Nat
          /\ params.unbonding_period \in Nat
      BY <2>2, DueType, UnbondedAmountType
      DEF UnbondHistory, TypeOK, HubTypeOK, Parameters
    <3> QED BY <3>2, <3>3
  <2> HIDE DEF due
  <2> QED BY <2>1, <2>2 DEF ReleaseStep
<1> QED BY <1>2, <1>3, <1>4, StepCases

\* What a batch pays is settled once, not before its unbonding period has
\* passed, and never changed again.
THEOREM ReleasesAreFinal == Spec => ReleaseFinal
<1>1. TypeOK /\ BatchLifecycle /\ [Next]_vars => [ReleaseStep]_vars
  BY NextRelease
<1> QED BY <1>1, TypeCorrect, BatchesInOrder, PTL DEF Spec, ReleaseFinal

-----------------------------------------------------------------------------
(* The exchange rate is backed by the coins counted as bonded.             *)

\* The rate of st, promised to n tokens, is covered.
Backed(st, n) ==
    st.total_bond_amount = 0
    \/ st.exchange_rate * n <= st.total_bond_amount * ONE

\* A freshly computed rate is covered: from_ratio truncates.
LEMMA UpdatedRateBacked ==
    ASSUME NEW st \in State, NEW a \in Nat, NEW b \in Nat
    PROVE  Backed(update_exchange_rate(st, a, b), a + b)
<1> DEFINE s1 == update_exchange_rate(st, a, b)
           n == a + b
<1>1. s1.exchange_rate = IF st.total_bond_amount = 0 \/ n = 0 THEN ONE
                         ELSE from_ratio(st.total_bond_amount, n)
  BY DEF update_exchange_rate, State
<1>2. s1.total_bond_amount = st.total_bond_amount
  BY UpdateRateType DEF SameButRate
<1>3. st.total_bond_amount \in Nat /\ n \in Nat /\ ONE \in Nat
  BY OneType DEF State
<1> HIDE DEF s1, n
<1>4. CASE st.total_bond_amount = 0
  BY <1>2, <1>4 DEF Backed, s1, n
<1>5. CASE st.total_bond_amount # 0 /\ n = 0
  <2>1. s1.exchange_rate * n = 0
    BY <1>1, <1>3, <1>5
  <2>2. 0 <= st.total_bond_amount * ONE
    BY <1>3
  <2> QED BY <1>2, <2>1, <2>2 DEF Backed, s1, n
<1>6. CASE st.total_bond_amount # 0 /\ n # 0
  <2>1. from_ratio(st.total_bond_amount, n) * n <= st.total_bond_amount * ONE
    BY <1>3, <1>6, FromRatioBound
  <2>2. s1.exchange_rate * n <= s1.total_bond_amount * ONE
    BY <1>1, <1>2, <1>6, <2>1
  <2> QED BY <2>2 DEF Backed, s1, n
<1> QED BY <1>4, <1>5, <1>6

\* slashing leaves a covered rate covered.
LEMMA SlashedRateBacked ==
    ASSUME TypeOK, RateBacked
    PROVE  Backed(slashing(delegations, supply),
                  supply + current_batch.requested_with_fee)
<1> DEFINE B == Bonded(delegations)
           s0 == [state EXCEPT !.total_bond_amount = B]
           req == current_batch.requested_with_fee
<1>1. B \in Nat
  BY BondedType DEF TypeOK
<1>2. s0 \in State
  <2> HIDE DEF B
  <2> QED BY <1>1 DEF TypeOK, HubTypeOK, State
<1>3. supply \in Nat /\ req \in Nat
  BY DEF TypeOK, HubTypeOK, CurrentBatch
<1>4. slashing(delegations, supply) = state
      \/ slashing(delegations, supply) = update_exchange_rate(s0, supply, req)
  BY DEF slashing
<1>5. Backed(state, supply + req)
  BY DEF RateBacked, Backed
<1> HIDE DEF s0, req
<1>6. Backed(update_exchange_rate(s0, supply, req), supply + req)
  BY <1>2, <1>3, UpdatedRateBacked
<1> QED BY <1>4, <1>5, <1>6 DEF req

\* Fewer tokens are covered by the same rate.
LEMMA BackedFewer ==
    ASSUME NEW st \in State, NEW n \in Nat, NEW m \in Nat, m <= n,
           Backed(st, n)
    PROVE  Backed(st, m)
<1>1. st.exchange_rate \in Nat /\ st.total_bond_amount * ONE \in Nat
  BY OneType, ProductNat DEF State
<1>2. m * st.exchange_rate <= n * st.exchange_rate
  BY <1>1, ProductMonotone
<1>3. st.exchange_rate * m <= st.exchange_rate * n
  BY <1>1, <1>2
<1>4. st.exchange_rate * m \in Nat /\ st.exchange_rate * n \in Nat
  BY <1>1, ProductNat
<1> QED BY <1>1, <1>3, <1>4 DEF Backed

\* Closing a batch of r requests takes at most their worth off the bonded
\* coins, so the rate, not recomputed, still covers the other tokens.
LEMMA ClosedRateBacked ==
    ASSUME NEW st \in State, NEW n \in Nat, NEW r \in Nat,
           Backed(st, n + r),
           NEW t \in Nat, mul(r, st.exchange_rate) <= st.total_bond_amount
    PROVE  Backed(closed_state(st, mul(r, st.exchange_rate), t), n)
<1> DEFINE x == st.exchange_rate
           b == st.total_bond_amount
           und == mul(r, x)
           s1 == closed_state(st, und, t)
<1>1. x \in Nat /\ b \in Nat /\ und \in Nat /\ ONE \in Nat
  BY MulType, OneType DEF State
<1>2. s1.exchange_rate = x /\ s1.total_bond_amount = b - und
  <2> HIDE DEF und
  <2> QED BY DEF closed_state, State
<1>3. und * ONE <= r * x
  BY <1>1, MulBound
<1>4. Backed(st, n + r) => b = 0 \/ x * (n + r) <= b * ONE
  BY DEF Backed
<1>5. und <= b
  OBVIOUS
<1> HIDE DEF x, b, und, s1
<1>6. b = 0 => b - und = 0
  BY <1>1, <1>5
<1>7. x * (n + r) <= b * ONE => x * n <= (b - und) * ONE
  <2>1. x * (n + r) = x * n + r * x
    BY <1>1
  <2>2. (b - und) * ONE = b * ONE - und * ONE
    BY <1>1
  <2>3. x * n \in Nat /\ r * x \in Nat /\ b * ONE \in Nat /\ und * ONE \in Nat
    BY <1>1, ProductNat
  <2> QED BY <1>3, <2>1, <2>2, <2>3
<1> QED BY <1>2, <1>4, <1>6, <1>7 DEF Backed, s1, und, x

\* A Bond leaves a covered rate: it is recomputed with the minted tokens.
LEMMA BondRateBacked ==
    ASSUME TypeOK, RateBacked, NEW v \in Validators, NEW p \in Payments,
           Bond(v, p)
    PROVE  RateBacked'
<1> DEFINE st == slashing(delegations, supply)
           mint == mint_amount_with_fee(st, p, supply)
           s1 == [st EXCEPT !.total_bond_amount = @ + p]
           req == current_batch.requested_with_fee
<1>1. state' = update_exchange_rate(s1, supply + mint, req)
  BY DEF Bond, execute_bond, bond_state
<1>2. supply' = supply + mint /\ current_batch' = current_batch
  BY DEF Bond, execute_bond
<1>3. supply + mint \in Nat /\ p \in Nat
  BY BondFacts
<1>4. st \in State
  BY SlashingType
<1>5. req \in Nat
  BY DEF TypeOK, HubTypeOK, CurrentBatch
<1> HIDE DEF st, mint
<1>6. s1 \in State
  <2>1. st.total_bond_amount + p \in Nat
    BY <1>3, <1>4 DEF State
  <2> QED BY <1>4, <2>1 DEF State
<1> HIDE DEF s1, req
<1>7. Backed(state', (supply + mint) + req)
  BY <1>1, <1>3, <1>5, <1>6, UpdatedRateBacked
<1> QED BY <1>2, <1>7 DEF RateBacked, Backed, req

\* An Unbond leaves a covered rate, whether or not it closes the batch.
LEMMA UnbondRateBacked ==
    ASSUME TypeOK, RateBacked, NEW u \in Users, NEW a \in Amounts, NEW picked,
           Unbond(u, a, picked)
    PROVE  RateBacked'
<1> DEFINE st  == slashing(delegations, supply)
           req == requested_after(st, a, supply)
           st1 == unbond_state(st, a, supply)
           und == mul(req, st1.exchange_rate)
<1>1. supply - a \in Nat /\ req \in Nat /\ st \in State /\ st1 \in State
  BY UnbondFacts
<1>2. st1 = update_exchange_rate(st, supply - a, req)
  BY DEF unbond_state
<1>3. supply' = supply - a
  BY DEF Unbond
<1>4. CASE epoch_passed(now)
  <2>1. /\ state' = closed_state(st1, und, now)
        /\ und <= st1.total_bond_amount
        /\ current_batch'.requested_with_fee = 0
    BY <1>4 DEF Unbond, execute_unbond, undelegation_amount
  <2>2. now \in Nat
    BY DEF TypeOK
  <2> HIDE DEF st, req, st1
  <2>3. Backed(st1, (supply - a) + req)
    BY <1>1, <1>2, UpdatedRateBacked
  <2>4. Backed(state', supply - a)
    BY <1>1, <2>1, <2>2, <2>3, ClosedRateBacked
  <2>5. supply' + current_batch'.requested_with_fee = supply - a
    BY <1>1, <1>3, <2>1
  <2> QED BY <2>4, <2>5 DEF RateBacked, Backed
<1>5. CASE ~epoch_passed(now)
  <2>1. state' = st1 /\ current_batch' =
                          [current_batch EXCEPT !.requested_with_fee = req]
    BY <1>5 DEF Unbond, execute_unbond
  <2> HIDE DEF st, req, st1
  <2>2. current_batch'.requested_with_fee = req
    BY <2>1 DEF TypeOK, HubTypeOK, CurrentBatch
  <2>3. Backed(st1, (supply - a) + req)
    BY <1>1, <1>2, UpdatedRateBacked
  <2> QED BY <1>3, <2>1, <2>2, <2>3 DEF RateBacked, Backed
<1> QED BY <1>4, <1>5

\* Steps that leave rate, bonded coins and batch alone and mint nothing.
LEMMA FewerTokensBacked ==
    ASSUME TypeOK, RateBacked, supply' \in Nat, supply' <= supply,
           state'.total_bond_amount = state.total_bond_amount,
           state'.exchange_rate = state.exchange_rate,
           UNCHANGED current_batch
    PROVE  RateBacked'
<1> DEFINE req == current_batch.requested_with_fee
<1>1. supply \in Nat /\ req \in Nat /\ state \in State
  BY DEF TypeOK, HubTypeOK, CurrentBatch
<1>2. Backed(state, supply + req)
  BY DEF RateBacked, Backed
<1>3. supply + req \in Nat /\ supply' + req \in Nat
      /\ supply' + req <= supply + req
  <2>1. \A k, m, n \in Nat : k <= m => /\ m + n \in Nat /\ k + n \in Nat
                                       /\ k + n <= m + n
    OBVIOUS
  <2> QED BY <1>1, <2>1
<1> HIDE DEF req
<1>4. Backed(state, supply' + req)
  BY <1>1, <1>2, <1>3, BackedFewer
<1> QED BY <1>4 DEF RateBacked, Backed, req

\* What the stored exchange rate promises to all tokens never exceeds the
\* coins counted as bonded, through every bond, unbond, epoch, slash,
\* withdrawal and direct burn.
THEOREM RateAlwaysBacked == Spec => []RateBacked
<1>1. Init => RateBacked
  <2> SUFFICES ASSUME Init PROVE RateBacked
    OBVIOUS
  <2>1. /\ state.exchange_rate = ONE /\ state.total_bond_amount = InitPayment
        /\ current_batch.requested_with_fee = 0 /\ supply = 0
    BY DEF Init, instantiate
  <2>2. ONE \in Nat /\ InitPayment * ONE \in Nat
    BY OneType, HubSystemAssumption, ProductNat
  <2> QED BY <2>1, <2>2 DEF RateBacked
<1>2. ASSUME TypeOK, RateBacked, [Next]_vars, TypeOK'
      PROVE  RateBacked'
  <2>0. supply \in Nat /\ supply' \in Nat /\ supply <= supply
    BY <1>2 DEF TypeOK
  <2>1. ASSUME NEW v \in Validators, NEW p \in Payments, Bond(v, p)
        PROVE  RateBacked'
    BY <1>2, <2>1, BondRateBacked
  <2>2. ASSUME NEW u \in Users, NEW a \in Amounts, NEW picked \in Picks(a),
               Unbond(u, a, picked)
        PROVE  RateBacked'
    BY <1>2, <2>2, UnbondRateBacked
  <2>3. ASSUME NEW u \in Users, WithdrawUnbonded(u)
        PROVE  RateBacked'
    <3>1. \E due, amount : state' = withdrawn_state(due, hub_balance, amount)
      BY <2>3 DEF WithdrawUnbonded, execute_withdraw_unbonded
    <3>2. /\ state'.total_bond_amount = state.total_bond_amount
          /\ state'.exchange_rate = state.exchange_rate
      BY <1>2, <3>1 DEF withdrawn_state, processed_state, TypeOK, HubTypeOK,
         State
    <3>3. UNCHANGED <<current_batch, supply>>
      BY <2>3 DEF WithdrawUnbonded, execute_withdraw_unbonded
    <3> QED BY <1>2, <2>0, <3>2, <3>3, FewerTokensBacked
  <2>4. CASE CheckSlashing
    <3>1. state' = slashing(delegations, supply)
          /\ UNCHANGED <<current_batch, supply>>
      BY <2>4 DEF CheckSlashing, execute_slashing, chainVars
    <3>2. Backed(state', supply + current_batch.requested_with_fee)
      BY <1>2, <3>1, SlashedRateBacked
    <3> QED BY <3>1, <3>2 DEF RateBacked, Backed
  <2>5. ASSUME NEW s \in Accounts, NEW upd \in ParamUpdates,
               UpdateParams(s, upd)
        PROVE  UNCHANGED <<state, current_batch, supply>>
    BY <2>5 DEF UpdateParams, execute_update_params, chainVars
  <2>6. ASSUME NEW s \in Accounts, NEW upd \in ConfigUpdates,
               UpdateConfig(s, upd)
        PROVE  UNCHANGED <<state, current_batch, supply>>
    BY <2>6 DEF UpdateConfig, execute_update_config, chainVars
  <2>7. ASSUME NEW s \in Accounts, NEW v \in Validators,
               RegisterValidator(s, v)
        PROVE  UNCHANGED <<state, current_batch, supply>>
    BY <2>7 DEF RegisterValidator, execute_register_validator, chainVars
  <2>8. ASSUME NEW s \in Accounts, NEW v \in Validators, NEW w \in Validators,
               DeregisterValidator(s, v, w)
        PROVE  UNCHANGED <<state, current_batch, supply>>
    BY <2>8 DEF DeregisterValidator, execute_deregister_validator
  <2>9. CASE Environment
    <3>1. UNCHANGED <<state, current_batch>>
      BY <2>9 DEF Environment, hubVars
    <3>2. supply' <= supply
      BY <1>2, <2>9, EnvironmentTypeOK
    <3> QED BY <1>2, <2>0, <3>1, <3>2, FewerTokensBacked
  <2>10. CASE UNCHANGED vars
    BY <1>2, <2>10 DEF vars, hubVars, chainVars, RateBacked
  <2>11. ASSUME UNCHANGED <<state, current_batch, supply>>
         PROVE  RateBacked'
    BY <1>2, <2>11 DEF RateBacked
  <2> QED
    BY <1>2, <2>1, <2>2, <2>3, <2>4, <2>5, <2>6, <2>7, <2>8, <2>9, <2>10,
       <2>11 DEF Next
<1> QED BY <1>1, <1>2, TypeCorrect, PTL DEF Spec

=============================================================================
