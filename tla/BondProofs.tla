---------------------------- MODULE BondProofs ----------------------------
(***************************************************************************)
(* total_bond_amount follows the delegations: the hub never counts less    *)
(* than it has delegated, and every handler that changes the count leaves  *)
(* it exact.  The exchange-rate properties of execute_bond and             *)
(* execute_unbond follow.                                                  *)
(***************************************************************************)
EXTENDS HubSafety

-----------------------------------------------------------------------------
(* Sums of delegations.                                                    *)

\* A delegation message adds its amount to the sum.
LEMMA DelegatedSum ==
    ASSUME NEW dels, IsBucket(dels, Validators, Nat), NEW v, NEW a \in Nat
    PROVE  Bonded(delegated(dels, v, a)) = Bonded(dels) + a
<1> DEFINE D   == DOMAIN dels
           S   == D \cup {v}
           ext == [x \in S |-> IF x \in D THEN dels[x] ELSE 0]
           new == delegated(dels, v, a)
<1>1. /\ IsFiniteSet(D) /\ IsFiniteSet(S)
      /\ \A x \in D : dels[x] \in Nat
      /\ Bonded(dels) = SumFunctionOnSet(dels, D)
      /\ Bonded(dels) \in Nat
  BY BondedType, FS_AddElement DEF IsBucket, Bonded, SumFunction
<1>2. /\ DOMAIN new = S
      /\ \A x \in S : ext[x] \in Nat /\ new[x] \in Nat
      /\ \A x \in S \ {v} : new[x] = ext[x]
      /\ new[v] = ext[v] + a
      /\ \A x \in D : ext[x] = dels[x]
      /\ v \notin D => ext[v] = 0
  BY <1>1 DEF delegated
<1>3. Bonded(new) = SumFunctionOnSet(new, S)
  BY <1>2 DEF Bonded, SumFunction
<1> HIDE DEF ext, new
<1>4. SumFunctionOnSet(new, S) = (SumFunctionOnSet(ext, S) - ext[v]) + new[v]
  <2>1. /\ v \in S
        /\ \A x \in S : ext[x] \in Int /\ new[x] \in Int
    BY <1>2
  <2> HIDE DEF S
  <2> QED BY <1>1, <1>2, <2>1, SumUpdate
<1>5. SumFunctionOnSet(ext, S) = SumFunctionOnSet(ext, D)
  <2>1. CASE v \in D
    <3>1. S = D
      BY <2>1
    <3> QED BY <3>1
  <2>2. CASE v \notin D
    <3>1. D \in SUBSET S /\ \A x \in S \ D : ext[x] = 0
      BY <2>2, <1>2
    <3>2. \A x \in S : ext[x] \in Int
      BY <1>2
    <3> HIDE DEF S, D
    <3> QED BY <1>1, <3>1, <3>2, SumSupport
  <2> QED BY <2>1, <2>2
<1>6. SumFunctionOnSet(ext, D) = SumFunctionOnSet(dels, D)
  <2> HIDE DEF D
  <2> QED BY <1>1, <1>2, SumEqual
<1>7. \A s, e \in Nat : (s - e) + (e + a) = s + a
  OBVIOUS
<1>8. v \in S
  OBVIOUS
<1> HIDE DEF S, D
<1>9. ext[v] \in Nat
  BY <1>2, <1>8
<1> QED BY <1>1, <1>2, <1>3, <1>4, <1>5, <1>6, <1>7, <1>9 DEF new

\* A redelegation keeps the sum.
LEMMA RedelegatedSum ==
    ASSUME NEW dels, IsBucket(dels, Validators, Nat), NEW v \in DOMAIN dels,
           NEW w
    PROVE  Bonded(redelegated(dels, v, w)) = Bonded(dels)
<1> DEFINE D    == DOMAIN dels
           rest == Restrict(dels, D \ {v})
<1>1. /\ IsFiniteSet(D) /\ IsFiniteSet(D \ {v})
      /\ \A x \in D : dels[x] \in Nat
      /\ Bonded(dels) = SumFunctionOnSet(dels, D)
  BY BondedType, FS_RemoveElement DEF IsBucket, Bonded, SumFunction
<1>2. /\ rest = [x \in D \ {v} |-> dels[x]]
      /\ DOMAIN rest = D \ {v}
      /\ \A x \in D \ {v} : rest[x] = dels[x]
  BY DEF Restrict
<1>3. IsBucket(rest, Validators, Nat)
  BY <1>2 DEF IsBucket
<1>4. Bonded(rest) = SumFunctionOnSet(rest, D \ {v})
  BY <1>2 DEF Bonded, SumFunction
<1> HIDE DEF rest
<1>5. Bonded(rest) = SumFunctionOnSet(dels, D \ {v})
  BY <1>1, <1>2, <1>4, SumEqual
<1>6. Bonded(dels) = dels[v] + Bonded(rest)
  <2>1. \A x \in D : dels[x] \in Int
    BY <1>1
  <2> HIDE DEF D
  <2> QED BY <1>1, <1>5, <2>1, SumRemove DEF D
<1>7. Bonded(redelegated(dels, v, w)) = Bonded(rest) + dels[v]
  BY <1>1, <1>3, DelegatedSum DEF redelegated, rest
<1>8. Bonded(rest) \in Nat /\ dels[v] \in Nat
  BY <1>1, <1>3, BondedType
<1> QED BY <1>6, <1>7, <1>8

\* Undelegations take their sum off.
LEMMA UndelegatedSum ==
    ASSUME NEW dels, IsBucket(dels, Validators, Nat),
           NEW picked \in [DOMAIN dels -> Nat],
           \A x \in DOMAIN dels : picked[x] <= dels[x]
    PROVE  Bonded(undelegated(dels, picked))
             = Bonded(dels) - SumFunction(picked)
<1> DEFINE D    == DOMAIN dels
           R    == {y \in D : picked[y] = 0 \/ picked[y] < dels[y]}
           diff == [x \in D |-> dels[x] - picked[x]]
           new  == undelegated(dels, picked)
<1>1. /\ IsFiniteSet(D) /\ IsFiniteSet(R) /\ R \in SUBSET D
      /\ \A x \in D : dels[x] \in Nat /\ picked[x] \in Nat
      /\ Bonded(dels) = SumFunctionOnSet(dels, D)
      /\ SumFunction(picked) = SumFunctionOnSet(picked, D)
  BY BondedType, FS_Subset DEF IsBucket, Bonded, SumFunction
<1>2. /\ new = [x \in R |-> dels[x] - picked[x]]
      /\ DOMAIN new = R
      /\ \A x \in R : new[x] = diff[x]
  BY DEF undelegated
<1>3. Bonded(new) = SumFunctionOnSet(new, R)
  BY <1>2 DEF Bonded, SumFunction
<1>4. /\ \A x \in D : diff[x] \in Int
      /\ \A x \in D : diff[x] = dels[x] + (-1) * picked[x]
      /\ \A x \in D \ R : diff[x] = 0
  BY <1>1
<1> HIDE DEF D, R, diff, new
<1>5. SumFunctionOnSet(new, R) = SumFunctionOnSet(diff, R)
  BY <1>1, <1>2, SumEqual
<1>6. SumFunctionOnSet(diff, D) = SumFunctionOnSet(diff, R)
  BY <1>1, <1>4, SumSupport
<1>7. SumFunctionOnSet(diff, D)
        = SumFunctionOnSet(dels, D) + (-1) * SumFunctionOnSet(picked, D)
  <2>1. \A x \in D : /\ dels[x] \in Int /\ picked[x] \in Int
                     /\ diff[x] = dels[x] + (-1) * picked[x]
    BY <1>1, <1>4
  <2>2. -1 \in Int
    OBVIOUS
  <2> QED BY <1>1, <2>1, <2>2, SumLinear
<1>8. SumFunctionOnSet(dels, D) \in Nat /\ SumFunctionOnSet(picked, D) \in Nat
  BY <1>1, SumType
<1>9. \A s, p \in Nat : s + (-1) * p = s - p
  OBVIOUS
<1> QED BY <1>1, <1>3, <1>5, <1>6, <1>7, <1>8, <1>9 DEF new

\* pick_validator undelegates exactly what is claimed, and from no validator
\* more than is delegated there.
LEMMA PickedSum ==
    ASSUME NEW dels, IsBucket(dels, Validators, Nat), NEW claim \in Nat,
           NEW picked \in pick_validator(dels, claim)
    PROVE  /\ SumFunction(picked) = claim
           /\ picked \in [DOMAIN dels -> Nat]
           /\ \A x \in DOMAIN dels : picked[x] <= dels[x]
<1> DEFINE D == DOMAIN dels
<1>1. /\ IsFiniteSet(D)
      /\ \A x \in D : dels[x] \in Nat
  BY BondedType DEF IsBucket
<1>2. picked \in [D -> Nat]
  BY PickValidatorType
<1>3. CASE claim = 0
  <2>1. picked = [x \in D |-> 0]
    BY <1>3 DEF pick_validator
  <2>2. SumFunction(picked) = 0
    BY <1>1, <2>1, SumZero
  <2> QED BY <1>1, <1>2, <1>3, <2>1, <2>2
<1>4. CASE claim # 0
  <2>0. PICK S \in SUBSET D : \E v \in D \ S :
           /\ SumFunctionOnSet(dels, S) <= claim
           /\ claim - SumFunctionOnSet(dels, S) <= dels[v]
           /\ picked = [x \in D |->
                          IF x = v THEN claim - SumFunctionOnSet(dels, S)
                          ELSE IF x \in S THEN dels[x] ELSE 0]
    BY <1>4 DEF pick_validator
  <2>1. PICK v \in D \ S :
           /\ SumFunctionOnSet(dels, S) <= claim
           /\ claim - SumFunctionOnSet(dels, S) <= dels[v]
           /\ picked = [x \in D |->
                          IF x = v THEN claim - SumFunctionOnSet(dels, S)
                          ELSE IF x \in S THEN dels[x] ELSE 0]
    BY <2>0
  <2> DEFINE s == SumFunctionOnSet(dels, S)
             T == S \cup {v}
  <2>2. s \in Nat /\ IsFiniteSet(S)
    <3>1. IsFiniteSet(S) /\ \A x \in S : dels[x] \in Nat
      BY <1>1, FS_Subset
    <3> QED BY <3>1, SumType
  <2> HIDE DEF s
  <2>3. /\ picked[v] = claim - s /\ claim - s <= dels[v]
        /\ \A x \in S : picked[x] = dels[x]
        /\ \A x \in D \ T : picked[x] = 0
        /\ T \in SUBSET D /\ v \in T /\ T \ {v} = S
    BY <2>1 DEF s
  <2>4. \A x \in D : picked[x] <= dels[x]
    BY <1>1, <2>3
  <2>5. /\ IsFiniteSet(T)
        /\ \A x \in D : picked[x] \in Int
        /\ \A x \in T : picked[x] \in Int
    BY <1>1, <1>2, <2>3, FS_Subset
  <2>6. SumFunction(picked) = SumFunctionOnSet(picked, D)
    BY <1>2 DEF SumFunction
  <2> HIDE DEF T, D
  <2>7. SumFunctionOnSet(picked, D) = SumFunctionOnSet(picked, T)
    BY <1>1, <2>3, <2>5, SumSupport
  <2>8. SumFunctionOnSet(picked, T)
          = picked[v] + SumFunctionOnSet(picked, T \ {v})
    BY <2>3, <2>5, SumRemove
  <2>9. SumFunctionOnSet(picked, S) = s
    BY <2>2, <2>3, SumEqual DEF s
  <2>10. (claim - s) + s = claim
    BY <2>2
  <2>11. SumFunction(picked) = claim
    BY <2>3, <2>6, <2>7, <2>8, <2>9, <2>10
  <2> QED BY <1>2, <2>4, <2>11 DEF D
<1> QED BY <1>3, <1>4

-----------------------------------------------------------------------------
(* The count of bonded coins.                                              *)

\* After `slashing` the count is exact.
LEMMA SlashedExact ==
    ASSUME TypeOK, BondNeverUnderstated
    PROVE  slashing(delegations, supply).total_bond_amount
             = Bonded(delegations)
<1> DEFINE b  == Bonded(delegations)
           s1 == [state EXCEPT !.total_bond_amount = b]
<1>1. /\ b \in Nat /\ state \in State
      /\ supply \in Nat /\ current_batch.requested_with_fee \in Nat
      /\ state.total_bond_amount \in Nat
  BY BondedType DEF TypeOK, HubTypeOK, State, CurrentBatch
<1>2. CASE DOMAIN delegations = {}
  <2>1. b = 0
    BY <1>2, SumEmpty DEF Bonded, SumFunction
  <2> QED BY <1>2, <2>1 DEF slashing, BondNeverUnderstated
<1>3. CASE DOMAIN delegations # {} /\ state.total_bond_amount > b
  <2>1. slashing(delegations, supply)
          = update_exchange_rate(s1, supply, current_batch.requested_with_fee)
    BY <1>3 DEF slashing
  <2> HIDE DEF b
  <2>2. s1 \in State /\ s1.total_bond_amount = b
    BY <1>1 DEF State
  <2> HIDE DEF s1
  <2>3. SameButRate(s1, update_exchange_rate(s1, supply,
                                    current_batch.requested_with_fee))
    BY <1>1, <2>2, UpdateRateType
  <2> QED BY <2>1, <2>2, <2>3 DEF SameButRate, b
<1>4. CASE DOMAIN delegations # {} /\ ~(state.total_bond_amount > b)
  <2>1. state.total_bond_amount = b
    BY <1>1, <1>4 DEF BondNeverUnderstated
  <2> QED BY <1>4, <2>1 DEF slashing
<1> QED BY <1>2, <1>3, <1>4

\* What a step may do to the count: leave it exact, or leave it alone while
\* the delegations do not grow.
Settles ==
    \/ state'.total_bond_amount = Bonded(delegations')
    \/ /\ state'.total_bond_amount = state.total_bond_amount
       /\ Bonded(delegations') <= Bonded(delegations)
       /\ DOMAIN delegations' = {} => DOMAIN delegations = {}

\* execute_bond counts the payment on top of the exact count.
LEMMA BondSettles ==
    ASSUME TypeOK, BondNeverUnderstated, NEW v \in Validators,
           NEW p \in Payments, Bond(v, p)
    PROVE  state'.total_bond_amount = Bonded(delegations')
<1> DEFINE st == slashing(delegations, supply)
           s1 == [st EXCEPT !.total_bond_amount = @ + p]
<1>1. p \in Nat /\ SameButRate(s1, state')
  BY BondFacts
<1>2. st \in State /\ st.total_bond_amount = Bonded(delegations)
  BY SlashingType, SlashedExact
<1> HIDE DEF st
<1>3. s1.total_bond_amount = Bonded(delegations) + p
  BY <1>2 DEF State
<1>4. delegations' = delegated(delegations, v, p)
  BY DEF Bond
<1>5. Bonded(delegations') = Bonded(delegations) + p
  BY <1>1, <1>4, DelegatedSum DEF TypeOK
<1> QED BY <1>1, <1>3, <1>5 DEF SameButRate

\* execute_unbond takes off exactly what it undelegates.
LEMMA UnbondSettles ==
    ASSUME TypeOK, BondNeverUnderstated, NEW u \in Users, NEW a \in Amounts,
           NEW picked, Unbond(u, a, picked)
    PROVE  state'.total_bond_amount = Bonded(delegations')
<1> DEFINE st  == slashing(delegations, supply)
           st1 == unbond_state(st, a, supply)
           und == undelegation_amount(st, a, supply)
           b   == Bonded(delegations)
<1>1. und \in Nat /\ st1 \in State /\ st1.total_bond_amount = b
  BY UnbondFacts, SlashedExact DEF SameButRate
<1>2. IsBucket(delegations, Validators, Nat) /\ b \in Nat
      /\ IsFiniteSet(DOMAIN delegations)
  BY BondedType DEF TypeOK
<1>3. /\ delegations' = undelegated(delegations, picked)
      /\ \/ /\ picked \in pick_validator(delegations, und)
            /\ state' = closed_state(st1, und, now)
         \/ /\ picked = [x \in DOMAIN delegations |-> 0]
            /\ state' = st1
  BY DEF Unbond, execute_unbond
<1> HIDE DEF st, st1, und
<1>4. CASE /\ picked \in pick_validator(delegations, und)
           /\ state' = closed_state(st1, und, now)
  <2>1. /\ SumFunction(picked) = und
        /\ picked \in [DOMAIN delegations -> Nat]
        /\ \A x \in DOMAIN delegations : picked[x] <= delegations[x]
    BY <1>1, <1>2, <1>4, PickedSum
  <2>2. Bonded(delegations') = b - und
    BY <1>2, <1>3, <2>1, UndelegatedSum
  <2>3. state'.total_bond_amount = b - und
    BY <1>1, <1>4 DEF closed_state, State
  <2> QED BY <2>2, <2>3
<1>5. CASE /\ picked = [x \in DOMAIN delegations |-> 0]
           /\ state' = st1
  <2>1. /\ picked \in [DOMAIN delegations -> Nat]
        /\ \A x \in DOMAIN delegations : picked[x] <= delegations[x]
    BY <1>2, <1>5 DEF IsBucket
  <2>2. SumFunction(picked) = 0
    BY <1>2, <1>5, SumZero
  <2>3. Bonded(delegations') = b - 0
    BY <1>2, <1>3, <2>1, <2>2, UndelegatedSum
  <2> QED BY <1>1, <1>2, <1>5, <2>3
<1> QED BY <1>3, <1>4, <1>5

\* A slash never makes the delegations grow.
LEMMA SlashSettles ==
    ASSUME TypeOK, NEW v, NEW percent \in SlashKept, NEW since,
           Slash(v, percent, since)
    PROVE  /\ Bonded(delegations') <= Bonded(delegations)
           /\ DOMAIN delegations' = DOMAIN delegations
<1> DEFINE D == DOMAIN delegations
<1>1. /\ IsFiniteSet(D)
      /\ \A x \in D : delegations[x] \in Nat
      /\ Bonded(delegations) = SumFunctionOnSet(delegations, D)
  BY BondedType DEF TypeOK, IsBucket, Bonded, SumFunction
<1>2. /\ DOMAIN delegations' = D
      /\ \A x \in D : delegations'[x] =
            IF x = v THEN kept(delegations[x], percent) ELSE delegations[x]
  BY DEF Slash
<1>3. percent \in 0 .. 99
  BY ChainAssumption
<1>4. \A n \in Nat : kept(n, percent) \in Nat /\ kept(n, percent) <= n
  <2> SUFFICES ASSUME NEW n \in Nat
               PROVE  kept(n, percent) \in Nat /\ kept(n, percent) <= n
    OBVIOUS
  <2>1. n * percent \in Nat /\ n * percent <= n * 100
    BY <1>3
  <2> DEFINE m == n * percent
  <2>2. m \in Nat /\ m <= n * 100 /\ kept(n, percent) = m \div 100
    BY <2>1 DEF kept
  <2> HIDE DEF m
  <2> QED BY <2>2
<1>5. Bonded(delegations') = SumFunctionOnSet(delegations', D)
  BY <1>2 DEF Bonded, SumFunction
<1> HIDE DEF D
<1>6. \A x \in D : /\ delegations'[x] \in Int /\ delegations[x] \in Int
                    /\ delegations'[x] <= delegations[x]
  BY <1>1, <1>2, <1>4
<1>7. SumFunctionOnSet(delegations', D) <= SumFunctionOnSet(delegations, D)
  BY <1>1, <1>6, SumMonotone
<1> QED BY <1>1, <1>2, <1>5, <1>7 DEF D

\* Every step settles the count.
LEMMA StepSettles ==
    ASSUME TypeOK, BondNeverUnderstated, [Next]_vars
    PROVE  Settles
<1>0. Bonded(delegations) \in Nat /\ Bonded(delegations) <= Bonded(delegations)
  BY BondedType DEF TypeOK
<1>1. ASSUME NEW v \in Validators, NEW p \in Payments, Bond(v, p)
      PROVE  Settles
  BY <1>1, BondSettles DEF Settles
<1>2. ASSUME NEW u \in Users, NEW a \in Amounts, NEW picked \in Picks(a),
             Unbond(u, a, picked)
      PROVE  Settles
  BY <1>2, UnbondSettles DEF Settles
<1>3. ASSUME NEW u \in Users, WithdrawUnbonded(u)
      PROVE  Settles
  <2>1. state'.total_bond_amount = state.total_bond_amount
    BY <1>3 DEF WithdrawUnbonded, execute_withdraw_unbonded, withdrawn_state,
                processed_state, TypeOK, HubTypeOK, State
  <2>2. delegations' = delegations
    BY <1>3 DEF WithdrawUnbonded
  <2> QED BY <1>0, <2>1, <2>2 DEF Settles
<1>4. CASE CheckSlashing
  <2>1. state' = slashing(delegations, supply) /\ delegations' = delegations
    BY <1>4 DEF CheckSlashing, execute_slashing, chainVars
  <2> QED BY <2>1, SlashedExact DEF Settles
<1>5. ASSUME NEW s \in Accounts, NEW v \in Validators, NEW w \in Validators,
             DeregisterValidator(s, v, w)
      PROVE  Settles
  <2>1. state' = state
    BY <1>5 DEF DeregisterValidator, execute_deregister_validator
  <2>2. CASE v \in DOMAIN delegations
    <3>1. delegations' = redelegated(delegations, v, w)
      BY <1>5, <2>2 DEF DeregisterValidator
    <3>2. Bonded(delegations') = Bonded(delegations)
      BY <2>2, <3>1, RedelegatedSum DEF TypeOK
    <3>3. w \in DOMAIN delegations'
      BY <3>1 DEF redelegated, delegated
    <3> QED BY <1>0, <2>1, <3>2, <3>3 DEF Settles
  <2>3. CASE v \notin DOMAIN delegations
    <3>1. delegations' = delegations
      BY <1>5, <2>3 DEF DeregisterValidator
    <3> QED BY <1>0, <2>1, <3>1 DEF Settles
  <2> QED BY <2>2, <2>3
<1>6. ASSUME NEW v \in Validators, NEW percent \in SlashKept,
             NEW since \in now .. now + UnbondingTime,
             Slash(v, percent, since), UNCHANGED <<hubVars, bonds>>
      PROVE  Settles
  <2>1. state' = state
    BY <1>6 DEF hubVars
  <2> QED BY <1>6, <2>1, SlashSettles DEF Settles
<1>7. ASSUME UNCHANGED <<state, delegations>>
      PROVE  Settles
  BY <1>0, <1>7 DEF Settles
<1>8. CASE Environment
  <2>1. state' = state
    BY <1>8 DEF Environment, hubVars
  <2>2. CASE NextBlock
    BY <1>7, <2>1, <2>2 DEF NextBlock
  <2>3. ASSUME NEW a \in Donations, Donate(a)
        PROVE  Settles
    BY <1>7, <2>1, <2>3 DEF Donate
  <2>4. ASSUME NEW a \in Amounts, BurnTokens(a)
        PROVE  Settles
    BY <1>7, <2>1, <2>4 DEF BurnTokens
  <2> QED BY <1>6, <1>8, <2>2, <2>3, <2>4 DEF Environment
<1>9. ASSUME NEW s \in Accounts, NEW upd \in ParamUpdates,
             UpdateParams(s, upd)
      PROVE  Settles
  BY <1>7, <1>9 DEF UpdateParams, execute_update_params, chainVars
<1>10. ASSUME NEW s \in Accounts, NEW upd \in ConfigUpdates,
              UpdateConfig(s, upd)
       PROVE  Settles
  BY <1>7, <1>10 DEF UpdateConfig, execute_update_config, chainVars
<1>11. ASSUME NEW s \in Accounts, NEW v \in Validators,
              RegisterValidator(s, v)
       PROVE  Settles
  BY <1>7, <1>11 DEF RegisterValidator, execute_register_validator, chainVars
<1>12. CASE UNCHANGED vars
  BY <1>7, <1>12 DEF vars, hubVars, chainVars
<1> QED BY <1>1, <1>2, <1>3, <1>4, <1>5, <1>8, <1>9, <1>10, <1>11, <1>12
       DEF Next

\* A count that is settled is not understated.
LEMMA SettledNotUnderstated ==
    ASSUME TypeOK, TypeOK', BondNeverUnderstated, Settles
    PROVE  BondNeverUnderstated'
<1> DEFINE b == Bonded(delegations)
           c == Bonded(delegations')
           t == state.total_bond_amount
<1>1. b \in Nat /\ c \in Nat /\ t \in Nat /\ b <= t
  BY BondedType DEF TypeOK, HubTypeOK, State, BondNeverUnderstated
<1>2. DOMAIN delegations' = {} => c = 0
  BY SumEmpty DEF Bonded, SumFunction
<1>3. CASE state'.total_bond_amount = c
  BY <1>1, <1>2, <1>3 DEF BondNeverUnderstated
<1>4. CASE /\ state'.total_bond_amount = t
           /\ c <= b
           /\ DOMAIN delegations' = {} => DOMAIN delegations = {}
  <2> HIDE DEF b, c
  <2>1. c <= t
    BY <1>1, <1>4
  <2> QED BY <1>4, <2>1 DEF BondNeverUnderstated, b, c
<1> QED BY <1>3, <1>4 DEF Settles

\* The hub never counts less as bonded than it has delegated, whatever is
\* slashed: `slashing` corrects downwards only and no handler lets the count
\* fall below the delegations.
THEOREM NeverUnderstated == Spec => []BondNeverUnderstated
<1>1. Init => BondNeverUnderstated
  <2> SUFFICES ASSUME Init
               PROVE  BondNeverUnderstated
    OBVIOUS
  <2>1. PICK v \in Validators :
           /\ delegations = [x \in {v} |-> InitPayment]
           /\ state.total_bond_amount = InitPayment
    BY DEF Init, instantiate
  <2>2. InitPayment \in Nat
    BY HubSystemAssumption
  <2>3. /\ DOMAIN delegations = {v} /\ delegations[v] = InitPayment
        /\ {v} \ {v} = {} /\ IsFiniteSet({v}) /\ v \in {v}
        /\ \A y \in {v} : delegations[y] \in Int
    BY <2>1, <2>2, FS_Singleton
  <2>4. SumFunctionOnSet(delegations, {v})
          = delegations[v] + SumFunctionOnSet(delegations, {v} \ {v})
    BY <2>3, SumRemove
  <2>5. Bonded(delegations) = InitPayment
    BY <2>2, <2>3, <2>4, SumEmpty DEF Bonded, SumFunction
  <2> QED BY <2>1, <2>2, <2>3, <2>5 DEF BondNeverUnderstated
<1>2. TypeOK /\ BondNeverUnderstated /\ [Next]_vars => BondNeverUnderstated'
  BY NextTypeOK, StepSettles, SettledNotUnderstated
<1> QED BY <1>1, <1>2, TypeCorrect, PTL DEF Spec

\* A handler that changes the count of bonded coins leaves it equal to the
\* delegations: slashes are folded in before execute_bond adds the payment or
\* execute_unbond subtracts the undelegation.
THEOREM CountSettled == Spec => BondSettled
<1>1. TypeOK /\ BondNeverUnderstated /\ [Next]_vars
        => [state'.total_bond_amount # state.total_bond_amount =>
              state'.total_bond_amount = Bonded(delegations')]_vars
  BY StepSettles DEF Settles
<1> QED BY <1>1, TypeCorrect, NeverUnderstated, PTL DEF Spec, BondSettled

-----------------------------------------------------------------------------
(* Undelegations are covered.                                              *)

\* What undelegation_amount asks for is covered by the count after slashing.
LEMMA UndelegationBacked ==
    ASSUME TypeOK, NEW st \in State, NEW a \in Nat, a <= supply,
           fee_ok(st, a, supply + current_batch.requested_with_fee,
                  st.total_bond_amount),
           st.total_bond_amount > 0
    PROVE  undelegation_amount(st, a, supply) <= st.total_bond_amount
<1> DEFINE r   == current_batch.requested_with_fee
           req == requested_after(st, a, supply)
           st1 == unbond_state(st, a, supply)
           t   == st.total_bond_amount
           e   == st1.exchange_rate
           und == undelegation_amount(st, a, supply)
<1>1. /\ supply \in Nat /\ r \in Nat /\ t \in Nat /\ supply + r \in Nat
      /\ supply - a \in Nat
  BY DEF TypeOK, HubTypeOK, CurrentBatch, State
<1>2. with_fee(st, a, supply + r, t) \in Nat
  BY <1>1, WithFeeType
<1>3. req \in Nat
  BY <1>1, <1>2 DEF requested_after
<1>4. st1 = update_exchange_rate(st, supply - a, req)
  BY DEF unbond_state
<1>5. und = mul(req, e)
  BY DEF undelegation_amount
<1> HIDE DEF req, st1, und
<1>6. /\ st1 \in State /\ st1.total_bond_amount = t
      /\ Backed(st1, (supply - a) + req)
  BY <1>1, <1>3, <1>4, UpdateRateType, UpdatedRateBacked DEF SameButRate
<1>7. e \in Nat
  BY <1>6 DEF State
<1> HIDE DEF e, t
<1>8. und \in Nat /\ und * ONE <= req * e /\ ONE \in Nat \ {0}
  BY <1>3, <1>5, <1>7, MulType, MulBound, OneType
<1>9. e * ((supply - a) + req) <= t * ONE
  BY <1>6 DEF Backed, t, e
<1>10. req * e <= e * ((supply - a) + req)
  <2>1. \A s, q, k \in Nat : q * k <= k * (s + q)
    OBVIOUS
  <2> QED BY <1>1, <1>3, <1>7, <2>1
<1>11. und * ONE <= t * ONE
  <2>1. und * ONE \in Nat /\ req * e \in Nat /\ t * ONE \in Nat
        /\ e * ((supply - a) + req) \in Nat
    BY <1>1, <1>3, <1>7, <1>8, ProductNat
  <2> QED BY <1>8, <1>9, <1>10, <2>1
<1>12. \A x, y \in Nat, k \in Nat \ {0} : x * k <= y * k => x <= y
  OBVIOUS
<1> QED BY <1>1, <1>8, <1>11, <1>12 DEF und, t

\* The delegations cover what closing the batch undelegates, so that
\* pick_validator does not run out of them.
THEOREM UndelegationsCovered == Spec => []UndelegationCovered
<1>1. TypeOK /\ BondNeverUnderstated => UndelegationCovered
  <2> SUFFICES ASSUME TypeOK, BondNeverUnderstated
               PROVE  UndelegationCovered
    OBVIOUS
  <2> DEFINE st == slashing(delegations, supply)
  <2>1. st \in State /\ st.total_bond_amount = Bonded(delegations)
    BY SlashingType, SlashedExact
  <2> HIDE DEF st
  <2>2. \A a \in Amounts : a \in Nat
    BY HubSystemAssumption
  <2>3. ASSUME st.total_bond_amount > 0, NEW a \in Amounts, a <= supply,
               fee_ok(st, a, supply + current_batch.requested_with_fee,
                      st.total_bond_amount)
        PROVE  undelegation_amount(st, a, supply) <= Bonded(delegations)
    BY <2>1, <2>2, <2>3, UndelegationBacked
  <2> QED BY <2>3 DEF UndelegationCovered, st
<1> QED BY <1>1, TypeCorrect, NeverUnderstated, PTL

-----------------------------------------------------------------------------
(* The exchange rate over a transaction.                                   *)

\* A step that touches neither rate nor count, and mints nothing; requests
\* and supply do not change together.
RateIdle ==
    /\ state'.total_bond_amount = state.total_bond_amount
    /\ state'.exchange_rate = state.exchange_rate
    /\ UNCHANGED current_batch
    /\ supply' <= supply
    /\ UNCHANGED supply \/ UNCHANGED wait_list

\* Only Bond, Unbond and CheckSlashing change the rate.
LEMMA RateSteps ==
    ASSUME TypeOK, [Next]_vars
    PROVE  \/ \E v \in Validators, p \in Payments : Bond(v, p)
           \/ \E u \in Users, a \in Amounts : \E picked \in Picks(a) :
                 Unbond(u, a, picked)
           \/ /\ state' = slashing(delegations, supply)
              /\ UNCHANGED <<current_batch, supply>>
           \/ RateIdle
<1>0. supply \in Nat /\ supply <= supply
  BY DEF TypeOK
<1>1. ASSUME NEW u \in Users, WithdrawUnbonded(u)
      PROVE  RateIdle
  <2>1. \E due, amount : state' = withdrawn_state(due, hub_balance, amount)
    BY <1>1 DEF WithdrawUnbonded, execute_withdraw_unbonded
  <2>2. /\ state'.total_bond_amount = state.total_bond_amount
        /\ state'.exchange_rate = state.exchange_rate
    BY <2>1 DEF withdrawn_state, processed_state, TypeOK, HubTypeOK, State
  <2>3. UNCHANGED <<current_batch, supply>>
    BY <1>1 DEF WithdrawUnbonded, execute_withdraw_unbonded
  <2> QED BY <1>0, <2>2, <2>3 DEF RateIdle
<1>2. CASE CheckSlashing
  BY <1>2 DEF CheckSlashing, execute_slashing, chainVars
<1>3. ASSUME UNCHANGED <<state, current_batch, supply>>
      PROVE  RateIdle
  BY <1>0, <1>3 DEF RateIdle
<1>4. ASSUME NEW s \in Accounts, NEW upd \in ParamUpdates,
             UpdateParams(s, upd)
      PROVE  RateIdle
  BY <1>3, <1>4 DEF UpdateParams, execute_update_params, chainVars
<1>5. ASSUME NEW s \in Accounts, NEW upd \in ConfigUpdates,
             UpdateConfig(s, upd)
      PROVE  RateIdle
  BY <1>3, <1>5 DEF UpdateConfig, execute_update_config, chainVars
<1>6. ASSUME NEW s \in Accounts, NEW v \in Validators,
             RegisterValidator(s, v)
      PROVE  RateIdle
  BY <1>3, <1>6 DEF RegisterValidator, execute_register_validator, chainVars
<1>7. ASSUME NEW s \in Accounts, NEW v \in Validators, NEW w \in Validators,
             DeregisterValidator(s, v, w)
      PROVE  RateIdle
  BY <1>3, <1>7 DEF DeregisterValidator, execute_deregister_validator
<1>8. CASE Environment
  <2>1. UNCHANGED <<state, current_batch, wait_list>>
    BY <1>8 DEF Environment, hubVars
  <2>2. supply' <= supply
    BY <1>8, EnvironmentTypeOK
  <2> QED BY <2>1, <2>2 DEF RateIdle
<1>9. CASE UNCHANGED vars
  BY <1>3, <1>9 DEF vars, hubVars, chainVars
<1> QED BY <1>1, <1>2, <1>4, <1>5, <1>6, <1>7, <1>8, <1>9 DEF Next

\* What execute_bond mints is at most the quotient before the fee.
LEMMA MintBound ==
    ASSUME TypeOK, NEW v \in Validators, NEW p \in Payments, Bond(v, p)
    PROVE  LET st == slashing(delegations, supply)
           IN  (supply' - supply) * mul(FRAC, st.exchange_rate)
                 <= (state'.total_bond_amount - st.total_bond_amount) * FRAC
<1> DEFINE st   == slashing(delegations, supply)
           r    == current_batch.requested_with_fee
           t    == st.total_bond_amount
           d    == mul(FRAC, st.exchange_rate)
           all  == mint_amount(st, p)
           mint == mint_amount_with_fee(st, p, supply)
           s1   == [st EXCEPT !.total_bond_amount = @ + p]
<1>1. p \in Nat /\ mint \in Nat /\ SameButRate(s1, state')
  BY BondFacts
<1>2. st \in State
  BY SlashingType
<1>3. supply \in Nat /\ r \in Nat
  BY DEF TypeOK, HubTypeOK, CurrentBatch
<1>4. /\ d # 0
      /\ fee_ok(st, all, supply + all + r, t + p)
      /\ supply' = supply + mint
  BY DEF Bond, execute_bond
<1>5. /\ mint = with_fee(st, all, supply + all + r, t + p)
      /\ all = decimal_division(p, st.exchange_rate)
  BY DEF mint_amount_with_fee, mint_amount
<1> HIDE DEF st, r, all, mint
<1>6. t \in Nat /\ st.exchange_rate \in Nat /\ s1.total_bond_amount = t + p
  BY <1>2 DEF State
<1>7. /\ all \in Nat /\ d \in Nat
      /\ all * d <= p * FRAC
  BY <1>1, <1>4, <1>5, <1>6, FracAssumption, DecimalDivisionType,
     DecimalDivisionBound, MulType
<1>8. mint <= all
  <2>1. supply + all + r \in Nat /\ t + p \in Nat
    BY <1>1, <1>3, <1>6, <1>7
  <2> QED BY <1>2, <1>4, <1>5, <1>7, <2>1, WithFeeType
<1> HIDE DEF d, t, s1
<1>9. mint * d <= p * FRAC
  <2>1. mint * d <= all * d
    BY <1>1, <1>7, <1>8, ProductMonotone
  <2>2. mint * d \in Nat /\ all * d \in Nat /\ p * FRAC \in Nat
    BY <1>1, <1>7, FracAssumption, ProductNat
  <2> QED BY <1>7, <2>1, <2>2
<1>10. supply' - supply = mint
  BY <1>1, <1>3, <1>4
<1>11. state'.total_bond_amount - t = p
  BY <1>1, <1>6 DEF SameButRate
<1> QED BY <1>9, <1>10, <1>11 DEF st, t, d

\* The tokens execute_bond mints are worth no more than the coins paid.
THEOREM MintsAreBacked == Spec => MintWorthPayment
<1> DEFINE Step == LET st == slashing(delegations, supply) IN
             supply' > supply =>
                (supply' - supply) * mul(FRAC, st.exchange_rate)
                  <= (state'.total_bond_amount - st.total_bond_amount) * FRAC
<1>1. ASSUME TypeOK, [Next]_vars
      PROVE  Step
  <2>0. supply \in Nat /\ supply' \in Nat
    BY <1>1, NextTypeOK DEF TypeOK
  <2>1. ASSUME NEW v \in Validators, NEW p \in Payments, Bond(v, p)
        PROVE  Step
    BY <1>1, <2>1, MintBound
  <2>2. ASSUME NEW u \in Users, NEW a \in Amounts, NEW picked \in Picks(a),
               Unbond(u, a, picked)
        PROVE  ~(supply' > supply)
    <3>1. supply' = supply - a /\ a \in Nat
      BY <2>2, HubSystemAssumption DEF Unbond
    <3> QED BY <2>0, <3>1
  <2>3. supply' = supply => ~(supply' > supply)
    BY <2>0
  <2>4. RateIdle => ~(supply' > supply)
    BY <2>0 DEF RateIdle
  <2> HIDE DEF Step
  <2>5. ~(supply' > supply) => Step
    BY DEF Step
  <2> QED BY <1>1, <2>1, <2>2, <2>3, <2>4, <2>5, RateSteps
<1>2. TypeOK /\ [Next]_vars => [Step]_vars
  BY <1>1
<1> QED BY <1>2, TypeCorrect, PTL DEF Spec, MintWorthPayment

\* A hub that has nothing bonded promises at most 1 a token, or owes no
\* tokens.  Closing a batch subtracts the undelegation after the rate was
\* computed, so the stored rate need not be the conventional 1.
ZeroBondRate ==
    state.total_bond_amount = 0 =>
        \/ state.exchange_rate <= ONE
        \/ supply + current_batch.requested_with_fee = 0

\* When nothing is left after closing, the batch held all tokens.
LEMMA UnbondZeroBond ==
    ASSUME TypeOK, NEW u \in Users, NEW a \in Amounts, NEW picked,
           Unbond(u, a, picked)
    PROVE  ZeroBondRate'
<1> DEFINE st  == slashing(delegations, supply)
           req == requested_after(st, a, supply)
           st1 == unbond_state(st, a, supply)
           e   == st1.exchange_rate
           t   == st1.total_bond_amount
           und == mul(req, e)
           s   == supply - a
<1>1. /\ s \in Nat /\ req \in Nat /\ st \in State /\ st1 \in State
      /\ SameButRate(st, st1)
  BY UnbondFacts
<1>2. st1 = update_exchange_rate(st, s, req)
  BY DEF unbond_state
<1>3. /\ supply' = s
      /\ \/ /\ state' = closed_state(st1, und, now)
            /\ current_batch'.requested_with_fee = 0
            /\ und <= t
         \/ state' = st1
  BY DEF Unbond, execute_unbond, undelegation_amount
<1> HIDE DEF st, req, st1, s
<1>4. e \in Nat /\ t \in Nat /\ st.total_bond_amount = t
  BY <1>1 DEF State, SameButRate
<1>5. t = 0 => e = ONE
  BY <1>1, <1>2, <1>4 DEF update_exchange_rate, State
<1>6. ONE \in Nat \ {0} /\ ONE <= ONE
  BY OneType
<1>7. Backed(st1, s + req)
  BY <1>1, <1>2, UpdatedRateBacked
<1>8. CASE state' = st1
  BY <1>5, <1>6, <1>8 DEF ZeroBondRate
<1>9. CASE /\ state' = closed_state(st1, und, now)
           /\ current_batch'.requested_with_fee = 0
           /\ und <= t
  <2>1. state'.total_bond_amount = t - und /\ state'.exchange_rate = e
    BY <1>1, <1>9 DEF closed_state, State
  <2>2. und \in Nat /\ und * ONE <= req * e
    BY <1>1, <1>4, MulType, MulBound
  <2>3. CASE t = 0
    BY <1>5, <1>6, <2>1, <2>3 DEF ZeroBondRate
  <2>4. CASE t # 0 /\ t - und = 0
    <3>1. e * (s + req) <= t * ONE
      BY <1>7, <2>4 DEF Backed
    <3> HIDE DEF e, t, und
    <3>2. und = t
      BY <1>4, <2>2, <2>4
    <3>3. e * (s + req) <= req * e
      <4>1. e * (s + req) \in Nat /\ t * ONE \in Nat /\ req * e \in Nat
        BY <1>1, <1>4, <1>6, ProductNat
      <4> QED BY <2>2, <3>1, <3>2, <4>1
    <3>4. \A x, y, z \in Nat : x * (y + z) <= z * x => x = 0 \/ y = 0
      <4> SUFFICES ASSUME NEW x \in Nat, NEW y \in Nat, NEW z \in Nat,
                          x * (y + z) <= z * x
                   PROVE  x = 0 \/ y = 0
        OBVIOUS
      <4>1. x * (y + z) = x * y + z * x
        OBVIOUS
      <4>2. x * y \in Nat /\ z * x \in Nat
        BY ProductNat
      <4>3. x * y = 0
        BY <4>1, <4>2
      <4> QED BY <4>3
    <3>5. e = 0 \/ s = 0
      BY <1>1, <1>4, <3>3, <3>4
    <3>6. e = 0 => e <= ONE
      BY <1>6
    <3> QED BY <1>3, <1>9, <2>1, <3>5, <3>6 DEF ZeroBondRate
  <2>5. CASE t - und # 0
    BY <2>1, <2>5 DEF ZeroBondRate
  <2> QED BY <2>3, <2>4, <2>5
<1> QED BY <1>3, <1>8, <1>9

\* The rate after slashing keeps it.
LEMMA SlashedZeroBond ==
    ASSUME TypeOK, ZeroBondRate
    PROVE  LET st == slashing(delegations, supply)
           IN  st.total_bond_amount = 0 =>
                  \/ st.exchange_rate <= ONE
                  \/ supply + current_batch.requested_with_fee = 0
<1> DEFINE b  == Bonded(delegations)
           s1 == [state EXCEPT !.total_bond_amount = b]
           r  == current_batch.requested_with_fee
<1>1. \/ slashing(delegations, supply) = state
      \/ slashing(delegations, supply) = update_exchange_rate(s1, supply, r)
  BY DEF slashing
<1>2. b \in Nat /\ ONE \in Nat /\ ONE <= ONE
  BY BondedType, OneType DEF TypeOK
<1> HIDE DEF b
<1>3. s1 \in State
  BY <1>2 DEF TypeOK, HubTypeOK, State
<1> HIDE DEF s1
<1>4. LET st == update_exchange_rate(s1, supply, r)
      IN  st.total_bond_amount = 0 => st.exchange_rate = ONE
  BY <1>3 DEF update_exchange_rate, State
<1> QED BY <1>1, <1>2, <1>4 DEF ZeroBondRate

\* ZeroBondRate holds in every reachable state: only an unbond can take the
\* last bonded coin, and only slashing can destroy it.
LEMMA ZeroBondInvariant == Spec => []ZeroBondRate
<1>1. Init => ZeroBondRate
  BY HubSystemAssumption DEF Init, instantiate, ZeroBondRate
<1>2. ASSUME TypeOK, ZeroBondRate, [Next]_vars
      PROVE  ZeroBondRate'
  <2>1. ASSUME NEW v \in Validators, NEW p \in Payments, Bond(v, p)
        PROVE  ZeroBondRate'
    <3> DEFINE st == slashing(delegations, supply)
               s1 == [st EXCEPT !.total_bond_amount = @ + p]
    <3>1. p \in Nat /\ SameButRate(s1, state')
      BY <1>2, <2>1, BondFacts
    <3>2. st \in State /\ p > 0
      BY <1>2, <2>1, SlashingType DEF Bond, execute_bond
    <3> HIDE DEF st
    <3>3. s1.total_bond_amount # 0
      BY <3>1, <3>2 DEF State
    <3> QED BY <3>1, <3>3 DEF SameButRate, ZeroBondRate
  <2>2. ASSUME NEW u \in Users, NEW a \in Amounts, NEW picked \in Picks(a),
               Unbond(u, a, picked)
        PROVE  ZeroBondRate'
    BY <1>2, <2>2, UnbondZeroBond
  <2>3. CASE /\ state' = slashing(delegations, supply)
             /\ UNCHANGED <<current_batch, supply>>
    BY <1>2, <2>3, SlashedZeroBond DEF ZeroBondRate
  <2>4. CASE RateIdle
    <3>1. /\ supply \in Nat /\ supply' \in Nat
          /\ current_batch.requested_with_fee \in Nat
      BY <1>2, NextTypeOK DEF TypeOK, HubTypeOK, CurrentBatch
    <3> QED BY <1>2, <2>4, <3>1 DEF RateIdle, ZeroBondRate
  <2> QED BY <1>2, <2>1, <2>2, <2>3, <2>4, RateSteps
<1> QED BY <1>1, <1>2, TypeCorrect, PTL DEF Spec

\* The rate execute_unbond stores is at least the one it started from: the
\* tokens owed do not grow, and the coins are the same.
LEMMA UnbondRateKept ==
    ASSUME TypeOK, RateBacked, ZeroBondRate, NEW u \in Users,
           NEW a \in Amounts, NEW picked, Unbond(u, a, picked)
    PROVE  state'.exchange_rate
             >= slashing(delegations, supply).exchange_rate
<1> DEFINE st  == slashing(delegations, supply)
           req == requested_after(st, a, supply)
           st1 == unbond_state(st, a, supply)
           r   == current_batch.requested_with_fee
           s   == supply - a
           t   == st.total_bond_amount
           e0  == st.exchange_rate
           e1  == st1.exchange_rate
<1>1. /\ a \in Nat /\ s \in Nat /\ req \in Nat
      /\ req - r \in Nat /\ req - r <= a
      /\ st \in State /\ st1 \in State
  BY UnbondFacts
<1>2. st1 = update_exchange_rate(st, s, req)
  BY DEF unbond_state
<1>3. /\ a # 0 /\ supply \in Nat /\ r \in Nat /\ ONE \in Nat \ {0}
  BY HubSystemAssumption, OneType DEF TypeOK, HubTypeOK, CurrentBatch
<1>4. /\ fee_ok(st, a, supply + r, t)
      /\ \/ state' = closed_state(st1, undelegation_amount(st, a, supply), now)
         \/ state' = st1
  BY DEF Unbond, execute_unbond
<1>5. req = r + with_fee(st, a, supply + r, t)
  BY DEF requested_after
<1>6. Backed(st, supply + r)
  BY SlashedRateBacked
<1>7. t = 0 => e0 <= ONE \/ supply + r = 0
  BY SlashedZeroBond
<1>8. state'.exchange_rate = e1
  <2> HIDE DEF st1
  <2> QED BY <1>1, <1>4 DEF closed_state, State
<1> HIDE DEF st, req, st1
<1>9. t \in Nat /\ e0 \in Nat
  BY <1>1 DEF State
<1>10. e1 = IF t = 0 \/ s + req = 0 THEN ONE ELSE from_ratio(t, s + req)
  BY <1>1, <1>2 DEF update_exchange_rate, State
<1>11. t # 0 => e0 * (supply + r) <= t * ONE
  BY <1>6 DEF Backed
<1>12. CASE t = 0
  <2>1. supply + r # 0
    BY <1>1, <1>3
  <2> QED BY <1>3, <1>7, <1>8, <1>9, <1>10, <1>12, <2>1 DEF st
<1>13. CASE t # 0 /\ s + req # 0
  <2> DEFINE n == s + req
             m == supply + r
             c == t * ONE
  <2>1. n \in Nat \ {0} /\ m \in Nat /\ n <= m
    BY <1>1, <1>3, <1>13
  <2>2. c \in Nat /\ e0 * m <= c
    BY <1>3, <1>9, <1>11, <1>13, ProductNat
  <2>3. e1 = c \div n
    BY <1>10, <1>13 DEF from_ratio
  <2> HIDE DEF n, m, c, e0, e1
  <2>4. e1 \in Nat /\ c < e1 * n + n
    BY <2>1, <2>2, <2>3, DivBounds
  <2>5. e0 * n <= e0 * m
    <3>1. \A x, y, z \in Nat : x <= y => z * x <= z * y
      OBVIOUS
    <3> QED BY <1>9, <2>1, <3>1 DEF e0
  <2>6. e0 * n < e1 * n + n
    <3>1. e0 * n \in Nat /\ e0 * m \in Nat /\ e1 * n \in Nat
      BY <1>9, <2>1, <2>4, ProductNat DEF e0
    <3> QED BY <2>1, <2>2, <2>4, <2>5, <3>1
  <2>7. \A x, y \in Nat, k \in Nat \ {0} : x * k < y * k + k => x <= y
    <3> SUFFICES ASSUME NEW x \in Nat, NEW y \in Nat, NEW k \in Nat \ {0},
                        x * k < y * k + k, ~(x <= y)
                 PROVE  FALSE
      OBVIOUS
    <3>1. y + 1 <= x
      OBVIOUS
    <3>2. (y + 1) * k <= x * k
      BY <3>1, ProductMonotone
    <3>3. (y + 1) * k = y * k + k
      OBVIOUS
    <3>4. y * k \in Nat /\ x * k \in Nat
      BY ProductNat
    <3> QED BY <3>2, <3>3, <3>4
  <2>8. e0 <= e1
    BY <1>9, <2>1, <2>4, <2>6, <2>7 DEF e0
  <2> QED BY <1>8, <1>9, <2>4, <2>8 DEF e0, e1, st
<1>14. CASE t # 0 /\ s + req = 0
  <2>1. s = 0 /\ req = 0 /\ r = 0 /\ supply = a
    BY <1>1, <1>3, <1>14
  <2> DEFINE w == with_fee(st, a, supply + r, t)
  <2>2. w # a
    <3>1. w \in Nat
      BY <1>1, <1>3, <1>4, <1>9, WithFeeType
    <3> HIDE DEF w
    <3> QED BY <1>3, <1>5, <2>1, <3>1 DEF w
  <2>3. supply + r >= t
    BY <1>4, <2>2 DEF fee_ok, with_fee
  <2>4. t <= a /\ supply + r = a
    BY <1>1, <1>9, <2>1, <2>3
  <2> HIDE DEF e0, t
  <2>5. e0 * a <= t * ONE
    BY <1>11, <1>14, <2>4
  <2>6. t * ONE <= a * ONE
    BY <1>1, <1>3, <1>9, <2>4, ProductMonotone DEF t
  <2>7. e0 * a <= ONE * a
    <3>1. /\ e0 * a \in Nat /\ t * ONE \in Nat /\ a * ONE \in Nat
          /\ a * ONE = ONE * a
      <4>1. \A x, y \in Nat : x * y = y * x
        OBVIOUS
      <4> QED BY <1>1, <1>3, <1>9, <4>1, ProductNat DEF e0, t
    <3> QED BY <2>5, <2>6, <3>1
  <2>8. \A x, y \in Nat, k \in Nat \ {0} : x * k <= y * k => x <= y
    OBVIOUS
  <2>9. e0 <= ONE
    BY <1>1, <1>3, <1>9, <2>7, <2>8 DEF e0
  <2> QED BY <1>3, <1>8, <1>9, <1>10, <1>14, <2>9 DEF e0, st
<1> QED BY <1>12, <1>13, <1>14

\* An unbond request never lowers the exchange rate the remaining holders see.
THEOREM UnbondsKeepRate == Spec => UnbondKeepsRate
<1> DEFINE Step == supply' < supply /\ wait_list' # wait_list =>
             state'.exchange_rate
               >= slashing(delegations, supply).exchange_rate
<1>1. ASSUME TypeOK, RateBacked, ZeroBondRate, [Next]_vars
      PROVE  Step
  <2>0. supply \in Nat /\ supply' \in Nat
    BY <1>1, NextTypeOK DEF TypeOK
  <2>1. ASSUME NEW u \in Users, NEW a \in Amounts, NEW picked \in Picks(a),
               Unbond(u, a, picked)
        PROVE  Step
    BY <1>1, <2>1, UnbondRateKept
  <2>2. ASSUME NEW v \in Validators, NEW p \in Payments, Bond(v, p)
        PROVE  ~(supply' < supply)
    <3>1. \E mint \in Nat : supply' = supply + mint
      BY <1>1, <2>2, BondFacts DEF Bond
    <3> QED BY <2>0, <3>1
  <2>3. supply' = supply => ~(supply' < supply)
    BY <2>0
  <2>4. RateIdle => ~(supply' < supply) \/ wait_list' = wait_list
    BY <2>3 DEF RateIdle
  <2> HIDE DEF Step
  <2>5. ~(supply' < supply) \/ wait_list' = wait_list => Step
    BY DEF Step
  <2> QED BY <1>1, <2>1, <2>2, <2>3, <2>4, <2>5, RateSteps
<1>2. TypeOK /\ RateBacked /\ ZeroBondRate /\ [Next]_vars => [Step]_vars
  BY <1>1
<1> QED BY <1>2, TypeCorrect, RateAlwaysBacked, ZeroBondInvariant, PTL
       DEF Spec, UnbondKeepsRate

=============================================================================
