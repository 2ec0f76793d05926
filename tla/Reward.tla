------------------------------- MODULE Reward -------------------------------
(***************************************************************************)
(* The reward contract: rewards are shared out among the token's holders   *)
(* by a global index.  Holder a has accrued its pending_rewards and, for   *)
(* each token, what the global index rose since the holder's own index.    *)
(*                                                                         *)
(* Handlers are operators from the contract's storage to its next storage, *)
(* so that the messages of one transaction can be applied one after the    *)
(* other.  A holder that was never stored reads as all zeros, so HOLDERS   *)
(* is a function on all addresses.                                         *)
(***************************************************************************)
EXTENDS Decimals, FiniteSets, Functions, FiniteSetsExt

CONSTANTS Addrs,    \* addresses that may hold tokens
          TaxRate,  \* the chain's tax on transfers, a Decimal
          TaxCap    \* and its cap

ASSUME RewardAssumption ==
    IsFiniteSet(Addrs) /\ TaxRate \in Nat /\ TaxCap \in Nat

Holder == [balance : Nat, index : Nat, pending_rewards : Nat]

\* STATE and HOLDERS.
RewardStorage == [global_index : Nat, total_balance : Nat,
                  prev_reward_balance : Nat, holders : [Addrs -> Holder]]

\* instantiate; a missing holder reads as zeros (read_holder).
reward_init ==
    [global_index |-> 0, total_balance |-> 0, prev_reward_balance |-> 0,
     holders |-> [a \in Addrs |->
                    [balance |-> 0, index |-> 0, pending_rewards |-> 0]]]

\* store_holder of h for address a and store_state with a new total and a new
\* previous balance.
store(r, a, h, total, prev) ==
    [global_index |-> r.global_index, total_balance |-> total,
     prev_reward_balance |-> prev, holders |-> [r.holders EXCEPT ![a] = h]]

-----------------------------------------------------------------------------
(* Accrued rewards. *)

decimal_multiplication_in_256(a, b) == (b * a) \div ONE

calculate_decimal_rewards(global_index, user_index, user_balance) ==
    decimal_multiplication_in_256(global_index - user_index,
                                  from_ratio(user_balance, 1))

\* All that holder h has accrued, with decimals (query_accrued_rewards and
\* execute_claim_rewards).
all_reward_with_decimals(r, h) ==
    calculate_decimal_rewards(r.global_index, h.index, h.balance)
      + h.pending_rewards

\* The digits behind the point.
get_decimals(value) == value % ONE

\* Mutant: what accrued since the last change is forgotten.
MutForgetAccrued(r, h) == [h EXCEPT !.index = r.global_index]

\* h with its accrued rewards put aside at the present index.
settled(r, h) ==
    [balance |-> h.balance, index |-> r.global_index,
     pending_rewards |-> all_reward_with_decimals(r, h)]

-----------------------------------------------------------------------------
(* Balance changes, sent by the token contract. *)

\* Mutant: the total is not updated.
MutTotalKept(r, a, amount) ==
    store(r, a, [settled(r, r.holders[a]) EXCEPT !.balance = @ + amount],
          r.total_balance, r.prev_reward_balance)

execute_increase_balance(r, a, amount) ==
    store(r, a, [settled(r, r.holders[a]) EXCEPT !.balance = @ + amount],
          r.total_balance + amount, r.prev_reward_balance)

\* Mutant: the balance is not checked.
MutDecreaseUnchecked(r, a, amount) == TRUE

decrease_ok(r, a, amount) ==
    amount <= r.holders[a].balance /\ amount <= r.total_balance

execute_decrease_balance(r, a, amount) ==
    store(r, a, [settled(r, r.holders[a]) EXCEPT !.balance = @ - amount],
          r.total_balance - amount, r.prev_reward_balance)

-----------------------------------------------------------------------------
(* Claims.  The chain takes its tax from the contract's account on top of  *)
(* what is sent, so deduct_tax sends less than the rewards.                *)

compute_tax(amount) ==
    min(amount - (amount * ONE) \div (ONE + TaxRate), TaxCap)

deduct_tax(amount) == amount - compute_tax(amount)

\* The tax of a transfer of `amount`, as the chain computes it.
chain_tax(amount) == min(mul(amount, TaxRate), TaxCap)

\* The whole units a claim of h pays.
rewards_of(r, h) == mul(1, all_reward_with_decimals(r, h))

claim_ok(r, a) ==
    LET rewards == rewards_of(r, r.holders[a])
    IN  rewards # 0 /\ rewards <= r.prev_reward_balance

execute_claim_rewards(r, a) ==
    LET h == r.holders[a]
    IN  store(r, a,
              [balance |-> h.balance, index |-> r.global_index,
               pending_rewards |->
                   get_decimals(all_reward_with_decimals(r, h))],
              r.total_balance, r.prev_reward_balance - rewards_of(r, h))

-----------------------------------------------------------------------------
(* The global index, updated by the hub. *)

update_ok(r, balance) ==
    r.total_balance # 0 /\ r.prev_reward_balance <= balance

\* Mutants: the quotient is rounded up; the balance is not recorded.
MutIndexRoundedUp(r, balance) ==
    [r EXCEPT !.prev_reward_balance = balance,
              !.global_index =
                  @ + from_ratio(balance - r.prev_reward_balance,
                                 r.total_balance) + 1]
MutRewardsForgotten(r, balance) == [r EXCEPT !.prev_reward_balance = balance]

execute_update_global_index(r, balance) ==
    [global_index |-> r.global_index
                        + from_ratio(balance - r.prev_reward_balance,
                                     r.total_balance),
     total_balance |-> r.total_balance, prev_reward_balance |-> balance,
     holders |-> r.holders]

=============================================================================
