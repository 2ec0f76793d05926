---------------------------- MODULE RewardProofs ----------------------------
(***************************************************************************)
(* Invariants of the token and the reward contract.  The storage of the    *)
(* reward contract is shown to stay sound through each message; the        *)
(* transactions of RewardSystem are chains of such messages.               *)
(***************************************************************************)
EXTENDS RewardSystem, DecimalsProofs, SumTheorems

\* What holder a has accrued in storage r.
AccruedIn(r, a) == all_reward_with_decimals(r, r.holders[a])

BalanceOf(r) == [a \in Addrs |-> r.holders[a].balance]

\* Storage is well typed, the total is the sum of the balances and no holder
\* is ahead of the index.
Sound(r) ==
    /\ r \in RewardStorage
    /\ r.total_balance = SumFunction(BalanceOf(r))
    /\ \A a \in Addrs : r.holders[a].index <= r.global_index

-----------------------------------------------------------------------------
(* Accrued rewards.                                                        *)

\* A multiple divides exactly.
LEMMA MultipleDiv ==
    ASSUME NEW n \in Nat, NEW d \in Nat \ {0}
    PROVE  (n * d) \div d = n
<1> DEFINE q == (n * d) \div d
<1>1. n * d \in Nat
  BY ProductNat
<1>2. q \in Nat /\ q * d <= n * d /\ n * d < q * d + d
  BY <1>1, DivBounds
<1> HIDE DEF q
<1>3. ASSUME q < n PROVE FALSE
  <2>1. q + 1 <= n /\ q + 1 \in Nat
    BY <1>2, <1>3
  <2>2. (q + 1) * d <= n * d
    BY <2>1, ProductMonotone
  <2>3. (q + 1) * d = q * d + d
    BY <1>2
  <2> QED BY <1>1, <1>2, <2>2, <2>3
<1>4. ASSUME n < q PROVE FALSE
  <2>1. n + 1 <= q /\ n + 1 \in Nat
    BY <1>2, <1>4
  <2>2. (n + 1) * d <= q * d
    BY <1>2, <2>1, ProductMonotone
  <2>3. (n + 1) * d = n * d + d
    OBVIOUS
  <2>4. q * d \in Nat
    BY <1>2, ProductNat
  <2> QED BY <1>1, <1>2, <2>2, <2>3, <2>4
<1>5. q = n
  BY <1>2, <1>3, <1>4
<1> QED BY <1>5 DEF q

\* calculate_decimal_rewards is exact: the balance is a whole number, so the
\* 256-bit product is not truncated.
LEMMA RewardsExact ==
    ASSUME NEW g \in Nat, NEW i \in Nat, NEW b \in Nat, i <= g
    PROVE  /\ calculate_decimal_rewards(g, i, b) = (g - i) * b
           /\ (g - i) * b \in Nat
<1> DEFINE x == g - i
<1>1. x \in Nat
  OBVIOUS
<1> HIDE DEF x
<1>2. from_ratio(b, 1) = b * ONE
  <2>1. b * ONE \in Nat
    BY OneType, ProductNat
  <2>2. (b * ONE) \div 1 = b * ONE
    BY <2>1
  <2> QED BY <2>2 DEF from_ratio
<1>3. (b * ONE) * x = (x * b) * ONE
  BY <1>1, OneType
<1>4. x * b \in Nat
  BY <1>1, ProductNat
<1>5. ((x * b) * ONE) \div ONE = x * b
  BY <1>4, OneType, MultipleDiv
<1>6. calculate_decimal_rewards(g, i, b) = x * b
  BY <1>2, <1>3, <1>5
     DEF calculate_decimal_rewards, decimal_multiplication_in_256, x
<1> QED BY <1>4, <1>6 DEF x

\* What a holder of sound storage has accrued.
LEMMA AccruedValue ==
    ASSUME NEW r, Sound(r), NEW a \in Addrs
    PROVE  /\ r.global_index \in Nat /\ r.total_balance \in Nat
           /\ r.prev_reward_balance \in Nat
           /\ r.holders[a] \in Holder
           /\ r.holders[a].balance \in Nat /\ r.holders[a].index \in Nat
           /\ r.holders[a].pending_rewards \in Nat
           /\ AccruedIn(r, a) \in Nat
           /\ AccruedIn(r, a) =
                (r.global_index - r.holders[a].index) * r.holders[a].balance
                  + r.holders[a].pending_rewards
<1>1. /\ r.global_index \in Nat /\ r.total_balance \in Nat
      /\ r.prev_reward_balance \in Nat
      /\ r.holders[a] \in Holder
  BY DEF Sound, RewardStorage
<1>2. /\ r.holders[a].balance \in Nat /\ r.holders[a].index \in Nat
      /\ r.holders[a].pending_rewards \in Nat
  BY <1>1 DEF Holder
<1>3. r.holders[a].index <= r.global_index
  BY DEF Sound
<1> DEFINE c == calculate_decimal_rewards(r.global_index,
                    r.holders[a].index, r.holders[a].balance)
<1>4. /\ c = (r.global_index - r.holders[a].index) * r.holders[a].balance
      /\ c \in Nat
  <2> DEFINE g == r.global_index
             i == r.holders[a].index
             b == r.holders[a].balance
  <2>1. g \in Nat /\ i \in Nat /\ b \in Nat /\ i <= g
    BY <1>1, <1>2, <1>3
  <2> HIDE DEF g, i, b
  <2>2. /\ calculate_decimal_rewards(g, i, b) = (g - i) * b
        /\ (g - i) * b \in Nat
    BY <2>1, RewardsExact
  <2> QED BY <2>2 DEF g, i, b
<1>5. AccruedIn(r, a) = c + r.holders[a].pending_rewards
  BY DEF AccruedIn, all_reward_with_decimals
<1> HIDE DEF c
<1>6. AccruedIn(r, a) \in Nat
  BY <1>2, <1>4, <1>5
<1> QED BY <1>1, <1>2, <1>4, <1>5, <1>6

\* The record of one holder is replaced by one not ahead of the index, and
\* the total follows: storage stays sound and nobody else is affected.
LEMMA HolderReplaced ==
    ASSUME NEW r, Sound(r), NEW a \in Addrs, NEW h \in Holder,
           NEW t \in Nat, NEW p \in Nat,
           h.index <= r.global_index,
           t = (r.total_balance - r.holders[a].balance) + h.balance
    PROVE  /\ Sound(store(r, a, h, t, p))
           /\ store(r, a, h, t, p).holders[a] = h
           /\ \A b \in Addrs \ {a} :
                 /\ store(r, a, h, t, p).holders[b] = r.holders[b]
                 /\ AccruedIn(store(r, a, h, t, p), b) = AccruedIn(r, b)
<1> DEFINE q == store(r, a, h, t, p)
<1>0. /\ q \in RewardStorage
      /\ q.global_index = r.global_index
      /\ q.holders = [r.holders EXCEPT ![a] = h]
      /\ q.total_balance = t
  BY DEF Sound, RewardStorage, store
<1> HIDE DEF q
<1>1. r.holders \in [Addrs -> Holder]
  BY DEF Sound, RewardStorage
<1>2. /\ q.holders[a] = h
      /\ \A b \in Addrs \ {a} : q.holders[b] = r.holders[b]
  BY <1>0, <1>1
<1>3. \A b \in Addrs : q.holders[b].index <= q.global_index
  BY <1>0, <1>2 DEF Sound
<1>4. \A b \in Addrs \ {a} : AccruedIn(q, b) = AccruedIn(r, b)
  BY <1>0, <1>2 DEF AccruedIn, all_reward_with_decimals
<1> DEFINE f == BalanceOf(r)
           g == BalanceOf(q)
<1>5. /\ DOMAIN f = Addrs /\ DOMAIN g = Addrs
      /\ \A b \in Addrs : f[b] = r.holders[b].balance
                          /\ g[b] = q.holders[b].balance
  BY DEF BalanceOf
<1>6. f \in [Addrs -> Nat] /\ g \in [Addrs -> Nat]
  <2>1. q.holders \in [Addrs -> Holder]
    BY <1>0 DEF RewardStorage
  <2> QED BY <1>1, <2>1 DEF Holder, BalanceOf
<1>7. \A b \in Addrs \ {a} : g[b] = f[b]
  BY <1>2, <1>5
<1>8. r.total_balance = SumFunction(f)
  BY DEF Sound
<1> HIDE DEF f, g
<1>9. IsFiniteSet(Addrs)
  BY RewardAssumption
<1>10. SumFunction(g) = (SumFunction(f) - f[a]) + g[a]
  BY <1>6, <1>7, <1>9, SumFunctionUpdate
<1>11. q.total_balance = SumFunction(g)
  BY <1>0, <1>2, <1>5, <1>8, <1>10
<1>12. Sound(q)
  BY <1>0, <1>3, <1>11 DEF Sound, g
<1> QED BY <1>2, <1>4, <1>12 DEF q

-----------------------------------------------------------------------------
(* Messages.                                                               *)

\* IncreaseBalance changes one balance and the total, and nobody's accrued
\* rewards.
LEMMA IncreaseSound ==
    ASSUME NEW r, Sound(r), NEW a \in Addrs, NEW n \in Nat
    PROVE  LET q == execute_increase_balance(r, a, n)
           IN  /\ Sound(q)
               /\ q.global_index = r.global_index
               /\ q.prev_reward_balance = r.prev_reward_balance
               /\ q.holders[a].balance = r.holders[a].balance + n
               /\ \A b \in Addrs \ {a} :
                     q.holders[b].balance = r.holders[b].balance
               /\ \A b \in Addrs : AccruedIn(q, b) = AccruedIn(r, b)
<1> DEFINE q == execute_increase_balance(r, a, n)
           v == AccruedIn(r, a)
           h == [balance |-> r.holders[a].balance + n,
                 index |-> r.global_index, pending_rewards |-> v]
<1>1. /\ r.global_index \in Nat /\ r.total_balance \in Nat
      /\ r.prev_reward_balance \in Nat
      /\ r.holders[a] \in Holder /\ r.holders[a].balance \in Nat
      /\ v \in Nat
  BY AccruedValue
<1>2. r \in RewardStorage
  BY DEF Sound
<1>3. [settled(r, r.holders[a]) EXCEPT !.balance = @ + n] = h
  <2>1. settled(r, r.holders[a]) =
          [balance |-> r.holders[a].balance, index |-> r.global_index,
           pending_rewards |-> v]
    BY DEF settled, AccruedIn
  <2> QED BY <2>1
<1> DEFINE t == r.total_balance + n
<1>4. q = store(r, a, h, t, r.prev_reward_balance)
  BY <1>3 DEF execute_increase_balance
<1>5. /\ h \in Holder /\ h.index = r.global_index /\ h.pending_rewards = v
      /\ h.balance = r.holders[a].balance + n
      /\ t \in Nat
  BY <1>1 DEF Holder
<1>6. t = (r.total_balance - r.holders[a].balance) + h.balance
  BY <1>1, <1>5
<1>7. h.index <= r.global_index
  BY <1>1, <1>5
<1> HIDE DEF h, v, q, t
<1>8. /\ q.global_index = r.global_index
      /\ q.prev_reward_balance = r.prev_reward_balance
  BY <1>4 DEF store
<1>9. /\ Sound(q) /\ q.holders[a] = h
      /\ \A b \in Addrs \ {a} : /\ q.holders[b] = r.holders[b]
                                /\ AccruedIn(q, b) = AccruedIn(r, b)
  BY <1>1, <1>4, <1>5, <1>6, <1>7, HolderReplaced
<1>10. AccruedIn(q, a) = v
  <2>1. AccruedIn(q, a) = (q.global_index - h.index) * h.balance
                            + h.pending_rewards
    BY <1>9, AccruedValue
  <2>2. q.global_index - h.index = 0
    BY <1>1, <1>5, <1>8
  <2>3. h.balance \in Nat
    BY <1>5 DEF Holder
  <2> QED BY <1>1, <1>5, <2>1, <2>2, <2>3
<1> QED BY <1>5, <1>8, <1>9, <1>10 DEF q, v

\* DecreaseBalance changes one balance and the total, and nobody's accrued
\* rewards.
LEMMA DecreaseSound ==
    ASSUME NEW r, Sound(r), NEW a \in Addrs, NEW n \in Nat,
           decrease_ok(r, a, n)
    PROVE  LET q == execute_decrease_balance(r, a, n)
           IN  /\ Sound(q)
               /\ q.global_index = r.global_index
               /\ q.prev_reward_balance = r.prev_reward_balance
               /\ q.holders[a].balance = r.holders[a].balance - n
               /\ \A b \in Addrs \ {a} :
                     q.holders[b].balance = r.holders[b].balance
               /\ \A b \in Addrs : AccruedIn(q, b) = AccruedIn(r, b)
<1> DEFINE q == execute_decrease_balance(r, a, n)
           v == AccruedIn(r, a)
           h == [balance |-> r.holders[a].balance - n,
                 index |-> r.global_index, pending_rewards |-> v]
<1>1. /\ r.global_index \in Nat /\ r.total_balance \in Nat
      /\ r.prev_reward_balance \in Nat
      /\ r.holders[a] \in Holder /\ r.holders[a].balance \in Nat
      /\ v \in Nat
  BY AccruedValue
<1>2. r \in RewardStorage
  BY DEF Sound
<1>3. [settled(r, r.holders[a]) EXCEPT !.balance = @ - n] = h
  <2>1. settled(r, r.holders[a]) =
          [balance |-> r.holders[a].balance, index |-> r.global_index,
           pending_rewards |-> v]
    BY DEF settled, AccruedIn
  <2> QED BY <2>1
<1> DEFINE t == r.total_balance - n
<1>4. q = store(r, a, h, t, r.prev_reward_balance)
  BY <1>3 DEF execute_decrease_balance
<1>5. /\ h \in Holder /\ h.index = r.global_index /\ h.pending_rewards = v
      /\ h.balance = r.holders[a].balance - n
      /\ t \in Nat
  BY <1>1 DEF Holder, decrease_ok
<1>6. t = (r.total_balance - r.holders[a].balance) + h.balance
  BY <1>1, <1>5
<1>7. h.index <= r.global_index
  BY <1>1, <1>5
<1> HIDE DEF h, v, q, t
<1>8. /\ q.global_index = r.global_index
      /\ q.prev_reward_balance = r.prev_reward_balance
  BY <1>4 DEF store
<1>9. /\ Sound(q) /\ q.holders[a] = h
      /\ \A b \in Addrs \ {a} : /\ q.holders[b] = r.holders[b]
                                /\ AccruedIn(q, b) = AccruedIn(r, b)
  BY <1>1, <1>4, <1>5, <1>6, <1>7, HolderReplaced
<1>10. AccruedIn(q, a) = v
  <2>1. AccruedIn(q, a) = (q.global_index - h.index) * h.balance
                            + h.pending_rewards
    BY <1>9, AccruedValue
  <2>2. q.global_index - h.index = 0
    BY <1>1, <1>5, <1>8
  <2>3. h.balance \in Nat
    BY <1>5 DEF Holder
  <2> QED BY <1>1, <1>5, <2>1, <2>2, <2>3
<1> QED BY <1>5, <1>8, <1>9, <1>10 DEF q, v

\* A claim takes the whole units from the claimer and as many from
\* prev_reward_balance, keeps the fraction, and affects nobody else.
LEMMA ClaimSound ==
    ASSUME NEW r, Sound(r), NEW a \in Addrs, claim_ok(r, a)
    PROVE  LET q == execute_claim_rewards(r, a)
               w == rewards_of(r, r.holders[a])
           IN  /\ Sound(q)
               /\ w \in Nat
               /\ q.global_index = r.global_index
               /\ q.prev_reward_balance = r.prev_reward_balance - w
               /\ \A b \in Addrs : q.holders[b].balance = r.holders[b].balance
               /\ AccruedIn(q, a) = AccruedIn(r, a) - w * ONE
               /\ \A b \in Addrs \ {a} : AccruedIn(q, b) = AccruedIn(r, b)
<1> DEFINE q == execute_claim_rewards(r, a)
           w == rewards_of(r, r.holders[a])
           v == AccruedIn(r, a)
           h == [balance |-> r.holders[a].balance,
                 index |-> r.global_index, pending_rewards |-> v % ONE]
<1>1. /\ r.global_index \in Nat /\ r.total_balance \in Nat
      /\ r.prev_reward_balance \in Nat
      /\ r.holders[a] \in Holder /\ r.holders[a].balance \in Nat
      /\ v \in Nat
  BY AccruedValue
<1>2. r \in RewardStorage
  BY DEF Sound
<1>3. w = v \div ONE
  <2>1. w = (1 * v) \div ONE
    BY DEF rewards_of, mul, AccruedIn
  <2> HIDE DEF w, v
  <2>2. 1 * v = v
    BY <1>1
  <2> QED BY <2>1, <2>2
<1> DEFINE p == r.prev_reward_balance - w
<1>4. q = store(r, a, h, r.total_balance, p)
  BY DEF execute_claim_rewards, get_decimals, AccruedIn
<1>5. w <= r.prev_reward_balance
  BY DEF claim_ok
<1> HIDE DEF v, w
<1>6. w \in Nat /\ v % ONE \in Nat /\ v % ONE = v - w * ONE
  BY <1>1, <1>3, OneType
<1>7. /\ h \in Holder /\ h.index = r.global_index
      /\ h.pending_rewards = v - w * ONE
      /\ h.balance = r.holders[a].balance
      /\ p \in Nat
  BY <1>1, <1>5, <1>6 DEF Holder
<1>8. r.total_balance = (r.total_balance - r.holders[a].balance) + h.balance
  BY <1>1, <1>7
<1>9. h.index <= r.global_index
  BY <1>1, <1>7
<1>10. p = r.prev_reward_balance - w
  OBVIOUS
<1> HIDE DEF h, q, p
<1>11. q.global_index = r.global_index /\ q.prev_reward_balance = p
  BY <1>4 DEF store
<1>12. /\ Sound(q) /\ q.holders[a] = h
       /\ \A b \in Addrs \ {a} : /\ q.holders[b] = r.holders[b]
                                 /\ AccruedIn(q, b) = AccruedIn(r, b)
  BY <1>1, <1>4, <1>7, <1>8, <1>9, HolderReplaced
<1>13. AccruedIn(q, a) = v - w * ONE
  <2>1. AccruedIn(q, a) = (q.global_index - h.index) * h.balance
                            + h.pending_rewards
    BY <1>12, AccruedValue
  <2>2. q.global_index - h.index = 0
    BY <1>1, <1>7, <1>11
  <2>3. h.balance \in Nat /\ h.pending_rewards \in Nat
    BY <1>7 DEF Holder
  <2> QED BY <1>7, <2>1, <2>2, <2>3
<1>14. \A b \in Addrs : q.holders[b].balance = r.holders[b].balance
  BY <1>7, <1>12
<1> QED BY <1>6, <1>10, <1>11, <1>12, <1>13, <1>14 DEF q, w, v

\* All that is accrued in storage r.
TotalIn(r) == SumFunction([a \in Addrs |-> AccruedIn(r, a)])

\* An index update gives every token the same, and all of them together no
\* more than arrived: from_ratio truncates and the total is the sum of the
\* balances.
LEMMA UpdateSound ==
    ASSUME NEW r, Sound(r), NEW balance \in Nat, update_ok(r, balance)
    PROVE  LET q == execute_update_global_index(r, balance)
           IN  /\ Sound(q)
               /\ q.prev_reward_balance = balance
               /\ \A a \in Addrs :
                     q.holders[a].balance = r.holders[a].balance
               /\ TotalIn(q) <= TotalIn(r)
                                  + (balance - r.prev_reward_balance) * ONE
               /\ TotalIn(q) = TotalIn(r)
                    + from_ratio(balance - r.prev_reward_balance,
                                 r.total_balance) * r.total_balance
<1> DEFINE q == execute_update_global_index(r, balance)
           c == balance - r.prev_reward_balance
           t == r.total_balance
           d == from_ratio(c, t)
<1>1. /\ r.global_index \in Nat /\ t \in Nat
      /\ r.prev_reward_balance \in Nat /\ r.holders \in [Addrs -> Holder]
  BY DEF Sound, RewardStorage
<1>2. t \in Nat \ {0} /\ c \in Nat
  BY <1>1 DEF update_ok
<1>3. d \in Nat /\ d * t <= c * ONE
  <2> HIDE DEF c, t
  <2> QED BY <1>2, FromRatioType, FromRatioBound
<1>4. /\ q.global_index = r.global_index + d
      /\ q.total_balance = r.total_balance
      /\ q.prev_reward_balance = balance /\ q.holders = r.holders
  BY DEF execute_update_global_index
<1>5. q \in RewardStorage
  <2>1. r.global_index + d \in Nat
    BY <1>1, <1>3
  <2> HIDE DEF d
  <2>2. q = [global_index |-> r.global_index + d, total_balance |-> t,
             prev_reward_balance |-> balance, holders |-> r.holders]
    BY DEF execute_update_global_index, d
  <2> HIDE DEF q
  <2> QED BY <1>1, <2>1, <2>2 DEF RewardStorage
<1> HIDE DEF d, q
<1>6. \A a \in Addrs : q.holders[a].index <= q.global_index
  <2>1. ASSUME NEW a \in Addrs
        PROVE  r.holders[a].index <= r.global_index + d
    <3>1. /\ r.holders[a].index \in Nat
          /\ r.holders[a].index <= r.global_index
      BY AccruedValue DEF Sound
    <3> QED BY <1>1, <1>3, <3>1
  <2> QED BY <1>4, <2>1
<1>7. BalanceOf(q) = BalanceOf(r)
  BY <1>4 DEF BalanceOf
<1>8. Sound(q)
  BY <1>4, <1>5, <1>6, <1>7 DEF Sound
<1> DEFINE f == [a \in Addrs |-> AccruedIn(r, a)]
           g == BalanceOf(r)
           h == [a \in Addrs |-> AccruedIn(q, a)]
<1>9. ASSUME NEW a \in Addrs
      PROVE  /\ f[a] \in Nat /\ g[a] \in Nat
             /\ h[a] = f[a] + d * g[a]
  <2> DEFINE b == r.holders[a].balance
             i == r.holders[a].index
             p == r.holders[a].pending_rewards
             x == r.global_index
  <2>1. /\ b \in Nat /\ i \in Nat /\ p \in Nat /\ x \in Nat
        /\ AccruedIn(r, a) \in Nat /\ AccruedIn(r, a) = (x - i) * b + p
    BY AccruedValue
  <2>2. AccruedIn(q, a) = ((x + d) - i) * b + p
    BY <1>4, <1>8, AccruedValue
  <2>3. f[a] = AccruedIn(r, a) /\ g[a] = b /\ h[a] = AccruedIn(q, a)
    BY DEF BalanceOf
  <2> HIDE DEF b, i, p, x, f, g, h
  <2>4. ((x + d) - i) * b + p = ((x - i) * b + p) + d * b
    BY <1>3, <2>1
  <2> QED BY <2>1, <2>2, <2>3, <2>4
<1>10. /\ SumFunction(f) = SumFunctionOnSet(f, Addrs)
       /\ SumFunction(g) = SumFunctionOnSet(g, Addrs)
       /\ SumFunction(h) = SumFunctionOnSet(h, Addrs)
  BY DEF SumFunction, BalanceOf
<1>11. t = SumFunction(g) /\ TotalIn(r) = SumFunction(f)
       /\ TotalIn(q) = SumFunction(h)
  BY DEF Sound, TotalIn
<1>12. IsFiniteSet(Addrs) /\ d \in Int
  BY <1>3, RewardAssumption
<1> HIDE DEF f, g, h
<1>13. \A a \in Addrs : /\ f[a] \in Int /\ g[a] \in Int
                        /\ h[a] = f[a] + d * g[a]
  BY <1>9
<1>14. SumFunctionOnSet(h, Addrs)
         = SumFunctionOnSet(f, Addrs) + d * SumFunctionOnSet(g, Addrs)
  BY <1>12, <1>13, SumLinear
<1>15. SumFunctionOnSet(f, Addrs) \in Int
  BY <1>12, <1>13, SumType
<1>16. TotalIn(q) = TotalIn(r) + d * t /\ TotalIn(r) \in Int
  BY <1>10, <1>11, <1>14, <1>15
<1>17. d * t \in Nat /\ c * ONE \in Nat
  BY <1>2, <1>3, OneType, ProductNat
<1>18. TotalIn(q) <= TotalIn(r) + c * ONE
  <2> HIDE DEF c, t
  <2> DEFINE m == d * t
             k == c * ONE
  <2>1. m \in Nat /\ k \in Nat /\ m <= k /\ TotalIn(q) = TotalIn(r) + m
    BY <1>3, <1>16, <1>17
  <2> HIDE DEF m, k
  <2>2. TotalIn(q) <= TotalIn(r) + k
    BY <1>16, <2>1
  <2> QED BY <2>2 DEF k
<1> QED BY <1>4, <1>8, <1>16, <1>18 DEF q, c, d, t

\* What leaves the account on a claim of n, the coins sent and the chain's
\* tax on them, is at most n: deduct_tax holds back enough.
LEMMA TaxCovered ==
    ASSUME NEW n \in Nat
    PROVE  /\ deduct_tax(n) \in Nat
           /\ chain_tax(deduct_tax(n)) \in Nat
           /\ deduct_tax(n) + chain_tax(deduct_tax(n)) <= n
<1> DEFINE D == ONE + TaxRate
           m == (n * ONE) \div D
<1>1. /\ TaxRate \in Nat /\ TaxCap \in Nat /\ ONE \in Nat \ {0}
      /\ D \in Nat \ {0} /\ n * ONE \in Nat
  BY RewardAssumption, OneType, ProductNat
<1>2. m \in Nat /\ m * D <= n * ONE
  <2> HIDE DEF D
  <2> QED BY <1>1, DivBounds
<1>3. m * D = m * ONE + m * TaxRate
  <2> HIDE DEF m
  <2> QED BY <1>1, <1>2
<1> HIDE DEF m, D
<1> DEFINE k == mul(m, TaxRate)
<1>4. k \in Nat /\ k * ONE <= m * TaxRate
  BY <1>1, <1>2, MulType, MulBound
<1> HIDE DEF k
<1>5. m * ONE \in Nat /\ m * TaxRate \in Nat /\ k * ONE \in Nat
  BY <1>1, <1>2, <1>4, ProductNat
<1>6. m * ONE + k * ONE <= n * ONE
  BY <1>1, <1>2, <1>3, <1>4, <1>5
<1>7. m + k <= n
  <2>1. SUFFICES ASSUME ~(m + k <= n) PROVE FALSE
    OBVIOUS
  <2>2. n + 1 <= m + k /\ n + 1 \in Nat /\ m + k \in Nat
    BY <1>2, <1>4, <2>1
  <2>3. (n + 1) * ONE <= (m + k) * ONE
    BY <1>1, <2>2, ProductMonotone
  <2>4. (n + 1) * ONE = n * ONE + ONE
    BY <1>1
  <2>5. (m + k) * ONE = m * ONE + k * ONE
    BY <1>1, <1>2, <1>4
  <2> QED BY <1>1, <1>5, <1>6, <2>3, <2>4, <2>5
<1>8. deduct_tax(n) = n - min(n - m, TaxCap)
  BY DEF deduct_tax, compute_tax, m, D
<1>9. CASE n - m <= TaxCap
  <2>1. deduct_tax(n) = m
    BY <1>1, <1>2, <1>8, <1>9 DEF min
  <2>2. chain_tax(m) \in Nat /\ chain_tax(m) <= k
    BY <1>1, <1>4 DEF chain_tax, min, k
  <2> QED BY <1>2, <1>4, <1>7, <2>1, <2>2
<1>10. CASE ~(n - m <= TaxCap)
  <2> DEFINE s == n - TaxCap
  <2>1. deduct_tax(n) = s /\ s \in Nat
    BY <1>1, <1>2, <1>8, <1>10 DEF min
  <2>2. mul(s, TaxRate) \in Nat
    BY <1>1, <2>1, MulType
  <2>3. chain_tax(s) \in Nat /\ chain_tax(s) <= TaxCap
    BY <1>1, <2>2 DEF chain_tax, min
  <2>4. s + chain_tax(s) <= n
    BY <1>1, <2>3
  <2> QED BY <2>1, <2>3, <2>4
<1> QED BY <1>9, <1>10

-----------------------------------------------------------------------------
(* Transactions.                                                           *)

\* A transaction that leaves index, account and accrued rewards alone.
AccruedSame ==
    /\ Sound(reward')
    /\ reward'.global_index = reward.global_index
    /\ reward'.prev_reward_balance = reward.prev_reward_balance
    /\ \A a \in Addrs : AccruedIn(reward', a) = AccruedIn(reward, a)

\* Tokens that move, in the token and at the reward contract.
LEMMA MoveFacts ==
    ASSUME TypeOK, Sound(reward), BalancesMirrored,
           NEW from \in Addrs, NEW to \in Addrs, NEW n \in Nat,
           move(from, to, n)
    PROVE  /\ AccruedSame
           /\ balances' \in [Addrs -> Nat]
           /\ total_supply' = total_supply
           /\ BalancesMirrored'
<1> DEFINE q == execute_decrease_balance(reward, from, n)
<1>1. decrease_ok(reward, from, n)
  BY DEF move, announce_move
<1>2. /\ Sound(q) /\ q.global_index = reward.global_index
      /\ q.prev_reward_balance = reward.prev_reward_balance
      /\ q.holders[from].balance = reward.holders[from].balance - n
      /\ \A b \in Addrs \ {from} :
            q.holders[b].balance = reward.holders[b].balance
      /\ \A b \in Addrs : AccruedIn(q, b) = AccruedIn(reward, b)
  BY <1>1, DecreaseSound
<1>3. reward' = execute_increase_balance(q, to, n)
  BY DEF move, announce_move
<1> HIDE DEF q
<1>4. /\ Sound(reward') /\ reward'.global_index = q.global_index
      /\ reward'.prev_reward_balance = q.prev_reward_balance
      /\ reward'.holders[to].balance = q.holders[to].balance + n
      /\ \A b \in Addrs \ {to} :
            reward'.holders[b].balance = q.holders[b].balance
      /\ \A b \in Addrs : AccruedIn(reward', b) = AccruedIn(q, b)
  BY <1>2, <1>3, IncreaseSound
<1>5. AccruedSame
  BY <1>2, <1>4 DEF AccruedSame
<1> DEFINE taken == [balances EXCEPT ![from] = @ - n]
<1>6. balances \in [Addrs -> Nat] /\ n <= balances[from]
      /\ total_supply' = total_supply
  BY DEF TypeOK, move
<1>7. /\ taken \in [Addrs -> Nat]
      /\ taken[from] = balances[from] - n
      /\ \A b \in Addrs \ {from} : taken[b] = balances[b]
  BY <1>6
<1>8. balances' = [taken EXCEPT ![to] = @ + n]
  BY DEF move, cw20_move
<1> HIDE DEF taken
<1>9. /\ balances' \in [Addrs -> Nat]
      /\ balances'[to] = taken[to] + n
      /\ \A b \in Addrs \ {to} : balances'[b] = taken[b]
  BY <1>7, <1>8
<1>10. \A b \in Addrs : /\ reward.holders[b].balance \in Nat
                        /\ InitialBalances[b] \in Nat
                        /\ q.holders[b].balance \in Nat
  BY <1>2, AccruedValue, RewardSystemAssumption
<1>11. \A b \in Addrs : taken[b] = q.holders[b].balance + InitialBalances[b]
  BY <1>2, <1>7, <1>10 DEF BalancesMirrored
<1>12. \A b \in Addrs :
          balances'[b] = reward'.holders[b].balance + InitialBalances[b]
  BY <1>4, <1>9, <1>10, <1>11
<1> QED BY <1>5, <1>6, <1>9, <1>12 DEF BalancesMirrored

\* Tokens that are burnt by their holder.
LEMMA BurnFacts ==
    ASSUME TypeOK, Sound(reward), BalancesMirrored,
           NEW from \in Addrs, NEW n \in Nat, burn(from, n)
    PROVE  /\ AccruedSame
           /\ balances' \in [Addrs -> Nat]
           /\ total_supply' = total_supply - n
           /\ BalancesMirrored'
<1>1. decrease_ok(reward, from, n)
      /\ reward' = execute_decrease_balance(reward, from, n)
  BY DEF burn, announce_burn
<1>2. /\ AccruedSame
      /\ reward'.holders[from].balance = reward.holders[from].balance - n
      /\ \A b \in Addrs \ {from} :
            reward'.holders[b].balance = reward.holders[b].balance
  BY <1>1, DecreaseSound DEF AccruedSame
<1>3. /\ balances \in [Addrs -> Nat] /\ n <= balances[from]
      /\ balances' = [balances EXCEPT ![from] = @ - n]
      /\ total_supply' = total_supply - n
  BY DEF TypeOK, burn
<1>4. /\ balances' \in [Addrs -> Nat]
      /\ balances'[from] = balances[from] - n
      /\ \A b \in Addrs \ {from} : balances'[b] = balances[b]
  BY <1>3
<1>5. \A b \in Addrs : /\ reward.holders[b].balance \in Nat
                       /\ InitialBalances[b] \in Nat
  BY AccruedValue, RewardSystemAssumption
<1>6. \A b \in Addrs :
          balances'[b] = reward'.holders[b].balance + InitialBalances[b]
  BY <1>2, <1>4, <1>5 DEF BalancesMirrored
<1> QED BY <1>2, <1>3, <1>4, <1>6 DEF BalancesMirrored

\* Tokens that are sent to the hub and burnt there: the hub's own balance is
\* what it was.
LEMMA UnbondFacts ==
    ASSUME TypeOK, Sound(reward), BalancesMirrored,
           NEW from \in Users, NEW n \in Nat, unbond(from, n)
    PROVE  /\ AccruedSame
           /\ balances' = [balances EXCEPT ![from] = @ - n]
           /\ n <= balances[from]
           /\ total_supply' = total_supply - n
           /\ BalancesMirrored'
<1> DEFINE q == execute_decrease_balance(reward, from, n)
           p == execute_increase_balance(q, HubAddr, n)
<1>1. from \in Addrs /\ HubAddr \in Addrs /\ from # HubAddr
  BY RewardSystemAssumption
<1>2. /\ decrease_ok(reward, from, n) /\ decrease_ok(p, HubAddr, n)
      /\ reward' = execute_decrease_balance(p, HubAddr, n)
      /\ balances' = [balances EXCEPT ![from] = @ - n]
      /\ n <= balances[from] /\ total_supply' = total_supply - n
  BY DEF unbond
<1>3. /\ Sound(q) /\ q.global_index = reward.global_index
      /\ q.prev_reward_balance = reward.prev_reward_balance
      /\ q.holders[from].balance = reward.holders[from].balance - n
      /\ \A b \in Addrs \ {from} :
            q.holders[b].balance = reward.holders[b].balance
      /\ \A b \in Addrs : AccruedIn(q, b) = AccruedIn(reward, b)
  BY <1>1, <1>2, DecreaseSound
<1> HIDE DEF q
<1>4. /\ Sound(p) /\ p.global_index = q.global_index
      /\ p.prev_reward_balance = q.prev_reward_balance
      /\ p.holders[HubAddr].balance = q.holders[HubAddr].balance + n
      /\ \A b \in Addrs \ {HubAddr} :
            p.holders[b].balance = q.holders[b].balance
      /\ \A b \in Addrs : AccruedIn(p, b) = AccruedIn(q, b)
  BY <1>1, <1>3, IncreaseSound
<1> HIDE DEF p
<1>5. /\ Sound(reward') /\ reward'.global_index = p.global_index
      /\ reward'.prev_reward_balance = p.prev_reward_balance
      /\ reward'.holders[HubAddr].balance = p.holders[HubAddr].balance - n
      /\ \A b \in Addrs \ {HubAddr} :
            reward'.holders[b].balance = p.holders[b].balance
      /\ \A b \in Addrs : AccruedIn(reward', b) = AccruedIn(p, b)
  BY <1>1, <1>2, <1>4, DecreaseSound
<1>6. AccruedSame
  BY <1>3, <1>4, <1>5 DEF AccruedSame
<1>7. \A b \in Addrs : /\ reward.holders[b].balance \in Nat
                       /\ InitialBalances[b] \in Nat
                       /\ q.holders[b].balance \in Nat
  BY <1>3, AccruedValue, RewardSystemAssumption
<1>8. \A b \in Addrs : reward'.holders[b].balance = q.holders[b].balance
  BY <1>1, <1>4, <1>5, <1>7
<1>9. /\ balances'[from] = balances[from] - n
      /\ \A b \in Addrs \ {from} : balances'[b] = balances[b]
  BY <1>1, <1>2 DEF TypeOK
<1>10. \A b \in Addrs :
          balances'[b] = reward'.holders[b].balance + InitialBalances[b]
  BY <1>3, <1>7, <1>8, <1>9 DEF BalancesMirrored
<1> QED BY <1>2, <1>6, <1>10 DEF BalancesMirrored

-----------------------------------------------------------------------------
(* The token's supply.  Burns subtract from it: that it stays a natural    *)
(* number follows from its being the sum of the balances.                  *)

SupplyAddsUp == total_supply = SumFunction(balances)

\* One balance changes and the sum of the balances with it.
LEMMA SumChanged ==
    ASSUME NEW f \in [Addrs -> Nat], NEW a \in Addrs, NEW v \in Nat
    PROVE  /\ [f EXCEPT ![a] = v] \in [Addrs -> Nat]
           /\ SumFunction([f EXCEPT ![a] = v]) = (SumFunction(f) - f[a]) + v
           /\ SumFunction(f) \in Nat
           /\ SumFunction([f EXCEPT ![a] = v]) \in Nat
<1> DEFINE g == [f EXCEPT ![a] = v]
<1>1. IsFiniteSet(Addrs)
  BY RewardAssumption
<1>2. g \in [Addrs -> Nat] /\ g[a] = v /\ \A b \in Addrs \ {a} : g[b] = f[b]
  OBVIOUS
<1> HIDE DEF g
<1>3. SumFunction(g) = (SumFunction(f) - f[a]) + g[a]
  BY <1>1, <1>2, SumFunctionUpdate
<1>4. \A e \in [Addrs -> Nat] : SumFunction(e) \in Nat
  <2> TAKE e \in [Addrs -> Nat]
  <2>1. IsFiniteSet(DOMAIN e) /\ \A x \in DOMAIN e : e[x] \in Nat
    BY <1>1
  <2> QED BY <2>1, SumFunctionType
<1>5. SumFunction(g) \in Nat /\ SumFunction(f) \in Nat
  BY <1>2, <1>4
<1> QED BY <1>2, <1>3, <1>5 DEF g

\* A move keeps the sum of the balances.
LEMMA MoveKeepsSum ==
    ASSUME NEW f \in [Addrs -> Nat], NEW from \in Addrs, NEW to \in Addrs,
           NEW n \in Nat, n <= f[from]
    PROVE  SumFunction(cw20_move(f, from, to, n)) = SumFunction(f)
<1> DEFINE taken == [f EXCEPT ![from] = f[from] - n]
<1>1. f[from] - n \in Nat /\ f[from] \in Nat
  OBVIOUS
<1>2. /\ taken \in [Addrs -> Nat]
      /\ SumFunction(taken) = (SumFunction(f) - f[from]) + (f[from] - n)
      /\ SumFunction(f) \in Nat /\ SumFunction(taken) \in Nat
  BY <1>1, SumChanged
<1>3. cw20_move(f, from, to, n) = [taken EXCEPT ![to] = taken[to] + n]
  BY DEF cw20_move
<1> HIDE DEF taken
<1>4. taken[to] \in Nat /\ taken[to] + n \in Nat
  BY <1>2
<1> DEFINE w == cw20_move(f, from, to, n)
<1>5. /\ w \in [Addrs -> Nat] /\ w[to] = taken[to] + n
      /\ \A b \in Addrs \ {to} : w[b] = taken[b]
  BY <1>2, <1>3, <1>4
<1> HIDE DEF w
<1>6. IsFiniteSet(Addrs)
  BY RewardAssumption
<1>7. SumFunction(w) = (SumFunction(taken) - taken[to]) + w[to]
  BY <1>2, <1>5, <1>6, SumFunctionUpdate
<1>8. SumFunction(w) = SumFunction(f)
  BY <1>1, <1>2, <1>4, <1>5, <1>7
<1> QED BY <1>8 DEF w

\* A burn takes the burnt amount from the sum of the balances.
LEMMA BurnKeepsSum ==
    ASSUME NEW f \in [Addrs -> Nat], NEW from \in Addrs,
           NEW n \in Nat, n <= f[from]
    PROVE  /\ [f EXCEPT ![from] = @ - n] \in [Addrs -> Nat]
           /\ SumFunction([f EXCEPT ![from] = @ - n]) = SumFunction(f) - n
           /\ SumFunction(f) - n \in Nat
<1> DEFINE g == [f EXCEPT ![from] = f[from] - n]
<1>1. f[from] - n \in Nat /\ f[from] \in Nat
  OBVIOUS
<1>2. /\ g \in [Addrs -> Nat]
      /\ SumFunction(g) = (SumFunction(f) - f[from]) + (f[from] - n)
      /\ SumFunction(f) \in Nat /\ SumFunction(g) \in Nat
  BY <1>1, SumChanged
<1>3. g = [f EXCEPT ![from] = @ - n]
  OBVIOUS
<1> HIDE DEF g
<1>4. SumFunction(g) = SumFunction(f) - n
  BY <1>1, <1>2
<1> QED BY <1>2, <1>3, <1>4

-----------------------------------------------------------------------------
(* The invariant of the system.                                            *)

RewardInv ==
    /\ TypeOK
    /\ IndexConsistent
    /\ BalancesMirrored
    /\ SupplyAddsUp
    /\ Solvent

\* The invariant gives sound storage, and what is accrued is a natural number.
LEMMA InvSound ==
    ASSUME RewardInv
    PROVE  Sound(reward) /\ TotalAccrued = TotalIn(reward)
BY DEF RewardInv, TypeOK, IndexConsistent, Sound, BalanceOf, TotalAccrued,
       Accrued, TotalIn, AccruedIn

\* Sound storage after a step is what the invariant says of it.
LEMMA SoundNext ==
    ASSUME Sound(reward')
    PROVE  /\ reward' \in RewardStorage
           /\ IndexConsistent'
           /\ TotalAccrued' = TotalIn(reward')
BY DEF IndexConsistent, Sound, BalanceOf, TotalAccrued, Accrued, TotalIn,
       AccruedIn

\* The sum of what is accrued is a natural number.
LEMMA TotalType ==
    ASSUME NEW r, Sound(r)
    PROVE  /\ TotalIn(r) \in Nat
           /\ [a \in Addrs |-> AccruedIn(r, a)] \in [Addrs -> Nat]
<1> DEFINE f == [a \in Addrs |-> AccruedIn(r, a)]
<1>1. f \in [Addrs -> Nat]
  BY AccruedValue
<1>2. IsFiniteSet(Addrs)
  BY RewardAssumption
<1>3. SumFunction(f) \in Nat
  <2> HIDE DEF f
  <2>1. IsFiniteSet(DOMAIN f) /\ \A x \in DOMAIN f : f[x] \in Nat
    BY <1>1, <1>2
  <2> QED BY <2>1, SumFunctionType
<1> QED BY <1>1, <1>3 DEF TotalIn

\* A token transaction keeps the invariant when the token's books do.
LEMMA AccruedSameKeeps ==
    ASSUME RewardInv, AccruedSame, bank' = bank
    PROVE  /\ reward' \in RewardStorage
           /\ IndexConsistent'
           /\ Solvent'
<1>1. Sound(reward') /\ Sound(reward) /\ TotalAccrued = TotalIn(reward)
  BY InvSound DEF AccruedSame
<1>2. /\ reward' \in RewardStorage /\ IndexConsistent'
      /\ TotalAccrued' = TotalIn(reward')
  BY <1>1, SoundNext
<1>3. [a \in Addrs |-> AccruedIn(reward', a)]
        = [a \in Addrs |-> AccruedIn(reward, a)]
  BY DEF AccruedSame
<1>4. TotalIn(reward') = TotalIn(reward)
  BY <1>3 DEF TotalIn
<1>5. Solvent'
  BY <1>1, <1>2, <1>4 DEF RewardInv, Solvent, AccruedSame
<1> QED BY <1>2, <1>5

\* The sum of a function that is zero everywhere.
LEMMA SumOfZeros == SumFunction([a \in Addrs |-> 0]) = 0
BY RewardAssumption, SumZero

\* The invariant holds when the contracts are instantiated.
LEMMA RewardInitInv == Init => RewardInv
<1> SUFFICES ASSUME Init PROVE RewardInv
  OBVIOUS
<1>1. /\ reward = reward_init /\ balances = InitialBalances
      /\ total_supply = SumFunction(InitialBalances)
      /\ allowances = [p \in Users \X Users |-> 0]
      /\ registered = FALSE /\ bank = 0 /\ other = 0 /\ arrivals = 0
  BY DEF Init
<1>2. /\ reward.global_index = 0 /\ reward.total_balance = 0
      /\ reward.prev_reward_balance = 0
      /\ reward.holders = [a \in Addrs |->
              [balance |-> 0, index |-> 0, pending_rewards |-> 0]]
  BY <1>1 DEF reward_init
<1>3. reward \in RewardStorage
  <2>1. [balance |-> 0, index |-> 0, pending_rewards |-> 0] \in Holder
    BY DEF Holder
  <2> QED BY <1>1, <2>1 DEF RewardStorage, reward_init
<1>4. \A a \in Addrs : /\ reward.holders[a].balance = 0
                       /\ reward.holders[a].index = 0
                       /\ reward.holders[a].pending_rewards = 0
  BY <1>2
<1>5. SumFunction(InitialBalances) \in Nat
  <2>1. InitialBalances \in [Addrs -> Nat]
    BY RewardSystemAssumption
  <2>2. IsFiniteSet(Addrs)
    BY RewardAssumption
  <2>3. IsFiniteSet(DOMAIN InitialBalances)
        /\ \A x \in DOMAIN InitialBalances : InitialBalances[x] \in Nat
    BY <2>1, <2>2
  <2> QED BY <2>3, SumFunctionType
<1>6. TypeOK
  BY <1>1, <1>3, <1>5, RewardSystemAssumption DEF TypeOK
<1>7. IndexConsistent
  <2>1. [a \in Addrs |-> reward.holders[a].balance] = [a \in Addrs |-> 0]
    BY <1>4
  <2> QED BY <1>2, <1>4, <2>1, SumOfZeros DEF IndexConsistent
<1>8. BalancesMirrored
  BY <1>1, <1>4, RewardSystemAssumption DEF BalancesMirrored
<1>9. SupplyAddsUp
  BY <1>1 DEF SupplyAddsUp
<1>10. Solvent
  <2>1. Sound(reward)
    BY <1>3, <1>7 DEF IndexConsistent, Sound, BalanceOf
  <2>2. \A a \in Addrs : AccruedIn(reward, a) = 0
    BY <1>2, <1>4, <2>1, AccruedValue
  <2>3. [a \in Addrs |-> Accrued(a)] = [a \in Addrs |-> 0]
    BY <2>2 DEF Accrued, AccruedIn
  <2>4. TotalAccrued = 0
    BY <2>3, SumOfZeros DEF TotalAccrued
  <2> QED BY <1>1, <1>2, <2>4, OneType DEF Solvent
<1> QED BY <1>6, <1>7, <1>8, <1>9, <1>10 DEF RewardInv

-----------------------------------------------------------------------------
(* Each transaction keeps the invariant.                                   *)

\* No coins of reward_denom move; others may arrive.
AccountKept == bank' = bank /\ other' \in Nat /\ arrivals' \in Nat

\* The account after a transaction that does not touch it.
LEMMA AccountUntouched ==
    ASSUME RewardInv, UNCHANGED bankVars
    PROVE  AccountKept
BY DEF RewardInv, TypeOK, bankVars, AccountKept

\* The account after the chain paid out staking rewards.
LEMMA AccountPaid ==
    ASSUME RewardInv, NEW p \in Rewards, pay_out(p)
    PROVE  AccountKept
BY RewardSystemAssumption DEF RewardInv, TypeOK, pay_out, AccountKept

\* A token transaction that keeps what is accrued, with the token's books in
\* order and no coins of reward_denom moved.
LEMMA TokenStep ==
    ASSUME RewardInv, AccruedSame, BalancesMirrored',
           balances' \in [Addrs -> Nat], total_supply' \in Nat,
           total_supply' = SumFunction(balances'),
           allowances' \in [Users \X Users -> Nat],
           registered' = registered, AccountKept
    PROVE  RewardInv'
<1>1. /\ registered' = registered /\ bank' = bank /\ other' \in Nat
      /\ arrivals' \in Nat
  BY DEF AccountKept
<1>2. reward' \in RewardStorage /\ IndexConsistent' /\ Solvent'
  BY <1>1, AccruedSameKeeps
<1>3. TypeOK'
  BY <1>1, <1>2 DEF RewardInv, TypeOK
<1> QED BY <1>2, <1>3 DEF RewardInv, SupplyAddsUp

\* The books of the token after a move.
LEMMA MoveStep ==
    ASSUME RewardInv, NEW from \in Addrs, NEW to \in Addrs, NEW n \in Nat,
           move(from, to, n), allowances' \in [Users \X Users -> Nat],
           registered' = registered, AccountKept
    PROVE  RewardInv' /\ AccruedSame
<1>1. TypeOK /\ BalancesMirrored /\ SupplyAddsUp /\ Sound(reward)
  BY InvSound DEF RewardInv
<1>2. /\ AccruedSame /\ balances' \in [Addrs -> Nat]
      /\ total_supply' = total_supply /\ BalancesMirrored'
  BY <1>1, MoveFacts
<1>3. /\ balances \in [Addrs -> Nat] /\ n <= balances[from]
      /\ balances' = cw20_move(balances, from, to, n)
      /\ total_supply \in Nat
  BY <1>1 DEF move, TypeOK
<1>4. SumFunction(balances') = SumFunction(balances)
  BY <1>3, MoveKeepsSum
<1> QED BY <1>1, <1>2, <1>3, <1>4, TokenStep DEF SupplyAddsUp

\* The books of the token after a burn or an unbond.
LEMMA BurnStep ==
    ASSUME RewardInv, NEW from \in Users, NEW n \in Nat,
           burn(from, n) \/ unbond(from, n),
           allowances' \in [Users \X Users -> Nat],
           registered' = registered, AccountKept
    PROVE  RewardInv' /\ AccruedSame
<1>1. TypeOK /\ BalancesMirrored /\ SupplyAddsUp /\ Sound(reward)
      /\ from \in Addrs
  BY InvSound, RewardSystemAssumption DEF RewardInv
<1>2. /\ AccruedSame /\ BalancesMirrored'
      /\ total_supply' = total_supply - n
      /\ balances' = [balances EXCEPT ![from] = @ - n]
      /\ n <= balances[from]
  <2>1. CASE burn(from, n)
    BY <1>1, <2>1, BurnFacts DEF burn
  <2>2. CASE unbond(from, n)
    BY <1>1, <2>2, UnbondFacts
  <2> QED BY <2>1, <2>2
<1>3. balances \in [Addrs -> Nat]
  BY <1>1 DEF TypeOK
<1>4. /\ balances' \in [Addrs -> Nat]
      /\ SumFunction(balances') = SumFunction(balances) - n
      /\ SumFunction(balances) - n \in Nat
  BY <1>1, <1>2, <1>3, BurnKeepsSum
<1> QED BY <1>1, <1>2, <1>4, TokenStep DEF SupplyAddsUp

\* The books of the token after a mint.
LEMMA MintStep ==
    ASSUME RewardInv, NEW to \in Users, NEW n \in Amounts, NEW p \in Rewards,
           Mint(to, n, p)
    PROVE  RewardInv' /\ AccruedSame
<1>1. /\ TypeOK /\ BalancesMirrored /\ SupplyAddsUp /\ Sound(reward)
      /\ to \in Addrs /\ n \in Nat
  BY InvSound, RewardSystemAssumption DEF RewardInv
<1>2. /\ balances' = [balances EXCEPT ![to] = @ + n]
      /\ total_supply' = total_supply + n
      /\ reward' = execute_increase_balance(reward, to, n)
      /\ allowances' = allowances
      /\ registered' = registered /\ AccountKept
  BY AccountPaid DEF Mint
<1>3. /\ AccruedSame
      /\ reward'.holders[to].balance = reward.holders[to].balance + n
      /\ \A b \in Addrs \ {to} :
            reward'.holders[b].balance = reward.holders[b].balance
  BY <1>1, <1>2, IncreaseSound DEF AccruedSame
<1>4. /\ balances \in [Addrs -> Nat] /\ total_supply \in Nat
      /\ allowances \in [Users \X Users -> Nat]
  BY <1>1 DEF TypeOK
<1>5. /\ balances' \in [Addrs -> Nat]
      /\ balances'[to] = balances[to] + n
      /\ \A b \in Addrs \ {to} : balances'[b] = balances[b]
  BY <1>1, <1>2, <1>4
<1>6. \A b \in Addrs : /\ reward.holders[b].balance \in Nat
                       /\ InitialBalances[b] \in Nat
  BY <1>1, AccruedValue, RewardSystemAssumption
<1>7. \A b \in Addrs :
          balances'[b] = reward'.holders[b].balance + InitialBalances[b]
  BY <1>1, <1>3, <1>5, <1>6 DEF BalancesMirrored
<1>8. IsFiniteSet(Addrs)
  BY RewardAssumption
<1>9. SumFunction(balances')
        = (SumFunction(balances) - balances[to]) + balances'[to]
  BY <1>1, <1>4, <1>5, <1>8, SumFunctionUpdate
<1>10. total_supply' = SumFunction(balances') /\ total_supply' \in Nat
  BY <1>1, <1>2, <1>4, <1>5, <1>9 DEF SupplyAddsUp
<1>11. BalancesMirrored'
  BY <1>7 DEF BalancesMirrored
<1> QED BY <1>2, <1>3, <1>4, <1>5, <1>10, <1>11, TokenStep

\* Steps that touch neither the reward contract's storage nor the tokens, and
\* take no coins from the account.
LEMMA QuietStep ==
    ASSUME RewardInv, UNCHANGED <<reward, balances, total_supply>>,
           allowances' \in [Users \X Users -> Nat], registered' \in BOOLEAN,
           bank' \in Nat, bank <= bank', other' \in Nat, arrivals' \in Nat
    PROVE  RewardInv' /\ AccruedSame
<1>1. reward' = reward /\ balances' = balances /\ total_supply' = total_supply
  OBVIOUS
<1>2. Sound(reward') /\ AccruedSame
  BY <1>1, InvSound DEF AccruedSame
<1>3. TypeOK'
  BY <1>1 DEF RewardInv, TypeOK
<1>4. IndexConsistent' /\ BalancesMirrored' /\ SupplyAddsUp'
  BY <1>1 DEF RewardInv, IndexConsistent, BalancesMirrored, SupplyAddsUp
<1>5. TotalAccrued' = TotalAccrued
  BY <1>1 DEF TotalAccrued, Accrued
<1>6. Solvent'
  <2>1. reward.prev_reward_balance \in Nat /\ bank \in Nat
    BY DEF RewardInv, TypeOK, RewardStorage
  <2>2. /\ TotalAccrued <= reward.prev_reward_balance * ONE
        /\ reward.prev_reward_balance <= bank
    BY DEF RewardInv, Solvent
  <2>3. reward'.prev_reward_balance <= bank'
    BY <1>1, <2>1, <2>2
  <2> QED BY <1>1, <1>5, <2>2, <2>3 DEF Solvent
<1> QED BY <1>2, <1>3, <1>4, <1>6 DEF RewardInv

\* What is accrued drops by what a claim pays, and so does the recorded
\* balance; the account pays no more than that (TaxCovered).
LEMMA ClaimStep ==
    ASSUME RewardInv, NEW h \in Users, NEW to \in Addrs, ClaimRewards(h, to)
    PROVE  /\ RewardInv'
           /\ reward'.global_index = reward.global_index
           /\ \A b \in Addrs \ {h} : AccruedIn(reward', b) = AccruedIn(reward, b)
           /\ AccruedIn(reward, h) - AccruedIn(reward', h)
                = (reward.prev_reward_balance - reward'.prev_reward_balance)
                    * ONE
           /\ reward'.prev_reward_balance <= reward.prev_reward_balance
           /\ Unshared' = Unshared
<1> DEFINE w == rewards_of(reward, reward.holders[h])
           sent == deduct_tax(w)
           tax == chain_tax(sent)
           P == reward.prev_reward_balance
           T == TotalIn(reward)
<1>1. /\ TypeOK /\ Sound(reward) /\ TotalAccrued = T /\ h \in Addrs
      /\ T <= P * ONE /\ P <= bank /\ bank \in Nat /\ P \in Nat /\ T \in Nat
      /\ ONE \in Nat
  <2>1. Sound(reward) /\ TotalAccrued = T /\ h \in Addrs
    BY InvSound, RewardSystemAssumption
  <2>2. T \in Nat /\ P \in Nat
    BY <2>1, TotalType, AccruedValue
  <2> QED BY <2>1, <2>2, OneType DEF RewardInv, Solvent, TypeOK
<1>2. /\ claim_ok(reward, h) /\ sent + tax <= bank
      /\ reward' = execute_claim_rewards(reward, h)
      /\ bank' = bank - sent - tax + IF to = RewardAddr THEN sent ELSE 0
      /\ arrivals' = arrivals + IF to = RewardAddr THEN sent ELSE 0
      /\ UNCHANGED <<tokenVars, registered, other>>
  BY DEF ClaimRewards
<1>3. w <= P
  BY <1>2 DEF claim_ok
<1>4. /\ Sound(reward') /\ w \in Nat
      /\ reward'.global_index = reward.global_index
      /\ reward'.prev_reward_balance = P - w
      /\ \A b \in Addrs :
            reward'.holders[b].balance = reward.holders[b].balance
      /\ AccruedIn(reward', h) = AccruedIn(reward, h) - w * ONE
      /\ \A b \in Addrs \ {h} : AccruedIn(reward', b) = AccruedIn(reward, b)
  BY <1>1, <1>2, ClaimSound
<1>5. sent \in Nat /\ tax \in Nat /\ sent + tax <= w
  <2> HIDE DEF w
  <2> QED BY <1>4, TaxCovered
<1> HIDE DEF w, sent, tax
<1>6. bank' \in Nat /\ P - w <= bank'
  BY <1>1, <1>2, <1>3, <1>4, <1>5
<1> DEFINE f == [a \in Addrs |-> AccruedIn(reward, a)]
           g == [a \in Addrs |-> AccruedIn(reward', a)]
<1>7. TotalIn(reward') = T - w * ONE
  <2>1. f \in [Addrs -> Nat] /\ g \in [Addrs -> Nat]
    BY <1>1, <1>4, TotalType
  <2>2. /\ \A b \in Addrs \ {h} : g[b] = f[b]
        /\ g[h] = f[h] - w * ONE
    BY <1>1, <1>4
  <2>3. TotalIn(reward') = SumFunction(g) /\ T = SumFunction(f)
    BY DEF TotalIn
  <2>4. IsFiniteSet(Addrs)
    BY RewardAssumption
  <2> HIDE DEF f, g, T
  <2>5. SumFunction(g) = (SumFunction(f) - f[h]) + g[h]
    BY <1>1, <2>1, <2>2, <2>4, SumFunctionUpdate
  <2>6. w * ONE \in Nat /\ f[h] \in Nat
    BY <1>1, <1>4, <2>1, ProductNat
  <2>7. \A t, x, y \in Int : (t - x) + (x - y) = t - y
    OBVIOUS
  <2>8. T \in Int /\ f[h] \in Int /\ w * ONE \in Int
    BY <1>1, <2>6
  <2> QED BY <2>2, <2>3, <2>5, <2>7, <2>8
<1>8. (P - w) * ONE = P * ONE - w * ONE
  <2> HIDE DEF P
  <2> QED BY <1>1, <1>4
<1>9. /\ reward' \in RewardStorage /\ IndexConsistent'
      /\ TotalAccrued' = TotalIn(reward')
  BY <1>4, SoundNext
<1>10. Solvent'
  <2>1. T - w * ONE <= P * ONE - w * ONE
    <3>1. w * ONE \in Nat /\ P * ONE \in Nat
      BY <1>1, <1>4, ProductNat
    <3> HIDE DEF T, P
    <3> QED BY <1>1, <3>1
  <2> QED BY <1>4, <1>6, <1>7, <1>8, <1>9, <2>1 DEF Solvent
<1>11. TypeOK'
  BY <1>1, <1>2, <1>5, <1>6, <1>9 DEF TypeOK, tokenVars
<1>12. BalancesMirrored' /\ SupplyAddsUp'
  BY <1>2, <1>4
     DEF RewardInv, BalancesMirrored, SupplyAddsUp, tokenVars
<1>13. AccruedIn(reward, h) - AccruedIn(reward', h)
         = (P - reward'.prev_reward_balance) * ONE
  <2> DEFINE v == AccruedIn(reward, h)
             u == AccruedIn(reward', h)
  <2>1. v \in Nat /\ w * ONE \in Nat
    BY <1>1, <1>4, AccruedValue, ProductNat
  <2>2. u = v - w * ONE
    BY <1>4
  <2> HIDE DEF u, v
  <2>3. v - u = w * ONE
    BY <2>1, <2>2
  <2>4. P - reward'.prev_reward_balance = w
    BY <1>1, <1>4
  <2> QED BY <2>3, <2>4 DEF u, v
<1>14. Unshared' = Unshared
  <2>1. Unshared' = (P * ONE - w * ONE) - (T - w * ONE)
    BY <1>4, <1>7, <1>8, <1>9 DEF Unshared
  <2>2. Unshared = P * ONE - T
    BY <1>1 DEF Unshared
  <2>3. P * ONE \in Nat /\ w * ONE \in Nat
    BY <1>1, <1>4, ProductNat
  <2>4. \A x, y, z \in Int : (x - y) - (z - y) = x - z
    OBVIOUS
  <2> HIDE DEF T, P
  <2> QED BY <1>1, <2>1, <2>2, <2>3, <2>4
<1>15. reward'.prev_reward_balance <= P
  BY <1>1, <1>3, <1>4
<1> QED BY <1>4, <1>9, <1>10, <1>11, <1>12, <1>13, <1>14, <1>15
        DEF RewardInv

\* An index update records the account's balance and shares out no more than
\* arrived (UpdateSound), and all of it but the rest of one division.
LEMMA UpdateStep ==
    ASSUME RewardInv, NEW x \in Nat, NEW y \in execute_swap(other + x),
           UpdateGlobalIndex(x, y)
    PROVE  RewardInv' /\ SharedStep
<1> DEFINE B == bank + y
           P == reward.prev_reward_balance
           T == TotalIn(reward)
<1>1. /\ TypeOK /\ Sound(reward) /\ TotalAccrued = T
      /\ T <= P * ONE /\ P <= bank /\ bank \in Nat /\ arrivals \in Nat
  BY InvSound DEF RewardInv, Solvent, TypeOK
<1>2. y \in Nat /\ B \in Nat
  BY <1>1 DEF execute_swap, TypeOK
<1>3. /\ update_ok(reward, B) /\ bank' = B /\ other' = 0
      /\ arrivals' = arrivals + x
      /\ reward' = execute_update_global_index(reward, B)
      /\ UNCHANGED <<tokenVars, registered>>
  BY DEF UpdateGlobalIndex
<1> HIDE DEF B
<1>4. /\ Sound(reward') /\ reward'.prev_reward_balance = B
      /\ \A a \in Addrs :
            reward'.holders[a].balance = reward.holders[a].balance
      /\ TotalIn(reward') <= T + (B - P) * ONE
  BY <1>1, <1>2, <1>3, UpdateSound
<1>5. /\ reward' \in RewardStorage /\ IndexConsistent'
      /\ TotalAccrued' = TotalIn(reward')
  BY <1>4, SoundNext
<1>6. /\ P \in Nat /\ T \in Nat /\ TotalIn(reward') \in Nat /\ ONE \in Nat
  <2>1. P \in Nat
    BY <1>1 DEF Sound, RewardStorage
  <2> QED BY <1>1, <1>4, <2>1, TotalType, OneType
<1>7. TotalIn(reward') <= B * ONE
  <2> DEFINE N == TotalIn(reward')
  <2>1. (B - P) * ONE = B * ONE - P * ONE
    <3> HIDE DEF P
    <3> QED BY <1>2, <1>6
  <2>2. B * ONE \in Nat /\ P * ONE \in Nat
    BY <1>2, <1>6, ProductNat
  <2>3. N \in Nat /\ N <= T + (B * ONE - P * ONE)
    BY <1>4, <1>6, <2>1
  <2> HIDE DEF N, T, P
  <2>4. N <= B * ONE
    BY <1>1, <1>6, <2>2, <2>3
  <2> QED BY <2>4 DEF N
<1>8. Solvent'
  BY <1>2, <1>3, <1>4, <1>5, <1>7 DEF Solvent
<1>9. TypeOK'
  BY <1>1, <1>2, <1>3, <1>5 DEF TypeOK, tokenVars
<1>10. BalancesMirrored' /\ SupplyAddsUp'
  BY <1>3, <1>4
     DEF RewardInv, BalancesMirrored, SupplyAddsUp, tokenVars
<1> DEFINE t == reward.total_balance
           d == from_ratio(B - P, t)
<1>11. /\ t \in Nat \ {0} /\ B - P \in Nat /\ d \in Nat
       /\ TotalIn(reward') = T + d * t
       /\ reward'.global_index = reward.global_index + d
  <2>1. t \in Nat \ {0} /\ B - P \in Nat
    BY <1>1, <1>2, <1>3, <1>6 DEF update_ok, Sound, RewardStorage
  <2>2. d \in Nat
    <3> HIDE DEF t, P
    <3> QED BY <2>1, FromRatioType
  <2>3. TotalIn(reward') = T + d * t
    BY <1>1, <1>2, <1>3, UpdateSound
  <2>4. reward'.global_index = reward.global_index + d
    BY <1>3 DEF execute_update_global_index
  <2> QED BY <2>1, <2>2, <2>3, <2>4
<1>12. (B - P) * ONE < d * t + t
  <2> HIDE DEF t, P
  <2> QED BY <1>11, FromRatioRest
<1>13. Unshared' - Unshared = (B - P) * ONE - d * t
  <2>1. Unshared' = B * ONE - (T + d * t) /\ Unshared = P * ONE - T
    BY <1>1, <1>4, <1>5, <1>11 DEF Unshared
  <2> HIDE DEF d, t, P, T
  <2>2. B * ONE \in Nat /\ P * ONE \in Nat /\ d * t \in Nat
    BY <1>2, <1>6, <1>11, ProductNat
  <2>3. (B - P) * ONE = B * ONE - P * ONE
    BY <1>2, <1>6
  <2>4. \A b, p, e, z \in Int : (b - (z + e)) - (p - z) = (b - p) - e
    OBVIOUS
  <2> QED BY <1>6, <2>1, <2>2, <2>3, <2>4
<1>14. Unshared' - Unshared <= t - 1
  <2> HIDE DEF d, t, P
  <2>1. (B - P) * ONE \in Nat /\ d * t \in Nat
    BY <1>6, <1>11, ProductNat
  <2>2. \A k, e, z \in Int : k < e + z => k - e <= z - 1
    OBVIOUS
  <2>3. (B - P) * ONE - d * t <= t - 1
    BY <1>11, <1>12, <2>1, <2>2
  <2> QED BY <1>13, <2>3
<1>15. ASSUME reward'.global_index = reward.global_index,
              reward'.prev_reward_balance <= reward.prev_reward_balance
       PROVE  Unshared' - Unshared <= 0
  <2>1. B - P = 0
    BY <1>2, <1>4, <1>6, <1>11, <1>15
  <2>2. d = 0
    <3>1. reward.global_index \in Nat
      BY <1>1 DEF Sound, RewardStorage
    <3> HIDE DEF d
    <3> QED BY <1>11, <1>15, <3>1
  <2> HIDE DEF d, t, P
  <2>3. (B - P) * ONE = 0 /\ d * t = 0
    BY <1>6, <1>11, <2>1, <2>2
  <2> QED BY <1>13, <2>3
<1>16. SharedStep
  BY <1>14, <1>15 DEF SharedStep, t
<1> QED BY <1>5, <1>8, <1>9, <1>10, <1>16 DEF RewardInv

\* A transaction that moves neither the index nor what is unshared, and
\* records no coins, is a SharedStep.
LEMMA SameUnshared ==
    ASSUME RewardInv, Unshared' = Unshared,
           reward'.global_index = reward.global_index,
           reward'.prev_reward_balance <= reward.prev_reward_balance
    PROVE  SharedStep
<1>1. Sound(reward) /\ TotalAccrued = TotalIn(reward)
  BY InvSound
<1>2. /\ TotalIn(reward) \in Nat /\ reward.prev_reward_balance \in Nat
      /\ ONE \in Nat
  BY <1>1, TotalType, OneType DEF Sound, RewardStorage
<1>3. reward.prev_reward_balance * ONE \in Nat
  BY <1>2, ProductNat
<1>4. Unshared \in Int
  BY <1>1, <1>2, <1>3 DEF Unshared
<1>5. Unshared' - Unshared <= 0
  BY <1>4
<1> QED BY <1>5 DEF SharedStep

\* A transaction that keeps what is accrued is an AccruedStep and leaves
\* nothing unshared.
LEMMA AccruedSameStep ==
    ASSUME RewardInv, AccruedSame
    PROVE  AccruedStep /\ SharedStep
<1>1. AccruedStep
  BY DEF AccruedSame, AccruedStep, Accrued, AccruedIn
<1>2. /\ Sound(reward) /\ TotalAccrued = TotalIn(reward)
      /\ Sound(reward') /\ TotalAccrued' = TotalIn(reward')
      /\ reward'.prev_reward_balance = reward.prev_reward_balance
      /\ reward'.global_index = reward.global_index
  BY InvSound, SoundNext DEF AccruedSame
<1>3. [a \in Addrs |-> AccruedIn(reward', a)]
        = [a \in Addrs |-> AccruedIn(reward, a)]
  BY DEF AccruedSame
<1>4. TotalIn(reward') = TotalIn(reward)
  BY <1>3 DEF TotalIn
<1>5. Unshared' = Unshared
  BY <1>2, <1>4 DEF Unshared
<1>6. reward'.prev_reward_balance <= reward.prev_reward_balance
  BY <1>2 DEF Sound, RewardStorage
<1>7. SharedStep
  BY <1>2, <1>5, <1>6, SameUnshared
<1> QED BY <1>1, <1>7

\* A claim is an AccruedStep and a SharedStep, and so is an index update: when
\* the index does not move, neither does anything a holder has accrued.
LEMMA RewardNextStep ==
    ASSUME RewardInv, RewardNext
    PROVE  RewardInv' /\ AccruedStep /\ SharedStep
<1>0. Rewards \subseteq Nat
  BY RewardSystemAssumption
<1>1. ASSUME NEW h \in Users, NEW to \in Addrs, ClaimRewards(h, to)
      PROVE  RewardInv' /\ AccruedStep /\ SharedStep
  <2>1. /\ RewardInv'
        /\ \A b \in Addrs \ {h} : AccruedIn(reward', b) = AccruedIn(reward, b)
        /\ AccruedIn(reward, h) - AccruedIn(reward', h)
             = (reward.prev_reward_balance - reward'.prev_reward_balance) * ONE
        /\ reward'.global_index = reward.global_index
        /\ reward'.prev_reward_balance <= reward.prev_reward_balance
        /\ Unshared' = Unshared
    BY <1>1, ClaimStep
  <2>2. \A a \in Addrs :
           AccruedIn(reward', a) # AccruedIn(reward, a) =>
             AccruedIn(reward, a) - AccruedIn(reward', a)
               = (reward.prev_reward_balance - reward'.prev_reward_balance)
                   * ONE
    BY <2>1, Zenon
  <2>3. AccruedStep
    BY <2>2 DEF AccruedStep, Accrued, AccruedIn
  <2>4. SharedStep
    BY <2>1, SameUnshared
  <2> QED BY <2>1, <2>3, <2>4
<1>2. ASSUME NEW n \in Rewards, NEW d \in BOOLEAN, CoinsArrive(n, d)
      PROVE  RewardInv' /\ AccruedStep /\ SharedStep
  <2>1. TypeOK /\ n \in Nat
    BY <1>0 DEF RewardInv
  <2>2. /\ UNCHANGED <<reward, balances, total_supply>>
        /\ allowances' \in [Users \X Users -> Nat] /\ registered' \in BOOLEAN
        /\ bank' \in Nat /\ bank <= bank' /\ other' \in Nat
        /\ arrivals' \in Nat
    BY <1>2, <2>1 DEF CoinsArrive, TypeOK, tokenVars
  <2>3. RewardInv' /\ AccruedSame
    BY <2>2, QuietStep
  <2> QED BY <2>3, AccruedSameStep
<1>3. ASSUME NEW x \in Rewards, NEW y \in execute_swap(other + x),
             UpdateGlobalIndex(x, y)
      PROVE  RewardInv' /\ AccruedStep /\ SharedStep
  <2>1. RewardInv' /\ SharedStep
    BY <1>0, <1>3, UpdateStep
  <2>2. reward' = execute_update_global_index(reward, bank + y)
    BY <1>3 DEF UpdateGlobalIndex
  <2>3. reward'.holders = reward.holders
    BY <2>2 DEF execute_update_global_index
  <2>4. AccruedStep
    BY <2>3 DEF AccruedStep, Accrued, all_reward_with_decimals
  <2> QED BY <2>1, <2>4
<1> QED BY <1>1, <1>2, <1>3 DEF RewardNext

\* Every transaction of the token keeps what is accrued.
LEMMA TokenNextStep ==
    ASSUME RewardInv, TokenNext
    PROVE  RewardInv' /\ AccruedSame
<1>0. /\ Amounts \subseteq Nat /\ Users \subseteq Addrs
      /\ allowances \in [Users \X Users -> Nat]
  BY RewardSystemAssumption DEF RewardInv, TypeOK
<1>1. ASSUME NEW to \in Users, NEW n \in Amounts, NEW p \in Rewards,
             Mint(to, n, p)
      PROVE  RewardInv' /\ AccruedSame
  BY <1>1, MintStep
<1>2. ASSUME NEW s \in Users, NEW to \in Addrs, NEW n \in Amounts,
             Transfer(s, to, n)
      PROVE  RewardInv' /\ AccruedSame
  BY <1>0, <1>2, MoveStep, AccountUntouched DEF Transfer
<1>3. ASSUME NEW s \in Users, NEW n \in Amounts, Burn(s, n)
      PROVE  RewardInv' /\ AccruedSame
  BY <1>0, <1>3, BurnStep, AccountUntouched DEF Burn
<1>4. ASSUME NEW s \in Users, NEW n \in Amounts, NEW p \in Rewards,
             SendUnbond(s, n, p)
      PROVE  RewardInv' /\ AccruedSame
  BY <1>0, <1>4, BurnStep, AccountPaid DEF SendUnbond
<1>5. ASSUME NEW s \in Users, NEW o \in Users, NEW n \in Amounts,
             deduct_allowance(o, s, n)
      PROVE  allowances' \in [Users \X Users -> Nat]
  <2>1. <<o, s>> \in Users \X Users /\ n \in Nat
    BY <1>0
  <2>2. /\ n <= allowances[<<o, s>>]
        /\ allowances' = [allowances EXCEPT ![<<o, s>>] = @ - n]
    BY <1>5 DEF deduct_allowance
  <2>3. allowances[<<o, s>>] - n \in Nat
    BY <1>0, <2>1, <2>2
  <2> QED BY <1>0, <2>1, <2>2, <2>3
<1>6. ASSUME NEW s \in Users, NEW o \in Users, NEW to \in Addrs,
             NEW n \in Amounts, TransferFrom(s, o, to, n)
      PROVE  RewardInv' /\ AccruedSame
  BY <1>0, <1>5, <1>6, MoveStep, AccountUntouched DEF TransferFrom
<1>7. ASSUME NEW s \in Users, NEW o \in Users, NEW n \in Amounts,
             BurnFrom(s, o, n)
      PROVE  RewardInv' /\ AccruedSame
  BY <1>0, <1>5, <1>7, BurnStep, AccountUntouched DEF BurnFrom
<1>9. ASSUME NEW s \in Users, NEW o \in Users, NEW n \in Amounts,
             NEW p \in Rewards, SendFromUnbond(s, o, n, p)
      PROVE  RewardInv' /\ AccruedSame
  BY <1>0, <1>5, <1>9, BurnStep, AccountPaid DEF SendFromUnbond
<1>8. ASSUME NEW o \in Users, NEW s \in Users, NEW n \in Amounts,
             IncreaseAllowance(o, s, n) \/ DecreaseAllowance(o, s, n)
      PROVE  RewardInv' /\ AccruedSame
  <2>1. <<o, s>> \in Users \X Users /\ n \in Nat
        /\ allowances[<<o, s>>] \in Nat
    BY <1>0
  <2>2. allowances' \in [Users \X Users -> Nat]
    BY <1>0, <1>8, <2>1 DEF IncreaseAllowance, DecreaseAllowance
  <2>3. /\ UNCHANGED <<reward, balances, total_supply>>
        /\ registered' = registered /\ bank' = bank /\ other' = other
        /\ arrivals' = arrivals
    BY <1>8 DEF IncreaseAllowance, DecreaseAllowance, bankVars
  <2>4. /\ registered' \in BOOLEAN /\ bank' \in Nat /\ bank <= bank'
        /\ other' \in Nat /\ arrivals' \in Nat
    BY <2>3 DEF RewardInv, TypeOK
  <2> QED BY <2>2, <2>3, <2>4, QuietStep
<1> QED BY <1>1, <1>2, <1>3, <1>4, <1>6, <1>7, <1>8, <1>9 DEF TokenNext

\* Every step keeps the invariant and is an AccruedStep and a SharedStep.
LEMMA RewardInvNext ==
    ASSUME RewardInv, Next
    PROVE  RewardInv' /\ AccruedStep /\ SharedStep
<1>1. CASE Register
  <2>1. /\ UNCHANGED <<reward, balances, total_supply>>
        /\ allowances' = allowances /\ registered' = TRUE
        /\ bank' = bank /\ other' = other /\ arrivals' = arrivals
    BY <1>1 DEF Register, tokenVars, bankVars
  <2>2. /\ allowances' \in [Users \X Users -> Nat] /\ registered' \in BOOLEAN
        /\ bank' \in Nat /\ bank <= bank' /\ other' \in Nat
        /\ arrivals' \in Nat
    BY <2>1 DEF RewardInv, TypeOK
  <2>3. RewardInv' /\ AccruedSame
    BY <2>1, <2>2, QuietStep
  <2> QED BY <2>3, AccruedSameStep
<1>2. CASE TokenNext
  BY <1>2, TokenNextStep, AccruedSameStep
<1>3. CASE RewardNext
  BY <1>3, RewardNextStep
<1> QED BY <1>1, <1>2, <1>3 DEF Next

\* The invariant survives a stuttering step too.
LEMMA RewardInvStutter ==
    ASSUME RewardInv, UNCHANGED vars
    PROVE  RewardInv'
BY DEF RewardInv, vars, tokenVars, bankVars, TypeOK, IndexConsistent,
       BalancesMirrored, SupplyAddsUp, Solvent, TotalAccrued, Accrued

\* The inductive invariant holds in every reachable state of the token and
\* the reward contract.
THEOREM RewardInductive == Spec => []RewardInv
<1>1. Init => RewardInv
  BY RewardInitInv
<1>2. RewardInv /\ [Next]_vars => RewardInv'
  BY RewardInvNext, RewardInvStutter
<1> QED BY <1>1, <1>2, PTL DEF Spec

-----------------------------------------------------------------------------
(* Theorems.                                                               *)

\* Every stored amount of the two contracts stays a natural number: the
\* unchecked subtractions of the index and of the supply never go below zero.
THEOREM RewardTypeCorrect == Spec => []TypeOK
<1>1. RewardInv => TypeOK
  BY DEF RewardInv
<1> QED BY <1>1, RewardInductive, PTL

\* The reward contract's balances follow the token's, whatever sequence of
\* transfers, burns, allowances, mints and unbonds is executed.
THEOREM MirrorKept == Spec => []BalancesMirrored
<1>1. RewardInv => BalancesMirrored
  BY DEF RewardInv
<1> QED BY <1>1, RewardInductive, PTL

\* total_balance, by which arriving rewards are divided, is the sum of the
\* balances they are multiplied with, and no holder is ahead of the index.
THEOREM IndexKept == Spec => []IndexConsistent
<1>1. RewardInv => IndexConsistent
  BY DEF RewardInv
<1> QED BY <1>1, RewardInductive, PTL

\* All holders can be paid at once: accrued rewards, fractions included, are
\* covered by the recorded balance and that by the account's coins.
THEOREM RewardsCovered == Spec => []Solvent
<1>1. RewardInv => Solvent
  BY DEF RewardInv
<1> QED BY <1>1, RewardInductive, PTL

\* While the index stands still, accrued rewards change by a claim only, and
\* by exactly what the claim books out.
THEOREM AccruedOnlyClaimed == Spec => AccruedKept
<1>1. RewardInv /\ [Next]_vars => [AccruedStep]_vars
  BY RewardInvNext
<1> QED BY <1>1, RewardInductive, PTL DEF Spec, AccruedKept

\* An index update shares out all that arrived but less than one atomic per
\* token, and no other transaction leaves coins without an owner.
THEOREM ArrivedShared == Spec => AllShared
<1>1. RewardInv /\ [Next]_vars => [SharedStep]_vars
  BY RewardInvNext
<1> QED BY <1>1, RewardInductive, PTL DEF Spec, AllShared

=============================================================================
