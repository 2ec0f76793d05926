---------------------------- MODULE QueueProofs ----------------------------
(***************************************************************************)
(* The hub implements UnbondQueue, and the requests of a batch add up.     *)
(***************************************************************************)
EXTENDS HubSafety

-----------------------------------------------------------------------------
(* The operators UnbondQueue computes with are the hub's.                  *)

\* Sums of functions agree.
LEMMA QueueSum ==
    ASSUME NEW f
    PROVE  Queue!SumFunction(f) = SumFunction(f)
BY DEF Queue!SumFunction, Queue!SumFunctionOnSet, Queue!FoldFunctionOnSet,
       Queue!MapThenFoldSet, SumFunction, SumFunctionOnSet,
       FoldFunctionOnSet, MapThenFoldSet

\* Uint128 * Decimal is the same operation.
LEMMA QueueMul ==
    ASSUME NEW a, NEW dec
    PROVE  Queue!mul(a, dec) = mul(a, dec)
BY DEF Queue!mul, Queue!ONE, mul, ONE

\* Restrictions of functions agree.
LEMMA QueueRestrict ==
    ASSUME NEW f, NEW S
    PROVE  Queue!Restrict(f, S) = Restrict(f, S)
BY DEF Queue!Restrict, Restrict

\* A new hub is a new queue.
LEMMA QueueInit ==
    ASSUME Init
    PROVE  Queue!Init
<1>1. /\ current_batch.id = 1
      /\ history = <<>>
      /\ state.last_processed_batch = 0
      /\ wait_list = [u \in Users |-> <<>>]
      /\ hub_balance = 0
      /\ now \in Nat
  BY HubSystemAssumption DEF Init, instantiate
<1>2. params.unbonding_period \in Nat
  BY HubSystemAssumption DEF Init, instantiate, Parameters
<1>3. [b \in DOMAIN history |-> history[b].time] = <<>>
  BY <1>1
<1>4. [b \in 1 .. state.last_processed_batch |-> history[b].withdraw_rate]
        = <<>>
  BY <1>1
<1> QED BY <1>1, <1>2, <1>3, <1>4 DEF Queue!Init

\* execute_unbond adds the request, less the fee, to the user's claim on the
\* open batch, and stamps the batch with the block time if it closes it.
LEMMA UnbondIsRequest ==
    ASSUME TypeOK, BatchLifecycle, NEW u \in Users, NEW a \in Amounts,
           NEW picked, Unbond(u, a, picked)
    PROVE  \E n \in UNION {0 .. x : x \in Amounts} : Queue!Request(u, n)
<1> DEFINE st  == slashing(delegations, supply)
           req == requested_after(st, a, supply)
           st1 == unbond_state(st, a, supply)
           und == undelegation_amount(st, a, supply)
           id  == current_batch.id
           n   == req - current_batch.requested_with_fee
           old == wait_list[u]
<1>1. /\ n \in Nat /\ n <= a /\ a \in Nat
      /\ st1 \in State
      /\ st1.last_processed_batch = state.last_processed_batch
  BY UnbondFacts, SlashingType DEF SameButRate
<1>2. n \in UNION {0 .. x : x \in Amounts}
  BY <1>1
<1>3. /\ wait_list' = store_unbond_wait_list(u, id, n)
      /\ UNCHANGED <<hub_balance, now, params>>
      /\ \/ /\ history' = closed_history(st1, req, now)
            /\ current_batch' = [id |-> id + 1, requested_with_fee |-> 0]
            /\ state' = closed_state(st1, und, now)
         \/ /\ current_batch' =
                 [current_batch EXCEPT !.requested_with_fee = req]
            /\ state' = st1
            /\ history' = history
  BY DEF Unbond, execute_unbond
<1>4. /\ id \in Nat /\ id > 0
      /\ current_batch \in CurrentBatch
      /\ old \in [DOMAIN old -> Nat]
      /\ DOMAIN wait_list = Users
      /\ state.last_processed_batch \in Nat
  BY DEF TypeOK, HubTypeOK, IsBucket, CurrentBatch, State
<1>5. /\ DOMAIN history = 1 .. id - 1
      /\ state.last_processed_batch < id
  BY DEF BatchLifecycle
<1> HIDE DEF st, req, st1, und, id, n, old
<1>6. wait_list' = [wait_list EXCEPT ![u] =
                      [b \in DOMAIN @ \cup {id} |->
                         Queue!Claim(u, b) + IF b = id THEN n ELSE 0]]
  <2> DEFINE new == [b \in DOMAIN old \cup {id} |->
                       Queue!Claim(u, b) + IF b = id THEN n ELSE 0]
  <2>1. put(old, id, n + IF id \in DOMAIN old THEN old[id] ELSE 0) = new
    <3>1. \A b \in DOMAIN old \cup {id} :
             (IF b = id THEN n + (IF id \in DOMAIN old THEN old[id] ELSE 0)
              ELSE old[b])
             = (IF b \in DOMAIN old THEN old[b] ELSE 0)
                  + (IF b = id THEN n ELSE 0)
      BY <1>1, <1>4
    <3> QED BY <3>1 DEF put, Queue!Claim, old
  <2> QED BY <1>3, <2>1 DEF store_unbond_wait_list, old
<1>7. /\ state'.last_processed_batch = state.last_processed_batch
      /\ \A b \in 1 .. state.last_processed_batch :
            history'[b] = history[b]
  <2>1. \A b \in 1 .. state.last_processed_batch : b # id
    BY <1>4, <1>5
  <2>2. CASE history' = closed_history(st1, req, now)
             /\ state' = closed_state(st1, und, now)
    <3>1. state'.last_processed_batch = st1.last_processed_batch
      BY <2>2, <1>1 DEF closed_state, State
    <3>2. \A b \in 1 .. state.last_processed_batch : b \in DOMAIN history
      BY <1>4, <1>5
    <3>3. \A b \in 1 .. state.last_processed_batch :
             history'[b] = history[b]
      BY <2>1, <2>2, <3>2 DEF closed_history, put, id
    <3> QED BY <1>1, <3>1, <3>3
  <2>3. CASE history' = history /\ state' = st1
    BY <2>3, <1>1
  <2> QED BY <1>3, <2>2, <2>3
<1>8. [b \in 1 .. state'.last_processed_batch |-> history'[b].withdraw_rate]
        = [b \in 1 .. state.last_processed_batch |->
             history[b].withdraw_rate]
  BY <1>7
<1>9. \/ /\ current_batch'.id = id
         /\ [b \in DOMAIN history' |-> history'[b].time]
              = [b \in DOMAIN history |-> history[b].time]
      \/ /\ current_batch'.id = id + 1
         /\ [b \in DOMAIN history' |-> history'[b].time]
              = [b \in 1 .. id |-> IF b = id THEN now
                   ELSE [c \in DOMAIN history |-> history[c].time][b]]
  <2>1. CASE history' = closed_history(st1, req, now)
             /\ current_batch' = [id |-> id + 1, requested_with_fee |-> 0]
    <3>1. 1 .. id = DOMAIN history \cup {id}
      BY <1>4, <1>5
    <3>2. DOMAIN history' = 1 .. id
      BY <2>1, <3>1 DEF closed_history, put, id
    <3>3. \A b \in 1 .. id : history'[b].time =
             IF b = id THEN now
             ELSE [c \in DOMAIN history |-> history[c].time][b]
      BY <2>1, <3>1 DEF closed_history, put, id
    <3> QED BY <2>1, <3>2, <3>3
  <2>2. CASE current_batch' =
                 [current_batch EXCEPT !.requested_with_fee = req]
             /\ history' = history
    BY <2>2, <1>4 DEF CurrentBatch, id
  <2> QED BY <1>3, <2>1, <2>2
<1>10. ASSUME NEW k, k = n
       PROVE  Queue!Request(u, k)
  BY <1>3, <1>6, <1>7, <1>8, <1>9, <1>10 DEF Queue!Request, id
<1> QED BY <1>2, <1>10

\* process_withdraw_rate releases all that is due, in order, and leaves the
\* rates of earlier releases alone.
LEMMA WithdrawReleases ==
    ASSUME TypeOK, BatchLifecycle, NEW u \in Users, WithdrawUnbonded(u)
    PROVE  Queue!Release
<1> DEFINE per == params.unbonding_period
           due == due_batches(now - per)
           id  == current_batch.id
           lp  == state.last_processed_batch
           lq  == state'.last_processed_batch
<1>1. /\ DOMAIN history' = DOMAIN history
      /\ \A i \in DOMAIN history :
            i \notin due => history'[i] = history[i]
      /\ lq = IF due = {} THEN lp ELSE Max(due)
      /\ current_batch' = current_batch
  BY ReleasedHistory
<1>2. /\ DOMAIN history = 1 .. id - 1
      /\ \A i \in DOMAIN history : history[i].released <=> i <= lp
      /\ lp < id
  BY DEF BatchLifecycle
<1>3. lq < id
  BY <1>1, WithdrawLifecycle DEF BatchLifecycle
<1>4. /\ lp \in Nat /\ lq \in Nat /\ id \in Nat
      /\ now \in Nat /\ per \in Nat
      /\ \A i \in DOMAIN history : history[i].time \in Nat
      /\ \A i \in DOMAIN history' : history'[i].withdraw_rate \in Nat
  BY WithdrawTypeOK
     DEF TypeOK, HubTypeOK, State, CurrentBatch, Parameters, IsBucket,
         UnbondHistory
<1>5. due \subseteq Nat /\ IsFiniteSet(due)
  BY DueType
<1>6. due # {} => lq \in due /\ \A x \in due : x <= lq
  BY <1>1, <1>5, MaxExists
<1>7. \A i \in DOMAIN history :
        i \in due <=>
          /\ i > lp
          /\ \A j \in lp + 1 .. i : /\ j \in DOMAIN history
                                   /\ history[j].time <= now - per
                                   /\ ~history[j].released
  BY DEF due_batches
<1>8. due \subseteq DOMAIN history
  BY DueType
<1> HIDE DEF per, due, id, lp, lq
<1>9. lq \in lp .. id - 1
  <2>1. lq >= lp
    BY <1>1, <1>4, <1>6, <1>7, <1>8
  <2> QED BY <1>3, <1>4, <2>1
<1>10. \A b \in lp + 1 .. lq : Queue!Due(b)
  <2> SUFFICES ASSUME NEW b \in lp + 1 .. lq
               PROVE  Queue!Due(b)
    OBVIOUS
  <2>1. due # {} /\ lq \in due
    BY <1>1, <1>4, <1>6
  <2>2. b \in DOMAIN history /\ history[b].time <= now - per
    BY <1>7, <1>8, <2>1
  <2>3. b < id /\ history[b].time + per <= now
    BY <1>2, <1>4, <2>2
  <2> QED BY <2>2, <2>3 DEF Queue!Due, id, per
<1>11. ~Queue!Due(lq + 1)
  <2> SUFFICES ASSUME Queue!Due(lq + 1)
               PROVE  FALSE
    OBVIOUS
  <2>1. lq + 1 < id
    BY DEF Queue!Due, id
  <2>2. lq + 1 \in DOMAIN history
    BY <1>2, <1>4, <2>1
  <2>3. history[lq + 1].time <= now - per
    BY <1>4, <2>2 DEF Queue!Due, per
  <2>4. lq + 1 > lp
    BY <1>4, <1>9
  <2>5. ASSUME NEW j \in lp + 1 .. lq + 1
        PROVE  /\ j \in DOMAIN history
               /\ history[j].time <= now - per
               /\ ~history[j].released
    <3>1. CASE j = lq + 1
      BY <3>1, <1>2, <1>4, <2>2, <2>3, <2>4
    <3>2. CASE j # lq + 1
      <4>1. j \in lp + 1 .. lq
        BY <3>2, <1>4
      <4>2. lq \in due
        BY <4>1, <1>1, <1>4, <1>6
      <4> QED BY <4>1, <4>2, <1>7, <1>8
    <3> QED BY <3>1, <3>2
  <2>6. lq + 1 \in due
    BY <1>7, <2>2, <2>4, <2>5
  <2> QED BY <2>6, <1>4, <1>6
<1>12. ASSUME NEW b \in 1 .. lq
       PROVE  b \in DOMAIN history' /\ history'[b].withdraw_rate \in Nat
  BY <1>1, <1>2, <1>3, <1>4
<1>13. ASSUME NEW b \in 1 .. lp
       PROVE  b \in 1 .. lq /\ history'[b] = history[b]
  <2>1. b \in DOMAIN history /\ b \notin due /\ b \in 1 .. lq
    BY <1>2, <1>4, <1>7, <1>9
  <2> QED BY <1>1, <2>1
<1>14. /\ [b \in 1 .. lq |-> history'[b].withdraw_rate] \in [1 .. lq -> Nat]
       /\ \A b \in 1 .. lp :
             [c \in 1 .. lq |-> history'[c].withdraw_rate][b]
               = [c \in 1 .. lp |-> history[c].withdraw_rate][b]
  BY <1>12, <1>13
<1> QED BY <1>9, <1>10, <1>11, <1>14 DEF Queue!Release, lp, lq, id

\* execute_withdraw_unbonded pays the caller the released rate of exactly the
\* requests it removes.
LEMMA WithdrawIsWithdraw ==
    ASSUME TypeOK, BatchLifecycle, NEW u \in Users, WithdrawUnbonded(u)
    PROVE  Queue!Withdraw(u)
<1> DEFINE mine   == wait_list[u]
           lq     == state'.last_processed_batch
           paid   == released_batches(history', u)
           amount == get_finished_amount(history', u)
<1>1. /\ amount <= hub_balance
      /\ hub_balance' = hub_balance - amount
      /\ wait_list' = remove_unbond_wait_list(u, paid)
      /\ UNCHANGED <<current_batch, now, params>>
  BY DEF WithdrawUnbonded, execute_withdraw_unbonded, withdraw_amount
<1>2. /\ DOMAIN history' = DOMAIN history
      /\ \A i \in DOMAIN history : history'[i].time = history[i].time
  BY ReleasedHistory
<1>3. /\ DOMAIN history = 1 .. current_batch.id - 1
      /\ \A i \in DOMAIN history : history'[i].released <=> i <= lq
      /\ lq < current_batch.id
  BY <1>1, <1>2, WithdrawLifecycle DEF BatchLifecycle
<1>4. /\ DOMAIN mine \subseteq 1 .. current_batch.id
      /\ current_batch.id \in Nat
      /\ lq \in Nat
      /\ hub_balance \in Nat /\ hub_balance' \in Nat
  BY WithdrawTypeOK
     DEF TypeOK, HubTypeOK, IsBucket, State, CurrentBatch
<1>5. paid = {c \in DOMAIN mine : c <= lq}
  <2>1. \A c \in DOMAIN mine : c \in DOMAIN history /\ history'[c].released
                                 <=> c <= lq
    BY <1>3, <1>4
  <2> QED BY <1>2, <2>1 DEF released_batches
<1>6. Queue!Payout(u) = amount
  <2> DEFINE f == [b \in paid |-> mul(mine[b], history'[b].withdraw_rate)]
             g == [b \in {c \in DOMAIN mine : c <= lq} |->
                     Queue!mul(mine[b],
                       [c \in 1 .. lq |-> history'[c].withdraw_rate][b])]
  <2>1. \A b \in paid : b \in 1 .. lq
    BY <1>4, <1>5
  <2>2. f = g
    BY <1>5, <2>1, QueueMul
  <2>3. amount = SumFunction(f)
    BY DEF get_finished_amount
  <2>4. Queue!Payout(u) = Queue!SumFunction(g)
    BY DEF Queue!Payout
  <2> HIDE DEF f, g
  <2> QED BY <2>2, <2>3, <2>4, QueueSum
<1>7. wait_list' = [wait_list EXCEPT ![u] =
                      Queue!Restrict(@, {b \in DOMAIN @ : b > lq})]
  <2>1. DOMAIN mine \ paid = {b \in DOMAIN mine : b > lq}
    BY <1>4, <1>5
  <2> QED BY <1>1, <2>1, QueueRestrict DEF remove_unbond_wait_list
<1>8. [b \in DOMAIN history' |-> history'[b].time]
        = [b \in DOMAIN history |-> history[b].time]
  BY <1>2
<1>9. hub_balance' >= 0
  BY <1>4
<1> HIDE DEF amount, paid
<1> QED BY <1>1, <1>6, <1>7, <1>8, <1>9, WithdrawReleases DEF Queue!Withdraw

\* Every other step lets time pass or coins arrive, or changes the period.
LEMMA QuietIsTick ==
    ASSUME TypeOK, QuietStep, TypeOK'
    PROVE  Queue!Tick \/ Queue!SetPeriod
<1>1. /\ current_batch' = current_batch /\ history' = history
      /\ state'.last_processed_batch = state.last_processed_batch
      /\ hub_balance <= hub_balance' /\ now <= now'
  BY QuietFacts DEF batchVars
<1>2. /\ now \in Nat /\ now' \in Nat
      /\ hub_balance \in Nat /\ hub_balance' \in Nat
      /\ params'.unbonding_period \in Nat
  BY DEF TypeOK, HubTypeOK, Parameters
<1>3. \/ UNCHANGED <<wait_list, params>>
      \/ UNCHANGED <<wait_list, hub_balance, now>>
  BY QuietClaims
<1>4. CASE UNCHANGED <<wait_list, params>>
  BY <1>1, <1>2, <1>4 DEF Queue!Tick
<1>5. CASE UNCHANGED <<wait_list, hub_balance, now>>
  BY <1>1, <1>2, <1>5 DEF Queue!SetPeriod
<1> QED BY <1>3, <1>4, <1>5

\* Every step of the hub and of its chain is a step of the queue.
LEMMA NextIsQueueStep ==
    ASSUME TypeOK, BatchLifecycle, [Next]_vars
    PROVE  Queue!Next
<1>1. TypeOK'
  BY NextTypeOK
<1>2. ASSUME NEW u \in Users, NEW a \in Amounts, NEW picked \in Picks(a),
             Unbond(u, a, picked)
      PROVE  Queue!Next
  BY <1>2, UnbondIsRequest DEF Queue!Next
<1>3. ASSUME NEW u \in Users, WithdrawUnbonded(u)
      PROVE  Queue!Next
  BY <1>3, WithdrawIsWithdraw DEF Queue!Next
<1>4. CASE QuietStep
  BY <1>1, <1>4, QuietIsTick DEF Queue!Next
<1> QED BY <1>2, <1>3, <1>4, StepCases

\* The hub on its chain implements UnbondQueue, for any users, validators and
\* amounts: a withdrawal pays its caller the released rate of exactly the
\* claims it removes, and nothing else takes coins from the hub, drops a claim
\* or changes a rate.
THEOREM HubImplementsQueue == Spec => ImplementsQueue
<1>1. Init => Queue!Init
  BY QueueInit
<1>2. TypeOK /\ BatchLifecycle /\ [Next]_vars => [Queue!Next]_(Queue!vars)
  BY NextIsQueueStep
<1> QED
  BY <1>1, <1>2, TypeCorrect, BatchesInOrder, PTL
     DEF Spec, ImplementsQueue, Queue!Spec

-----------------------------------------------------------------------------
(* The requests of a batch add up to its amount.                           *)

\* The requests of one user, and of all, are natural numbers.
LEMMA RequestedType ==
    ASSUME TypeOK, NEW b
    PROVE  /\ \A u \in Users : Requested(u, b) \in Nat
           /\ [u \in Users |-> Requested(u, b)] \in [Users -> Nat]
           /\ RequestedByAll(b) \in Nat
<1>1. \A u \in Users : Requested(u, b) \in Nat
  BY DEF TypeOK, HubTypeOK, IsBucket, Requested
<1> DEFINE f == [u \in Users |-> Requested(u, b)]
<1>2. f \in [Users -> Nat] /\ DOMAIN f = Users
  BY <1>1
<1>3. RequestedByAll(b) = SumFunction(f)
  BY DEF RequestedByAll
<1> HIDE DEF f
<1>4. \A x \in DOMAIN f : f[x] \in Nat
  BY <1>2
<1>5. SumFunction(f) \in Nat
  BY <1>2, <1>4, HubAssumption, SumFunctionType
<1> QED BY <1>1, <1>2, <1>3, <1>5 DEF f

\* A step that changes no request of batch b keeps their sum.
LEMMA SameRequests ==
    ASSUME NEW b, \A x \in Users : Requested(x, b)' = Requested(x, b)
    PROVE  RequestedByAll(b)' = RequestedByAll(b)
<1>1. [x \in Users |-> Requested(x, b)'] = [x \in Users |-> Requested(x, b)]
  OBVIOUS
<1> QED BY <1>1 DEF RequestedByAll

\* store_unbond_wait_list adds the request to the caller's and nobody else's.
LEMMA StoreAdds ==
    ASSUME TypeOK, NEW u \in Users, NEW n \in Nat, NEW id,
           wait_list' = store_unbond_wait_list(u, id, n)
    PROVE  /\ RequestedByAll(id)' = RequestedByAll(id) + n
           /\ \A b : b # id =>
                 \A x \in Users : Requested(x, b)' = Requested(x, b)
<1> DEFINE f == [x \in Users |-> Requested(x, id)]
           g == [x \in Users |-> Requested(x, id)']
           old == wait_list[u]
<1>1. /\ DOMAIN wait_list = Users
      /\ old \in [DOMAIN old -> Nat]
  BY DEF TypeOK, HubTypeOK, IsBucket
<1>2. /\ DOMAIN wait_list' = Users
      /\ \A x \in Users : x # u => wait_list'[x] = wait_list[x]
      /\ DOMAIN wait_list'[u] = DOMAIN old \cup {id}
      /\ wait_list'[u][id] = n + IF id \in DOMAIN old THEN old[id] ELSE 0
      /\ \A b \in DOMAIN old : b # id => wait_list'[u][b] = old[b]
  BY <1>1 DEF store_unbond_wait_list, put
<1>3. \A b : b # id => \A x \in Users : Requested(x, b)' = Requested(x, b)
  <2> SUFFICES ASSUME NEW b, NEW x \in Users, b # id
               PROVE  Requested(x, b)' = Requested(x, b)
    OBVIOUS
  <2>1. CASE x # u
    BY <2>1, <1>2 DEF Requested
  <2>2. CASE x = u
    BY <2>2, <1>2 DEF Requested
  <2> QED BY <2>1, <2>2
<1>4. \A x \in Users \ {u} : g[x] = f[x]
  BY <1>2 DEF Requested
<1>5. g[u] = f[u] + n /\ f[u] \in Nat
  BY <1>1, <1>2 DEF Requested
<1>6. f \in [Users -> Nat] /\ RequestedByAll(id) \in Nat
  BY RequestedType
<1>7. /\ RequestedByAll(id) = SumFunction(f)
      /\ RequestedByAll(id)' = SumFunction(g)
      /\ g = [x \in Users |-> g[x]]
  BY DEF RequestedByAll
<1> HIDE DEF f, g
<1>8. g \in [Users -> Nat]
  <2>1. \A x \in Users : g[x] \in Nat
    BY <1>4, <1>5, <1>6
  <2> QED BY <2>1, <1>7
<1>9. SumFunction(g) = (SumFunction(f) - f[u]) + g[u]
  BY <1>4, <1>6, <1>8, HubAssumption, SumFunctionUpdate
<1>10. \A s, a \in Nat : (s - a) + (a + n) = s + n
  OBVIOUS
<1>11. SumFunction(g) = SumFunction(f) + n
  BY <1>5, <1>6, <1>7, <1>9, <1>10
<1> QED BY <1>3, <1>7, <1>11

\* execute_unbond keeps the sums: the batch collects what its users request.
LEMMA UnbondAddsUp ==
    ASSUME TypeOK, BatchLifecycle, BatchAmountsAddUp, NEW u \in Users,
           NEW a \in Amounts, NEW picked, Unbond(u, a, picked)
    PROVE  BatchAmountsAddUp'
<1> DEFINE st  == slashing(delegations, supply)
           req == requested_after(st, a, supply)
           st1 == unbond_state(st, a, supply)
<1> PICK id, n : /\ id = current_batch.id
                 /\ n = req - current_batch.requested_with_fee
  OBVIOUS
<1>1. n \in Nat /\ req \in Nat
  BY UnbondFacts
<1>2. /\ wait_list' = store_unbond_wait_list(u, id, n)
      /\ \/ /\ history' = closed_history(st1, req, now)
            /\ current_batch' = [id |-> id + 1, requested_with_fee |-> 0]
         \/ /\ current_batch' =
                 [current_batch EXCEPT !.requested_with_fee = req]
            /\ history' = history
  BY DEF Unbond, execute_unbond
<1>3. /\ id \in Nat
      /\ current_batch \in CurrentBatch
      /\ current_batch.requested_with_fee \in Nat
      /\ \A x \in Users : DOMAIN wait_list[x] \subseteq 1 .. id
  BY DEF TypeOK, HubTypeOK, IsBucket, CurrentBatch
<1>4. DOMAIN history = 1 .. id - 1
  BY DEF BatchLifecycle
<1> HIDE DEF req, st1
<1>5. /\ RequestedByAll(id)' = RequestedByAll(id) + n
      /\ \A b : b # id => \A x \in Users : Requested(x, b)' = Requested(x, b)
  BY <1>1, <1>2, StoreAdds
<1>6. RequestedByAll(id)' = req
  BY <1>1, <1>3, <1>5 DEF BatchAmountsAddUp
<1>7. \A b : b # id => RequestedByAll(b)' = RequestedByAll(b)
  <2> SUFFICES ASSUME NEW b, b # id
               PROVE  RequestedByAll(b)' = RequestedByAll(b)
    OBVIOUS
  <2>1. \A x \in Users : Requested(x, b)' = Requested(x, b)
    BY <1>5
  <2> QED BY <2>1, SameRequests
<1>8. ASSUME NEW i \in DOMAIN history
      PROVE  /\ i # id
             /\ RequestedByAll(i)' = RequestedByAll(i)
             /\ IF history[i].released
                THEN RequestedByAll(i)' <= history[i].amount
                ELSE RequestedByAll(i)' = history[i].amount
  BY <1>3, <1>4, <1>7 DEF BatchAmountsAddUp
<1>9. CASE /\ history' = closed_history(st1, req, now)
           /\ current_batch' = [id |-> id + 1, requested_with_fee |-> 0]
  <2>1. \A x \in Users : Requested(x, id + 1)' = 0
    <3>1. id + 1 # id /\ \A x \in Users : id + 1 \notin DOMAIN wait_list[x]
      BY <1>3
    <3>2. \A x \in Users : Requested(x, id + 1)' = Requested(x, id + 1)
      BY <3>1, <1>5
    <3>3. \A x \in Users : Requested(x, id + 1) = 0
      BY <3>1 DEF Requested
    <3> QED BY <3>2, <3>3
  <2>2. RequestedByAll(id + 1)' = SumFunction([x \in Users |-> 0])
    <3>1. [x \in Users |-> Requested(x, id + 1)'] = [x \in Users |-> 0]
      BY <2>1
    <3> QED BY <3>1 DEF RequestedByAll
  <2>3. RequestedByAll(id + 1)' = 0
    BY <2>2, HubAssumption, SumZero
  <2>4. ASSUME NEW i \in DOMAIN history'
        PROVE  IF history'[i].released
               THEN RequestedByAll(i)' <= history'[i].amount
               ELSE RequestedByAll(i)' = history'[i].amount
    <3>1. CASE i = id
      <4>1. history'[i].released = FALSE /\ history'[i].amount = req
        BY <1>9, <3>1 DEF closed_history, put
      <4> QED BY <1>6, <3>1, <4>1
    <3>2. CASE i # id
      <4>1. i \in DOMAIN history /\ history'[i] = history[i]
        BY <1>9, <3>2 DEF closed_history, put
      <4> QED BY <1>8, <4>1
    <3> QED BY <3>1, <3>2
  <2>5. current_batch'.id = id + 1 /\ current_batch'.requested_with_fee = 0
    BY <1>9
  <2> QED BY <2>3, <2>4, <2>5 DEF BatchAmountsAddUp
<1>10. CASE /\ current_batch' =
                 [current_batch EXCEPT !.requested_with_fee = req]
            /\ history' = history
  <2>1. current_batch'.id = id /\ current_batch'.requested_with_fee = req
    BY <1>3, <1>10 DEF CurrentBatch
  <2> QED BY <1>6, <1>8, <1>10, <2>1 DEF BatchAmountsAddUp
<1> QED BY <1>2, <1>9, <1>10

\* execute_withdraw_unbonded removes requests of released batches only.
LEMMA WithdrawAddsUp ==
    ASSUME TypeOK, BatchLifecycle, BatchAmountsAddUp, NEW u \in Users,
           WithdrawUnbonded(u)
    PROVE  BatchAmountsAddUp'
<1> DEFINE paid == released_batches(history', u)
           due  == due_batches(now - params.unbonding_period)
<1>1. /\ wait_list' = remove_unbond_wait_list(u, paid)
      /\ history' = released_history(due, hub_balance)
      /\ current_batch' = current_batch
  BY DEF WithdrawUnbonded, execute_withdraw_unbonded
<1>2. /\ DOMAIN history' = DOMAIN history
      /\ \A i \in DOMAIN history :
            /\ history'[i].amount = history[i].amount
            /\ history[i].released => history'[i].released
  <2>1. \A i \in DOMAIN history : history[i] \in UnbondHistory
    BY UnbondedAmountType
  <2> DEFINE rate(i) == from_ratio(
               actual_unbonded_amount_of_batch(i, due, hub_balance),
               history[i].amount)
  <2>2. history' = [i \in DOMAIN history |->
                      IF i \in due
                      THEN [history[i] EXCEPT !.withdraw_rate = rate(i),
                                              !.released = TRUE]
                      ELSE history[i]]
    BY <1>1 DEF released_history
  <2> HIDE DEF due, rate
  <2> QED BY <2>1, <2>2 DEF UnbondHistory
<1>3. DOMAIN wait_list = Users
  BY DEF TypeOK, HubTypeOK
<1>4. DOMAIN history = 1 .. current_batch.id - 1 /\ current_batch.id \in Nat
  BY DEF BatchLifecycle, TypeOK, HubTypeOK, CurrentBatch
<1>5. \A b \in paid : b \in DOMAIN history' /\ history'[b].released
  BY DEF released_batches
<1> HIDE DEF paid
<1>6. ASSUME NEW b, NEW x \in Users
      PROVE  /\ b \notin paid => Requested(x, b)' = Requested(x, b)
             /\ Requested(x, b)' \in {0, Requested(x, b)}
  <2>1. CASE x # u
    BY <2>1, <1>1, <1>3 DEF remove_unbond_wait_list, Requested
  <2>2. CASE x = u
    <3>1. wait_list'[u] = [c \in DOMAIN wait_list[u] \ paid |->
                              wait_list[u][c]]
      BY <1>1, <1>3 DEF remove_unbond_wait_list, Restrict
    <3> QED BY <2>2, <3>1 DEF Requested
  <2> QED BY <2>1, <2>2
<1>7. ASSUME NEW b, b \notin paid
      PROVE  RequestedByAll(b)' = RequestedByAll(b)
  BY <1>6, <1>7, SameRequests
<1>8. ASSUME NEW b
      PROVE  RequestedByAll(b)' \in Nat /\ RequestedByAll(b)' <= RequestedByAll(b)
  <2> DEFINE f == [x \in Users |-> Requested(x, b)]
             g == [x \in Users |-> Requested(x, b)']
  <2>1. \A x \in Users : /\ f[x] \in Int /\ g[x] \in Int /\ g[x] \in Nat
                          /\ g[x] <= f[x]
    <3>1. \A x \in Users : f[x] \in Nat /\ g[x] \in {0, f[x]}
      BY <1>6, RequestedType
    <3> QED BY <3>1
  <2>2. /\ RequestedByAll(b) = SumFunctionOnSet(f, Users)
        /\ RequestedByAll(b)' = SumFunctionOnSet(g, Users)
    BY DEF RequestedByAll, SumFunction
  <2> HIDE DEF f, g
  <2>3. SumFunctionOnSet(g, Users) <= SumFunctionOnSet(f, Users)
    BY <2>1, HubAssumption, SumMonotone
  <2>4. SumFunctionOnSet(g, Users) \in Nat
    BY <2>1, HubAssumption, SumType
  <2> QED BY <2>2, <2>3, <2>4
<1>9. RequestedByAll(current_batch.id)' = current_batch'.requested_with_fee
  <2> PICK id : id = current_batch.id
    OBVIOUS
  <2>1. id \notin paid
    BY <1>2, <1>4, <1>5
  <2>2. RequestedByAll(id)' = RequestedByAll(id)
    BY <1>7, <2>1
  <2> QED BY <1>1, <2>2 DEF BatchAmountsAddUp
<1>10. ASSUME NEW i \in DOMAIN history'
       PROVE  IF history'[i].released
              THEN RequestedByAll(i)' <= history'[i].amount
              ELSE RequestedByAll(i)' = history'[i].amount
  <2>1. history[i].amount \in Nat
    BY <1>2, UnbondedAmountType DEF UnbondHistory
  <2>2. /\ RequestedByAll(i) \in Nat /\ RequestedByAll(i)' \in Nat
        /\ RequestedByAll(i) <= history[i].amount
    BY <1>2, <1>8, <2>1, RequestedType DEF BatchAmountsAddUp
  <2>3. CASE history'[i].released
    BY <1>2, <1>8, <2>1, <2>2, <2>3
  <2>4. CASE ~history'[i].released
    <3>1. i \notin paid /\ ~history[i].released
      BY <1>2, <1>5, <2>4
    <3>2. RequestedByAll(i)' = RequestedByAll(i)
      BY <1>7, <3>1
    <3> QED BY <1>2, <2>4, <3>1, <3>2 DEF BatchAmountsAddUp
  <2> QED BY <2>3, <2>4
<1> QED BY <1>9, <1>10 DEF BatchAmountsAddUp

\* The requests of a batch add up to what the batch was closed with, for any
\* number of users: execute_unbond and the withdrawals of other users keep
\* every request of an unreleased batch.
THEOREM RequestsAddUp == Spec => []BatchAmountsAddUp
<1>1. Init => BatchAmountsAddUp
  <2> SUFFICES ASSUME Init
               PROVE  BatchAmountsAddUp
    OBVIOUS
  <2>1. /\ current_batch.id = 1 /\ current_batch.requested_with_fee = 0
        /\ history = <<>>
        /\ wait_list = [u \in Users |-> <<>>]
    BY DEF Init, instantiate
  <2>2. [x \in Users |-> Requested(x, 1)] = [x \in Users |-> 0]
    BY <2>1 DEF Requested
  <2>3. RequestedByAll(1) = 0
    BY <2>2, HubAssumption, SumZero DEF RequestedByAll
  <2> QED BY <2>1, <2>3 DEF BatchAmountsAddUp
<1>2. TypeOK /\ BatchLifecycle /\ BatchAmountsAddUp /\ [Next]_vars
        => BatchAmountsAddUp'
  <2> SUFFICES ASSUME TypeOK, BatchLifecycle, BatchAmountsAddUp, [Next]_vars
               PROVE  BatchAmountsAddUp'
    OBVIOUS
  <2>1. ASSUME NEW u \in Users, NEW a \in Amounts, NEW picked \in Picks(a),
               Unbond(u, a, picked)
        PROVE  BatchAmountsAddUp'
    BY <2>1, UnbondAddsUp
  <2>2. ASSUME NEW u \in Users, WithdrawUnbonded(u)
        PROVE  BatchAmountsAddUp'
    BY <2>2, WithdrawAddsUp
  <2>3. CASE QuietStep
    <3>1. UNCHANGED <<wait_list, history, current_batch>>
      BY <2>3, QuietClaims, QuietFacts DEF batchVars
    <3> QED BY <3>1
         DEF BatchAmountsAddUp, RequestedByAll, Requested
  <2> QED BY <2>1, <2>2, <2>3, StepCases
<1> QED BY <1>1, <1>2, TypeCorrect, BatchesInOrder, PTL DEF Spec

=============================================================================
