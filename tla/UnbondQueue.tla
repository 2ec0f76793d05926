---------------------------- MODULE UnbondQueue ----------------------------
(***************************************************************************)
(* What the hub promises to users who unbond, without exchange rates,      *)
(* validators, slashing or tokens.                                         *)
(*                                                                         *)
(* Requests collect in the open batch.  Closing it stamps it with the time *)
(* of the clock and opens the next one.  Closed batches are released in    *)
(* the order they were closed, each once the unbonding period has passed,  *)
(* at a rate that is fixed from then on.  A withdrawal first releases all  *)
(* that is due and then pays the caller, and nobody else, the released     *)
(* rate for each of its claims on released batches, which are gone         *)
(* afterwards; claims on other batches stay.  Nothing else takes coins     *)
(* from the hub or touches a claim.                                        *)
(*                                                                         *)
(* Which rate a batch gets is left open: it depends on the coins that      *)
(* arrived.                                                                *)
(***************************************************************************)
EXTENDS Decimals, Sequences, Functions

CONSTANTS Users,    \* accounts that unbond
          Requests, \* amounts a request can add to the open batch
          Periods   \* unbonding periods the owner may set

VARIABLES open,      \* number of the batch that collects requests
          closed_at, \* closed batch -> the time it was closed
          released,  \* batches 1 .. released are released
          rates,     \* released batch -> what one claimed token pays
          claims,    \* user -> batch -> tokens claimed
          balance,   \* coins held
          clock,     \* block time
          period     \* unbonding period

vars == <<open, closed_at, released, rates, claims, balance, clock, period>>

Init ==
    /\ open = 1
    /\ closed_at = <<>>
    /\ released = 0
    /\ rates = <<>>
    /\ claims = [u \in Users |-> <<>>]
    /\ balance = 0
    /\ clock \in Nat
    /\ period \in Nat

\* What u claims in batch b.
Claim(u, b) == IF b \in DOMAIN claims[u] THEN claims[u][b] ELSE 0

\* u's request joins the open batch, which may be closed with it.
Request(u, n) ==
    /\ claims' = [claims EXCEPT ![u] =
                    [b \in DOMAIN @ \cup {open} |->
                       Claim(u, b) + IF b = open THEN n ELSE 0]]
    /\ \/ UNCHANGED <<open, closed_at>>
       \/ /\ open' = open + 1
          /\ closed_at' = [b \in 1 .. open |->
                             IF b = open THEN clock ELSE closed_at[b]]
    /\ UNCHANGED <<released, rates, balance, clock, period>>

\* Batch b is closed and its unbonding period has passed.
Due(b) == b < open /\ closed_at[b] + period <= clock

\* Batches become released in order, all that are due, at rates that stay.
Release ==
    /\ released' \in released .. open - 1
    /\ \A b \in released + 1 .. released' : Due(b)
    /\ ~Due(released' + 1)
    /\ rates' \in [1 .. released' -> Nat]
    /\ \A b \in 1 .. released : rates'[b] = rates[b]

\* What u is paid for its claims on released batches.
Payout(u) ==
    SumFunction([b \in {c \in DOMAIN claims[u] : c <= released'} |->
                    mul(claims[u][b], rates'[b])])

Withdraw(u) ==
    /\ Release
    /\ balance' = balance - Payout(u)
    /\ balance' >= 0
    /\ claims' = [claims EXCEPT ![u] =
                    Restrict(@, {b \in DOMAIN @ : b > released'})]
    /\ UNCHANGED <<open, closed_at, clock, period>>

\* Time passes and coins arrive.
Tick ==
    /\ clock' \in Nat /\ clock' >= clock
    /\ balance' \in Nat /\ balance' >= balance
    /\ UNCHANGED <<open, closed_at, released, rates, claims, period>>

\* The owner changes the unbonding period.
SetPeriod ==
    /\ period' \in Periods
    /\ UNCHANGED <<open, closed_at, released, rates, claims, balance, clock>>

Next ==
    \/ \E u \in Users, n \in Requests : Request(u, n)
    \/ \E u \in Users : Withdraw(u)
    \/ Tick
    \/ SetPeriod

Spec == Init /\ [][Next]_vars

=============================================================================
