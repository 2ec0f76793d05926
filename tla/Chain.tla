------------------------------- MODULE Chain -------------------------------
(***************************************************************************)
(* The part of the chain the hub depends on, none of it code of this       *)
(* repository: x/staking as far as the hub's own delegations go, x/bank as *)
(* far as the hub's balance goes, the block clock, and the total supply of *)
(* the token.  Modelled from how the contracts use it.                     *)
(*                                                                         *)
(*  - Undelegate opens an entry that completes UnbondingTime later; it is  *)
(*    paid at the end of the first block whose time has reached it, so a   *)
(*    transaction of that very block still sees the coins missing.         *)
(*  - A slash cuts a delegation, and optionally the entries opened since   *)
(*    the infraction; amounts are truncated, a delegation can shrink to    *)
(*    zero and still be listed.                                            *)
(*  - A delegation that is undelegated or redelegated as a whole is gone.  *)
(***************************************************************************)
EXTENDS Integers, FiniteSets, Functions

CONSTANTS UnbondingTime, \* x/staking parameter, in seconds
          MaxEntries,    \* x/staking limit of open entries per validator
          SlashKept,     \* what a slash may leave, in hundredths
          BlockTimes,    \* seconds between two blocks
          MaxTime,       \* bound: the clock stops here
          MaxEvents      \* bound: slashes, donations and burns

ASSUME ChainAssumption ==
    /\ UnbondingTime \in Nat
    /\ MaxEntries \in Nat
    /\ SlashKept \subseteq 0 .. 99
    /\ BlockTimes \subseteq Nat \ {0}
    /\ MaxTime \in Nat
    /\ MaxEvents \in Nat

VARIABLES delegations,  \* validator -> amount delegated by the hub
          unbonding,    \* open entries [val, done, amount]
          hub_balance,  \* coins of the underlying denom held by the hub
          supply,       \* total supply of the token
          now,          \* block time
          events        \* slashes, donations and burns so far (for the bound)

chainVars == <<delegations, unbonding, hub_balance, supply, now,
               events>>

\* dels after `amount` more is delegated to v.
delegated(dels, v, amount) ==
    [x \in DOMAIN dels \cup {v} |->
        (IF x \in DOMAIN dels THEN dels[x] ELSE 0)
          + (IF x = v THEN amount ELSE 0)]

\* dels after the amounts `picked` are undelegated.
undelegated(dels, picked) ==
    [x \in {y \in DOMAIN dels : picked[y] = 0 \/ picked[y] < dels[y]} |->
        dels[x] - picked[x]]

\* dels after the whole delegation of src moved to dst.
redelegated(dels, src, dst) ==
    delegated(Restrict(dels, DOMAIN dels \ {src}), dst, dels[src])

\* The entries a set of Undelegate messages opens.
opened(picked) ==
    {[val |-> v, done |-> now + UnbondingTime, amount |-> picked[v]] :
        v \in {x \in DOMAIN picked : picked[x] > 0}}

\* No validator runs out of entries.
entries_ok(picked) ==
    \A v \in DOMAIN picked :
        picked[v] > 0 =>
            Cardinality({e \in unbonding : e.val = v}) < MaxEntries

EntrySum(entries) == SumFunction([e \in entries |-> e.amount])

mature == {e \in unbonding : e.done <= now}

\* The end of a block: entries that are due are paid, and the next block
\* has a later time.
NextBlock ==
    /\ hub_balance' = hub_balance + EntrySum(mature)
    /\ unbonding' = unbonding \ mature
    /\ \E dt \in BlockTimes : now + dt <= MaxTime /\ now' = now + dt
    /\ UNCHANGED <<delegations, supply, events>>

Event == events < MaxEvents /\ events' = events + 1

kept(amount, percent) == (amount * percent) \div 100

\* A slash of v that keeps `percent` hundredths, and cuts the entries that
\* complete after `since`.  An entry loses the truncated slash amount.
Slash(v, percent, since) ==
    /\ Event
    /\ v \in DOMAIN delegations \cup {e.val : e \in unbonding}
    /\ delegations' = [x \in DOMAIN delegations |->
                         IF x = v THEN kept(delegations[x], percent)
                         ELSE delegations[x]]
    /\ unbonding' = {IF e.val = v /\ e.done > since /\ e.done > now
                     THEN [e EXCEPT !.amount = @ - kept(@, 100 - percent)]
                     ELSE e : e \in unbonding}
    /\ UNCHANGED <<hub_balance, supply, now>>

\* Somebody sends coins to the hub's address.
Donate(amount) ==
    /\ Event
    /\ hub_balance' = hub_balance + amount
    /\ UNCHANGED <<delegations, unbonding, supply, now>>

\* A holder burns tokens at the token contract, without unbonding.
BurnTokens(amount) ==
    /\ Event
    /\ amount <= supply
    /\ supply' = supply - amount
    /\ UNCHANGED <<delegations, unbonding, hub_balance, now>>

=============================================================================
