------------------------------- MODULE MCHub -------------------------------
EXTENDS HubSystem, TLC

CONSTANTS Period, Threshold, Fee, UnbondPeriod

MCInitParams == [epoch_period |-> Period, unbonding_period |-> UnbondPeriod,
                 peg_recovery_fee |-> Fee, er_threshold |-> Threshold]

NoParams == [epoch_period |-> None, unbonding_period |-> None,
             peg_recovery_fee |-> None, er_threshold |-> None]

NoConfig == [owner |-> None, reward_contract |-> None,
             token_contract |-> None, airdrop_registry_contract |-> None]

\* The owner registers both contracts in one message.
MCConfigUpdates ==
    {[NoConfig EXCEPT !.reward_contract = Owner, !.token_contract = Owner]}

NoParamUpdates == {}

\* Turning the peg recovery off.
NoRecovery == {[NoParams EXCEPT !.er_threshold = 0]}

\* Shortening the unbonding period.
ShorterPeriod == {[NoParams EXCEPT !.unbonding_period = 1]}

Symmetry == Permutations(Users) \cup Permutations(Validators)

=============================================================================
