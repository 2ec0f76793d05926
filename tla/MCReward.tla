------------------------------ MODULE MCReward ------------------------------
EXTENDS RewardSystem, TLC

CONSTANT Founder  \* the holder of the initial balance

MCAddrs == Users \cup {HubAddr, RewardAddr}

MCInitialBalances == [a \in MCAddrs |-> IF a = Founder THEN 1 ELSE 0]

=============================================================================
