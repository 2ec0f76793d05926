----------------------------- MODULE MCDispatch -----------------------------
EXTENDS Dispatch

CONSTANTS MirToken, AncToken, MirDrop, AncDrop, Pair

MCAddrs == Users \cup {HubAddr, RewardAddr}

MCInitialBalances == [a \in MCAddrs |-> 0]

\* "MIR" and "ANC".
MIR == <<77, 73, 82>>
ANC == <<65, 78, 67>>
MCTokens == {MIR, ANC}

MCAirdropPays == MirDrop :> MirToken @@ AncDrop :> AncToken

MCInfo(token, drop) == [airdrop_token_contract |-> token,
                        airdrop_contract |-> drop,
                        airdrop_swap_contract |-> Pair]

\* The right entries, an entry with a wrong token, and a missing entry.
MCTables == {MIR :> MCInfo(MirToken, MirDrop) @@ ANC :> MCInfo(AncToken, AncDrop),
             MIR :> MCInfo(MirToken, MirDrop) @@ ANC :> MCInfo(MirToken, AncDrop),
             MIR :> MCInfo(MirToken, MirDrop)}

\* The contracts are registered one by one or together.
MCConfigUpdates == {<<RewardAddr, None, None>>, <<None, TokenAddr, None>>,
                    <<None, None, RegistryAddr>>,
                    <<RewardAddr, TokenAddr, RegistryAddr>>}
NoRegistry == {<<RewardAddr, None, None>>, <<None, TokenAddr, None>>}

NoAirdrops == <<>>
NoTable == {<<>>}

MCHookLists == {None, <<MIR>>, <<ANC, MIR>>}

MCAirdropInfos == {MCInfo(t, d) : t \in {MirToken, AncToken},
                                  d \in {MirDrop, AncDrop}}

=============================================================================
