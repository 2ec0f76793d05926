--------------------------- MODULE RegistrySystem ---------------------------
(***************************************************************************)
(* The airdrop registry, its owner, and a client that reads the whole      *)
(* table page by page with start_after while the owner goes on changing    *)
(* it.                                                                     *)
(***************************************************************************)
EXTENDS Registry

CONSTANTS Accounts,  \* accounts that call the registry
          Hubs,      \* addresses the owner may enter as hub_contract
          Limits     \* page sizes the client may ask for, or None

ASSUME RegistrySystemAssumption ==
    /\ None \notin Accounts \cup Hubs
    /\ Limits \subseteq (Nat \ {0}) \cup {None}

VARIABLES registry,  \* CONFIG and AIRDROP_INFO
          scan       \* the client: where it is, what it has read, and which
                     \* tokens have been in the table since it began

vars == <<registry, scan>>

idle == [active |-> FALSE, limit |-> None, start_after |-> None,
         seen |-> <<>>, steady |-> {}]

Init ==
    /\ \E a \in Accounts, h \in Hubs : registry = registry_init(a, h, h)
    /\ scan = idle

UpdateConfig(sender, owner, hub) ==
    /\ sender = registry.owner
    /\ registry' = execute_update_config(registry, owner, hub, None)
    /\ UNCHANGED scan

AddAirdrop(sender, token, info) ==
    /\ add_ok(registry, sender, token)
    /\ registry' = execute_add_airdrop(registry, token, info)
    /\ UNCHANGED scan

UpdateAirdrop(sender, token, info) ==
    /\ change_ok(registry, sender, token)
    /\ registry' = execute_update_airdrop(registry, token, info)
    /\ UNCHANGED scan

RemoveAirdrop(sender, token) ==
    /\ change_ok(registry, sender, token)
    /\ registry' = execute_remove_airdrop(registry, token)
    /\ scan' = [scan EXCEPT !.steady = @ \ {token}]

\* The client begins at the start of the table.
BeginScan(limit) ==
    /\ ~scan.active
    /\ scan' = [idle EXCEPT !.active = TRUE, !.limit = limit,
                            !.steady = DOMAIN registry.airdrop_info]
    /\ UNCHANGED registry

\* The client reads the page behind the last token it has seen; an empty page
\* is the end.
ReadPage ==
    LET page == read_all_airdrop_infos(registry, scan.start_after, scan.limit)
    IN  /\ scan.active
        /\ scan' = IF page = <<>>
                   THEN [scan EXCEPT !.active = FALSE]
                   ELSE [scan EXCEPT !.start_after = Last(page),
                                     !.seen = @ \o page]
        /\ UNCHANGED registry

Next ==
    \/ \E s \in Accounts :
          \/ \E o \in Accounts \cup {None}, h \in Hubs \cup {None} :
                UpdateConfig(s, o, h)
          \/ \E t \in AirdropTokens, i \in AirdropInfos :
                AddAirdrop(s, t, i) \/ UpdateAirdrop(s, t, i)
          \/ \E t \in AirdropTokens : RemoveAirdrop(s, t)
    \/ \E l \in Limits : BeginScan(l)
    \/ ReadPage

Spec == Init /\ [][Next]_vars

-----------------------------------------------------------------------------
(* Properties. *)

\* The two records of the registered names agree: airdrop_tokens, which
\* query_config returns, lists every key of AIRDROP_INFO and nothing else, and
\* lists it once (execute_add_airdrop, execute_remove_airdrop).
TokensListed ==
    /\ IsInjective(registry.airdrop_tokens)
    /\ ToSet(registry.airdrop_tokens) = DOMAIN registry.airdrop_info

\* No token is returned on two pages of a scan, whatever the owner adds or
\* removes between the pages (calc_range_start leaves the last token out).
ScanOnce == IsInjective(scan.seen)

\* A scan that reached its end has returned every token that was in the table
\* all the time: the owner's changes make it miss nothing else.
ScanComplete == ~scan.active => scan.steady \subseteq ToSet(scan.seen)

=============================================================================
