------------------------------ MODULE Registry ------------------------------
(***************************************************************************)
(* The airdrop registry: for each airdropped token, the contracts that are *)
(* needed to claim and swap it.  The names of the tokens are kept twice,   *)
(* as keys of a map and as a list in the config.                           *)
(*                                                                         *)
(* Handlers are operators from the contract's storage to its next storage, *)
(* as in Reward; their error paths are the operators named ..._ok.         *)
(* A token's name is a sequence of bytes, because queries go through the   *)
(* map in the order of its encoded keys.  The limits of a swap             *)
(* (swap_belief_price, swap_max_spread) are left out.                      *)
(***************************************************************************)
EXTENDS Integers, Sequences, FiniteSets, Functions, SequencesExt

CONSTANTS AirdropTokens,  \* names of airdropped tokens
          AirdropInfos,   \* contracts that may be registered for one
          None,           \* Option::None
          DEFAULT_LIMIT,  \* page size when none is given
          MAX_LIMIT       \* largest page

ASSUME RegistryAssumption ==
    /\ IsFiniteSet(AirdropTokens)
    /\ AirdropTokens \subseteq Seq(0 .. 255)
    /\ DEFAULT_LIMIT \in Nat \ {0} /\ MAX_LIMIT \in Nat \ {0}

\* CONFIG and AIRDROP_INFO after instantiate.
registry_init(sender, hub, reward_addr) ==
    [owner |-> sender, hub_contract |-> hub, reward_contract |-> reward_addr,
     airdrop_tokens |-> <<>>, airdrop_info |-> <<>>]

\* read_airdrop_info succeeds.
exists(r, token) == token \in DOMAIN r.airdrop_info

-----------------------------------------------------------------------------
(* Owner operations. *)

store_airdrop_info(r, token, info) ==
    [t \in DOMAIN r.airdrop_info \cup {token} |->
        IF t = token THEN info ELSE r.airdrop_info[t]]

\* Mutant: an entry with this name is not looked for.
MutAddUnchecked(r, sender, token) == sender = r.owner

add_ok(r, sender, token) == sender = r.owner /\ ~exists(r, token)

execute_add_airdrop(r, token, info) ==
    [r EXCEPT !.airdrop_tokens = Append(@, token),
              !.airdrop_info = store_airdrop_info(r, token, info)]

\* UpdateAirdropInfo and RemoveAirdropInfo need an entry.
change_ok(r, sender, token) == sender = r.owner /\ exists(r, token)

execute_update_airdrop(r, token, info) ==
    [r EXCEPT !.airdrop_info = store_airdrop_info(r, token, info)]

\* Mutant: the list keeps the name.
MutListKept(r, token) ==
    [r EXCEPT !.airdrop_info = Restrict(@, DOMAIN @ \ {token})]

execute_remove_airdrop(r, token) ==
    [r EXCEPT !.airdrop_tokens = SelectSeq(@, LAMBDA item : item # token),
              !.airdrop_info = Restrict(@, DOMAIN @ \ {token})]

\* UpdateConfig: each field is replaced if it is given.
execute_update_config(r, owner, hub, reward_addr) ==
    [r EXCEPT !.owner = IF owner = None THEN @ ELSE owner,
              !.hub_contract = IF hub = None THEN @ ELSE hub,
              !.reward_contract = IF reward_addr = None THEN @ ELSE reward_addr]

-----------------------------------------------------------------------------
(* Queries. *)

\* The bytes of a quote and of a backslash.
quote == 34
backslash == 92

\* The key of a token: its name, of printable characters, as a JSON string.
to_vec(token) ==
    LET escaped == [i \in DOMAIN token |->
                      IF token[i] \in {quote, backslash}
                      THEN <<backslash, token[i]>> ELSE <<token[i]>>]
    IN  <<quote>> \o FlattenSeq(escaped) \o <<quote>>

\* The order of keys in storage.
bytes_lt(a, b) ==
    \E i \in 1 .. Len(b) :
        /\ i <= Len(a) + 1
        /\ \A j \in 1 .. i - 1 : a[j] = b[j]
        /\ i = Len(a) + 1 \/ a[i] < b[i]

\* Mutants: the range starts before the key; it starts behind all names that
\* begin with this one.
MutStartIncluded(token) == Front(to_vec(token))
MutStartAfterPrefix(token) == Append(Front(to_vec(token)), 255)

calc_range_start(token) == Append(to_vec(token), 1)

page_limit(limit) ==
    LET n == IF limit = None THEN DEFAULT_LIMIT ELSE limit
    IN  IF n < MAX_LIMIT THEN n ELSE MAX_LIMIT

\* The first tokens of the map behind start_after, in the order of the keys.
read_all_airdrop_infos(r, start_after, limit) ==
    LET tokens == {t \in DOMAIN r.airdrop_info :
                     start_after # None =>
                        bytes_lt(calc_range_start(start_after), to_vec(t))}
        sorted == SetToSortSeq(tokens,
                      LAMBDA s, t : bytes_lt(to_vec(s), to_vec(t)))
    IN  SubSeq(sorted, 1,
               IF Len(sorted) < page_limit(limit)
               THEN Len(sorted) ELSE page_limit(limit))

=============================================================================
