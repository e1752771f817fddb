------------------------------ MODULE Queries ------------------------------
(***************************************************************************)
(* The queries of the two RPC interfaces, by what the node does for them.  *)
(* A query is a pair of a name and a kind, and a kind says                 *)
(*   reply     one answer ("unary"), or a stream of items that a thread of *)
(*             the consensus library writes to a channel ("stream")        *)
(*   requires  arguments are validated before the library is called        *)
(*   checked   a code other than Ok is turned into an error (ensure_ok)    *)
(*   frees     the sender of a failed stream is deallocated                *)
(***************************************************************************)
EXTENDS Integers

Kind(reply, requires, checked, frees) ==
    [reply |-> reply, requires |-> requires, checked |-> checked, frees |-> frees]

Unary(names)     == names \X {Kind("unary", TRUE, TRUE, FALSE)}
Unchecked(names) == names \X {Kind("unary", TRUE, FALSE, FALSE)}
Plain(names)     == names \X {Kind("unary", FALSE, FALSE, FALSE)}
Stream(names)    == names \X {Kind("stream", TRUE, TRUE, FALSE)}

-----------------------------------------------------------------------------
(* What the library is asked for the second interface.                     *)

AccountQueries ==
    Unary({"get_account_info", "get_cryptographic_parameters"})
        \cup Unchecked({"get_next_account_sequence_number"}) \cup Plain({"get_consensus_info"})

ListQueries ==
    Stream({"get_module_list", "get_instance_list"})
        \cup ({"get_account_list"} \X {Kind("stream", TRUE, TRUE, TRUE)})
        \cup Unary({"get_module_source", "get_instance_info"})

InstanceQueries ==
    Unary({"get_instance_state", "get_block_item_status"}) \cup Stream({"get_ancestors"})

InvokeQueries == Unary({"invoke_instance", "get_block_info"})

PoolQueries ==
    Unary({"get_pool_info", "get_passive_delegation_info", "get_tokenomics_info"})
        \cup Stream({"get_baker_list"}) \cup Unchecked({"get_blocks_at_height"})

DelegatorQueries ==
    Stream({"get_pool_delegators", "get_pool_delegators_reward_period",
            "get_passive_delegators", "get_passive_delegators_reward_period"})
        \cup Plain({"get_branches"})

IdentityQueries ==
    Unary({"get_election_info"})
        \cup Stream({"get_identity_providers", "get_anonymity_revokers",
                     "get_account_non_finalized_transactions", "get_block_items"})

BlockQueries ==
    Stream({"get_block_transaction_events", "get_block_special_events",
            "get_block_pending_updates"})
        \cup Unary({"get_next_update_sequence_numbers", "get_block_chain_parameters"})

FinalizationQueries ==
    Unary({"get_block_finalization_summary"}) \cup Plain({"get_last_finalized_block_slot_time"})

FfiQueries ==
    UNION {AccountQueries, ListQueries, InstanceQueries, InvokeQueries, PoolQueries,
           DelegatorQueries, IdentityQueries, BlockQueries, FinalizationQueries}

-----------------------------------------------------------------------------
(* The endpoints of the second interface that ask the library.  Every one  *)
(* of them answers "unimplemented" unless the configuration enables it.    *)

StateEndpoints ==
    {"get_account_info", "get_account_list", "get_module_list", "get_module_source",
     "get_instance_list", "get_instance_info"}

InstanceEndpoints == {"get_instance_state", "instance_state_lookup"}

InvokeEndpoints ==
    {"get_next_account_sequence_number", "get_consensus_info", "get_ancestors",
     "get_block_item_status", "invoke_instance", "get_cryptographic_parameters"}

DelegationEndpoints ==
    {"get_block_info", "get_baker_list", "get_pool_info", "get_passive_delegation_info",
     "get_blocks_at_height", "get_tokenomics_info", "get_pool_delegators",
     "get_pool_delegators_reward_period", "get_passive_delegators",
     "get_passive_delegators_reward_period"}

ChainEndpoints ==
    {"get_branches", "get_election_info", "get_identity_providers", "get_anonymity_revokers",
     "get_account_non_finalized_transactions"}

EventEndpoints ==
    {"get_block_transaction_events", "get_block_special_events", "get_block_pending_updates",
     "get_next_update_sequence_numbers", "get_block_chain_parameters",
     "get_block_finalization_summary"}

ItemEndpoints == {"get_block_items"}

Endpoints ==
    UNION {StateEndpoints, InstanceEndpoints, InvokeEndpoints, DelegationEndpoints,
           ChainEndpoints, EventEndpoints, ItemEndpoints}

\* The query an endpoint makes: its own, except that a lookup of one key of an
\* instance's state first asks for the state.
QueryOf(endpoint) ==
    IF endpoint = "instance_state_lookup" THEN "get_instance_state" ELSE endpoint

KindsOf(endpoints) == {q[2] : q \in {r \in FfiQueries : \E e \in endpoints : r[1] = QueryOf(e)}}

-----------------------------------------------------------------------------
(* The first interface: every query answers with one string, and one whose *)
(* arguments are strings fails without a call when one of them cannot be   *)
(* passed to C.                                                            *)

Json(names)       == names \X {Kind("unary", TRUE, FALSE, FALSE)}

V1StateQueries ==
    Json({"get_block_info", "get_ancestors", "get_account_list", "get_instances",
          "get_account_info", "get_instance_info"})
        \cup Plain({"get_consensus_status", "get_blocks_at_height", "get_branches",
                    "get_last_finalized_block_height"})

V1ContractQueries ==
    Json({"invoke_contract", "get_reward_status", "get_birk_parameters", "get_module_list",
          "get_module_source", "get_baker_list", "get_pool_status"})

V1TransactionQueries ==
    Json({"get_account_non_finalized_transactions", "get_block_summary",
          "get_transaction_status", "get_transaction_status_in_block",
          "get_next_account_nonce", "get_identity_providers", "get_anonymity_revokers",
          "get_cryptographic_parameters"})

V1BlockEndpoints ==
    {"get_branches", "get_block_info", "get_ancestors", "get_blocks_at_height",
     "get_account_list", "get_instances", "get_account_info", "get_instance_info",
     "invoke_contract", "get_reward_status", "get_birk_parameters", "get_module_list",
     "get_baker_list", "get_pool_status"}

V1TransactionEndpoints ==
    {"get_transaction_status", "get_transaction_status_in_block",
     "get_account_non_finalized_transactions", "get_next_account_nonce",
     "get_identity_providers", "get_anonymity_revokers", "get_cryptographic_parameters",
     "get_block_summary", "get_module_source"}

V1KindsOf(endpoints) ==
    {q[2] : q \in {r \in V1StateQueries \cup V1ContractQueries \cup V1TransactionQueries :
                     r[1] \in endpoints}}

-----------------------------------------------------------------------------
(* The library's answer to a query of the second interface.                *)

ConsensusQueryResponse == {"InvalidArgument", "InternalError", "Ok", "NotFound"}

QueryResponseTable == <<"InvalidArgument", "InternalError", "Ok", "NotFound">>

query_try_from(code) == QueryResponseTable[code + 3]

ensure_ok(kind, response) == kind.checked => response = "Ok"
=============================================================================
