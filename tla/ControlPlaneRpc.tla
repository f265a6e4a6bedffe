---------------------------- MODULE ControlPlaneRpc ----------------------------
(***************************************************************************)
(* The JSON-RPC surface of the control plane: the method table and its      *)
(* public part, deployment readiness, the explorer search (methods.ts), the *)
(* dispatcher (json-rpc.ts) and the HTTP routes that mirror methods         *)
(* (server.ts).                                                             *)
(*                                                                          *)
(* A JSON payload is [kind |-> "array", entries], [kind |-> "object", ...]  *)
(* with the members jsonrpc, method, id and params it has, or [kind |->     *)
(* "scalar"].  state.rpcEnv maps every configured variable of the endpoint  *)
(* to its value; state.library is what the Agent Bonds services load.       *)
(***************************************************************************)
EXTENDS Pilot, PublicAgentNetwork, AgentBondServices, ControlPlaneIntake

\* CONTROL_PLANE_METHODS, and the ones that only local callers may use.
ControlPlaneMethodNames ==
  {
    "account_get", "account_list", "agent_bond_a2a_agent_card_get",
    "agent_bond_a2a_envelope_extract", "agent_bond_a2a_extension_get",
    "agent_bond_a2a_message_validate", "agent_bond_credit_score_attestation_validate",
    "agent_bond_credit_score_get", "agent_bond_credit_score_simulation_get",
    "agent_bond_economic_report_get", "agent_bond_envelope_create_task_args",
    "agent_bond_envelope_hash", "agent_bond_envelope_quote", "agent_bond_envelope_validate",
    "agent_bond_failure_waterfall_get", "agent_bond_mcp_prompt_get", "agent_bond_mcp_resource_get",
    "agent_bond_mcp_tools_get", "agent_bond_passport_capacity_get", "agent_bond_passport_get",
    "agent_bond_passport_list", "agent_bond_passport_validate", "agent_bond_phase2_gate_get",
    "agent_bond_public_claim_get", "agent_bond_public_claim_status_get",
    "agent_bond_public_claim_validate", "agent_bond_public_launch_status_get",
    "agent_bond_readiness_get", "agent_bond_receipt_get", "agent_bond_receipt_list",
    "agent_bond_receipt_reputation_delta_get", "agent_bond_receipt_validate",
    "agent_bond_recourse_decision_quote", "agent_bond_recourse_policy_get",
    "agent_bond_replay_report_get", "agent_bond_task_get", "agent_bond_task_list",
    "agent_bond_underwriter_capacity_quote", "agent_bond_underwriter_loss_simulate",
    "agent_bond_underwriter_pool_get", "agent_bond_underwriter_pool_list",
    "agent_bond_x402_envelope_link_get", "agent_bond_x402_payment_intent_create",
    "agent_bond_x402_payment_receipt_validate", "agent_bond_x402_payment_required_get",
    "agent_get", "agent_list", "artifact_availability_get", "artifact_availability_list",
    "artifact_get", "balance_get", "base_agent_memory_replay_get",
    "base_agent_memory_task_scout_get", "base_agent_memory_task_scout_list", "block_get",
    "block_list", "bridge_credit_get", "bridge_credit_list", "bridge_credit_status",
    "bridge_deposit_get", "bridge_deposit_list", "bridge_live_readiness", "bridge_observation_get",
    "bridge_observation_list", "bridge_observation_submit", "bridge_status", "chain_status",
    "challenge_get", "challenge_list", "explorer_search", "faucet_event_list", "finality_get",
    "finality_list", "health", "localRuntime_state", "lp_position_get", "lp_position_list",
    "memory_cell_get", "memory_cell_list", "mempool_list", "model_get", "model_list",
    "node_status", "peer_list", "pilot_cap_status", "pilot_credit_list",
    "pilot_deposit_observation_list", "pilot_emergency_status", "pilot_lifecycle_record_list",
    "pilot_pause_status", "pilot_release_evidence_list", "pilot_retry_status", "pilot_status",
    "pilot_withdrawal_intent_list", "pool_get", "pool_list", "product_flow_status",
    "provenance_get", "public_agent_discover", "public_agent_launch_get",
    "public_agent_launch_intent_get", "public_agent_launch_preview",
    "public_agent_network_class_get", "public_agent_network_classes_list",
    "public_agent_network_tool_set_get", "public_agent_network_tools_list",
    "public_swarm_class_get", "public_swarm_classes_list", "public_swarm_get",
    "public_swarm_launch_preview", "public_swarm_replay_get", "raw_json_get", "receipt_get",
    "receipt_list", "rootfield_get", "rootfield_list", "rpc_discover", "rpc_readiness", "swap_get",
    "swap_list", "token_balance_get", "token_balance_list", "token_get", "token_list",
    "token_transfer_get", "token_transfer_list", "transaction_get", "transaction_list",
    "transaction_submit", "verifier_module_get", "verifier_module_list", "verifier_report_get",
    "verifier_report_list", "wallet_balance_list", "wallet_metadata_get", "wallet_metadata_list",
    "wallet_transfer_history", "withdrawal_get", "withdrawal_list", "work_receipt_get",
    "work_receipt_list"
  }

LocalMethods ==
  {
    "artifact_get", "bridge_observation_submit", "explorer_search", "localRuntime_state",
    "raw_json_get", "token_transfer_get", "token_transfer_list", "transaction_submit"
  }

PUBLIC_RPC_METHOD_ALLOWLIST == ControlPlaneMethodNames \ LocalMethods

isPublicRpcMethod(method) == method \in PUBLIC_RPC_METHOD_ALLOWLIST

-----------------------------------------------------------------------------
(* Deployment readiness. *)

PUBLIC_RPC_REQUIRED_ENV_NAMES ==
  {"FLOWMEMORY_RPC_PUBLIC_URL", "FLOWMEMORY_RPC_ALLOWED_ORIGINS",
   "FLOWMEMORY_RPC_RATE_LIMIT_PER_MINUTE", "FLOWMEMORY_RPC_TLS_TERMINATED",
   "FLOWMEMORY_RPC_STATE_BACKUP_PATH"}

LocalHosts == {"127.0.0.1", "localhost", "::1"}
AnyOrigin == {"*", "null", "all", "ALL"}

\* A URL is [protocol, host]; one that does not parse has neither.
publicModeOf(env) ==
  LET url == member(env, "FLOWMEMORY_RPC_PUBLIC_URL")
  IN  hasField(url, "host") /\ url.host \notin LocalHosts

invalidProductionEnvNames(env) ==
  LET set(name) == name \in DOMAIN env
      url == member(env, "FLOWMEMORY_RPC_PUBLIC_URL")
      public == publicModeOf(env)
      origins == IF set("FLOWMEMORY_RPC_ALLOWED_ORIGINS")
                 THEN env["FLOWMEMORY_RPC_ALLOWED_ORIGINS"] ELSE {}
  IN  {name \in DOMAIN env :
        CASE name = "FLOWMEMORY_RPC_PUBLIC_URL" ->
               \/ isNull(url)
               \/ url.protocol \notin {"http:", "https:"}
               \/ public /\ url.protocol # "https:"
          [] name = "FLOWMEMORY_RPC_ALLOWED_ORIGINS" ->
               origins = {} \/ (public /\ origins \cap AnyOrigin # {})
          [] name = "FLOWMEMORY_RPC_RATE_LIMIT_PER_MINUTE" -> env[name] = NotANumber
          [] name = "FLOWMEMORY_RPC_TLS_TERMINATED" -> ~ env[name]
          [] OTHER -> FALSE}

runtimeLoaded(state) ==
  ~ isNull(state.localRuntime) /\ state.sources.localRuntime \notin {"missing", "degraded"}

\* The reason codes, each with the status it is reported under.
deploymentIssues(state) ==
  LET env == state.rpcEnv
      invalid == invalidProductionEnvNames(env)
      blocked == UNION
        { when(~ runtimeLoaded(state), "runtime_state_not_loaded"),
          when(sourcesWith(state, "degraded") # {}, "degraded_sources"),
          when(~ PUBLIC_RPC_REQUIRED_ENV_NAMES \subseteq DOMAIN env,
               "missing_public_rpc_deployment_env"),
          when(/\ "FLOWMEMORY_RPC_PUBLIC_URL" \in DOMAIN env \ invalid
               /\ ~ publicModeOf(env), "public_rpc_url_is_local"),
          when(bridgeLiveReadiness(state).result.failClosedStatus
                 # "READY_FOR_OPERATOR_LIVE_PILOT", "bridge_live_readiness_not_ready") }
  IN  {[reasonCode |-> code, status |-> "blocked"] : code \in blocked}
      \cup {[reasonCode |-> code, status |-> "failed"] :
              code \in when(invalid # {}, "invalid_public_rpc_deployment_env")}

rpcDeploymentStatus(state) ==
  LET issues == deploymentIssues(state)
      public == publicModeOf(state.rpcEnv)
      ready == issues = {} /\ public
  IN  [issues |-> issues, publicMode |-> public, publicRpcReady |-> ready,
       localOnly |-> ~ ready,
       deploymentMode |->
         CASE ready -> "public-owner-edge"
           [] ~ ready /\ "FLOWMEMORY_RPC_PUBLIC_URL" \in DOMAIN state.rpcEnv /\ ~ public ->
                "local-endpoint-rehearsal"
           [] ~ ready /\ public -> "public-owner-edge-blocked"
           [] OTHER -> "local-only",
       status |-> CASE ready -> "READY_FOR_CONFIGURED_OWNER_RPC_DEPLOYMENT"
                    [] \E i \in issues : i.status = "failed" -> "FAILED"
                    [] OTHER -> "BLOCKED"]

LocalFileIntake == {"transaction_submit", "bridge_observation_submit"}

rpcMethodRows(deployment) ==
  {[method |-> method, publicRpcEligible |-> isPublicRpcMethod(method),
    mode |-> IF method \in LocalFileIntake THEN "local-file-intake" ELSE "read",
    productionReady |-> /\ deployment.publicRpcReady /\ isPublicRpcMethod(method)
                        /\ method \notin LocalFileIntake]
   : method \in ControlPlaneMethodNames}

\* Both methods report the deployment and how many methods it makes public.
withMethodCounts(deployment) ==
  LET rows == rpcMethodRows(deployment)
  IN  deployment @@ [methodCount |-> Cardinality(rows),
                     publicReadyMethodCount |-> Cardinality({r \in rows : r.productionReady})]

rpcDiscover(state) ==
  LET d == rpcDeploymentStatus(state)
  IN  answer(withMethodCounts(d) @@ [methods |-> rpcMethodRows(d)])

rpcReadiness(state) ==
  answer(withMethodCounts(rpcDeploymentStatus(state))
         @@ [localRuntimeReadable |-> runtimeLoaded(state),
             bridge |-> bridgeLiveReadiness(state).result.failClosedStatus])

-----------------------------------------------------------------------------
(* Explorer search. *)

\* The rows that can be found: kind, rows, the fields its id is taken from, and
\* the method and param its route names.
candidateRows(type, rows, idFields, method, param) ==
  mapSeq(rows, LAMBDA row :
    LET named == SelectSeq(idFields, LAMBDA f : hasField(row, f) /\ row[f] # NoId)
        id == IF named = <<>> THEN <<"search", type>> ELSE row[Head(named)]
    IN  [objectType |-> type, objectId |-> id, object |-> row,
         rpcMethod |-> method, params |-> (param :> id)])

explorerSearchCandidates(state) ==
  LET all == [limit |-> 100] IN
  candidateRows("block", blockRows(state), <<"blockHash">>, "block_get", "blockHash")
  \o candidateRows("transaction", transactionRows(state), <<"transactionId", "txHash">>, "transaction_get", "txId")
  \o candidateRows("account", nodeAccountRows(state), <<"accountId", "keyReferenceId">>, "account_get", "accountId")
  \o candidateRows("wallet_metadata", walletMetadataRows(state), <<"walletId", "accountId">>, "wallet_metadata_get", "walletId")
  \o candidateRows("token", tokenRows(state), <<"tokenId", "symbol">>, "token_get", "tokenId")
  \o candidateRows("token_balance", tokenBalanceRows(state), <<"balanceId", "accountId">>, "token_balance_get", "balanceId")
  \o candidateRows("token_transfer", tokenTransferRows(state), <<"transferId", "txId">>, "token_transfer_get", "transferId")
  \o candidateRows("pool", poolRows(state), <<"poolId">>, "pool_get", "poolId")
  \o candidateRows("lp_position", lpPositionRows(state), <<"positionId", "accountId">>, "lp_position_get", "positionId")
  \o candidateRows("swap", swapRows(state), <<"swapId", "txId">>, "swap_get", "swapId")
  \o candidateRows("receipt", state.launchCore.memoryReceipts, <<"receiptId", "observationId", "reportId">>, "receipt_get", "receiptId")
  \o candidateRows("event", state.indexer.observations, <<"observationId", "pulseId", "txHash">>, "provenance_get", "objectId")
  \o candidateRows("bridge_observation", bridgeObservationRows(state), <<"observationId", "depositId">>, "bridge_observation_get", "observationId")
  \o candidateRows("bridge_deposit", bridgeDepositRows(state), <<"depositId", "observationId", "txHash">>, "bridge_deposit_get", "depositId")
  \o candidateRows("bridge_credit", bridgeCreditRows(state), <<"creditId", "depositId", "accountId">>, "bridge_credit_get", "creditId")
  \o candidateRows("withdrawal", withdrawalRows(state), <<"withdrawalIntentId", "withdrawalId", "creditId">>, "withdrawal_get", "withdrawalId")
  \o candidateRows("pilot_deposit_observation", pilotDepositObservationList(all, state).result.rows, <<"observationId", "depositId", "txHash">>, "pilot_deposit_observation_list", "limit")
  \o candidateRows("pilot_credit", pilotCreditList(all, state).result.rows, <<"creditId", "depositId", "accountId">>, "pilot_credit_list", "limit")
  \o candidateRows("pilot_withdrawal_intent", pilotWithdrawalIntentList(all, state).result.rows, <<"withdrawalIntentId", "creditId", "depositId">>, "pilot_withdrawal_intent_list", "limit")
  \o candidateRows("pilot_release_evidence", pilotReleaseEvidenceList(all, state).result.rows, <<"releaseEvidenceId", "withdrawalIntentId", "releaseTxHash">>, "pilot_release_evidence_list", "limit")

\* A query is found in an id it equals, or in the text of an object one of whose
\* string members it equals (substring matches of unequal ids are not modelled).
SearchedFields ==
  IdFields \cup {"blockHash", "transactionId", "tokenId", "poolId", "positionId", "swapId",
                 "walletId", "pulseId", "rootfieldId", "receiptId", "reportId"}

objectMatchesQuery(row, query) == \E f \in SearchedFields \cap DOMAIN row : row[f] = query

explorerSearch(params, state) ==
  LET query == requiredString(params, <<"query", "q", "id">>)
      hits == SelectSeq(explorerSearchCandidates(state),
                        LAMBDA c : c.objectId = query \/ objectMatchesQuery(c.object, query))
  IN  IF query = NoId \/ ~ limitAllowed(params) THEN rejected("invalidParams")
      ELSE answer(take(hits, pageLimit(params)))

-----------------------------------------------------------------------------
(* The method table and the dispatcher. *)

callControlPlaneMethod(method, params, state) ==
  CASE method = "rpc_discover" -> rpcDiscover(state)
    [] method = "rpc_readiness" -> rpcReadiness(state)
    [] method = "health" -> answer(health(state))
    [] method = "node_status" -> answer(nodeStatus(state))
    [] method = "peer_list" -> peerList(params, state)
    [] method = "chain_status" -> answer(chainStatus(state))
    [] method = "pilot_status" -> pilotStatus(state)
    [] method = "pilot_deposit_observation_list" -> pilotDepositObservationList(params, state)
    [] method = "pilot_credit_list" -> pilotCreditList(params, state)
    [] method = "pilot_withdrawal_intent_list" -> pilotWithdrawalIntentList(params, state)
    [] method = "pilot_release_evidence_list" -> pilotReleaseEvidenceList(params, state)
    [] method = "pilot_cap_status" -> pilotCapStatus(state)
    [] method = "pilot_pause_status" -> pilotPauseStatus(state)
    [] method = "pilot_retry_status" -> pilotRetryStatus(state)
    [] method = "pilot_emergency_status" -> pilotEmergencyStatus(state)
    [] method = "bridge_live_readiness" -> bridgeLiveReadiness(state)
    [] method = "bridge_status" -> answer(bridgeStatus(state))
    [] method = "pilot_lifecycle_record_list" -> pilotLifecycleRecordList(params, state)
    [] method = "wallet_balance_list" -> walletBalanceList(params, state)
    [] method = "wallet_transfer_history" -> walletTransferHistory(params, state)
    [] method = "localRuntime_state" -> answer(localRuntimeState(state))
    [] method = "block_get" -> blockGet(params, state)
    [] method = "block_list" -> blockList(params, state)
    [] method = "mempool_list" -> mempoolList(params, state)
    [] method = "transaction_get" -> transactionGet(params, state)
    [] method = "transaction_list" -> transactionList(params, state)
    [] method = "account_get" -> accountGet(params, state)
    [] method = "account_list" -> accountList(params, state)
    [] method = "balance_get" -> balanceGet(params, state)
    [] method = "token_get" -> tokenGet(params, state)
    [] method = "token_list" -> tokenList(params, state)
    [] method = "token_balance_get" -> tokenBalanceGet(params, state)
    [] method = "token_balance_list" -> tokenBalanceList(params, state)
    [] method = "token_transfer_get" -> tokenTransferGet(params, state)
    [] method = "token_transfer_list" -> tokenTransferList(params, state)
    [] method = "pool_get" -> poolGet(params, state)
    [] method = "pool_list" -> poolList(params, state)
    [] method = "lp_position_get" -> lpPositionGet(params, state)
    [] method = "lp_position_list" -> lpPositionList(params, state)
    [] method = "swap_get" -> swapGet(params, state)
    [] method = "swap_list" -> swapList(params, state)
    [] method = "product_flow_status" -> answer(productFlowStatus(state))
    [] method = "faucet_event_list" -> faucetEventList(params, state)
    [] method = "wallet_metadata_get" -> walletMetadataGet(params, state)
    [] method = "wallet_metadata_list" -> walletMetadataList(params, state)
    [] method = "rootfield_get" -> rootfieldGet(params, state)
    [] method = "rootfield_list" -> rootfieldList(params, state)
    [] method = "artifact_get" -> artifactGet(params, state)
    [] method = "artifact_availability_get" -> artifactAvailabilityGet(params, state)
    [] method = "artifact_availability_list" -> artifactAvailabilityList(params, state)
    [] method = "receipt_get" -> receiptGet(params, state)
    [] method = "receipt_list" -> receiptList(params, state)
    [] method = "work_receipt_get" -> workReceiptGet(params, state)
    [] method = "work_receipt_list" -> workReceiptList(params, state)
    [] method = "verifier_module_get" -> verifierModuleGet(params, state)
    [] method = "verifier_module_list" -> verifierModuleList(params, state)
    [] method = "verifier_report_get" -> verifierReportGet(params, state)
    [] method = "verifier_report_list" -> verifierReportList(params, state)
    [] method = "memory_cell_get" -> memoryCellGet(params, state)
    [] method = "memory_cell_list" -> memoryCellList(params, state)
    [] method = "agent_bond_task_get" -> agentBondTaskGet(params, state)
    [] method = "agent_bond_task_list" -> agentBondTaskList(params, state)
    [] method = "agent_bond_readiness_get" -> answer(agentBondReadinessGet(state))
    [] method = "agent_bond_replay_report_get" -> answer(agentBondReplayReportGet(state))
    [] method = "agent_bond_economic_report_get" -> answer(agentBondEconomicReportGet(state))
    [] method = "agent_bond_public_launch_status_get" -> answer(agentBondPublicLaunchStatusGet(state))
    [] method = "agent_bond_passport_get" -> agentBondPassportGet(params, state.library)
    [] method = "agent_bond_passport_list" -> agentBondPassportList(params, state.library)
    [] method = "agent_bond_passport_validate" -> agentBondPassportValidate(params)
    [] method = "agent_bond_passport_capacity_get" -> agentBondPassportCapacityGet(params, state.library)
    [] method = "agent_bond_envelope_quote" -> agentBondEnvelopeQuote(params, state.library)
    [] method = "agent_bond_envelope_validate" -> agentBondEnvelopeValidate(params)
    [] method = "agent_bond_envelope_hash" -> agentBondEnvelopeHash(params)
    [] method = "agent_bond_envelope_create_task_args" -> agentBondEnvelopeCreateTaskArgs(params)
    [] method = "agent_bond_receipt_get" -> agentBondReceiptGet(params, state.library)
    [] method = "agent_bond_receipt_list" -> agentBondReceiptList(params, state.library)
    [] method = "agent_bond_receipt_validate" -> agentBondReceiptValidate(params)
    [] method = "agent_bond_receipt_reputation_delta_get" -> agentBondReceiptReputationDeltaGet(params, state.library)
    [] method = "agent_bond_phase2_gate_get" -> agentBondPhase2GateGet(state.library)
    [] method = "agent_bond_a2a_agent_card_get" -> agentBondA2aAgentCardGet(params, state.library)
    [] method = "agent_bond_a2a_extension_get" -> agentBondA2aExtensionGet(params, state.library)
    [] method = "agent_bond_a2a_message_validate" -> agentBondA2aMessageValidate(params)
    [] method = "agent_bond_a2a_envelope_extract" -> agentBondA2aEnvelopeExtract(params)
    [] method = "agent_bond_mcp_tools_get" -> agentBondMcpToolsGet(state.library)
    [] method = "agent_bond_mcp_resource_get" -> agentBondMcpResourceGet(params, state.library)
    [] method = "agent_bond_mcp_prompt_get" -> agentBondMcpPromptGet(params, state.library)
    [] method = "agent_bond_x402_payment_intent_create" -> agentBondX402PaymentIntentCreate(params, state.library)
    [] method = "agent_bond_x402_payment_required_get" -> agentBondX402PaymentRequiredGet(params, state.library)
    [] method = "agent_bond_x402_payment_receipt_validate" -> agentBondX402PaymentReceiptValidate(params)
    [] method = "agent_bond_x402_envelope_link_get" -> agentBondX402EnvelopeLinkGet(params, state.library)
    [] method = "agent_bond_credit_score_get" -> agentBondCreditScoreGet(params, state.library)
    [] method = "agent_bond_credit_score_simulation_get" -> agentBondCreditScoreSimulationGet(state.library)
    [] method = "agent_bond_credit_score_attestation_validate" -> agentBondCreditScoreAttestationValidate(params)
    [] method = "agent_bond_underwriter_pool_get" -> agentBondUnderwriterPoolGet(params, state.library)
    [] method = "agent_bond_underwriter_pool_list" -> agentBondUnderwriterPoolList(state.library)
    [] method = "agent_bond_underwriter_capacity_quote" -> agentBondUnderwriterCapacityQuote(params, state.library)
    [] method = "agent_bond_underwriter_loss_simulate" -> agentBondUnderwriterLossSimulate(params, state.library)
    [] method = "agent_bond_public_claim_get" -> agentBondPublicClaimGet(params, state.library)
    [] method = "agent_bond_public_claim_validate" -> agentBondPublicClaimValidate(params)
    [] method = "agent_bond_public_claim_status_get" -> agentBondPublicClaimStatusGet(state.library)
    [] method = "agent_bond_recourse_policy_get" -> agentBondRecoursePolicyGet(state.library)
    [] method = "agent_bond_recourse_decision_quote" -> agentBondRecourseDecisionQuote(params, state.library)
    [] method = "agent_bond_failure_waterfall_get" -> agentBondFailureWaterfallGet(params, state.library)
    [] method = "agent_get" -> agentGet(params, state)
    [] method = "public_agent_network_classes_list" -> publicAgentNetworkClassesList(params)
    [] method = "public_agent_network_class_get" -> publicAgentNetworkClassGet(params)
    [] method = "public_agent_network_tools_list" -> publicAgentNetworkToolsList(params)
    [] method = "public_agent_network_tool_set_get" -> publicAgentNetworkToolSetGet(params)
    [] method = "public_agent_launch_preview" -> publicAgentLaunchPreview(params)
    [] method = "public_agent_launch_intent_get" -> publicAgentLaunchIntentGet(params)
    [] method = "public_agent_launch_get" -> publicAgentLaunchGet(params)
    [] method = "public_agent_discover" -> publicAgentDiscover(params)
    [] method = "public_swarm_classes_list" -> publicSwarmClassesList(params)
    [] method = "public_swarm_class_get" -> publicSwarmClassGet(params)
    [] method = "public_swarm_launch_preview" -> publicSwarmLaunchPreview(params)
    [] method = "public_swarm_get" -> publicSwarmGet(params)
    [] method = "public_swarm_replay_get" -> publicSwarmReplayGet(params)
    [] method = "agent_list" -> agentList(params, state)
    [] method = "base_agent_memory_task_scout_get" -> baseAgentMemoryTaskScoutGet(params, state)
    [] method = "base_agent_memory_task_scout_list" -> baseAgentMemoryTaskScoutList(params, state)
    [] method = "base_agent_memory_replay_get" -> baseAgentMemoryReplayGet(params, state)
    [] method = "model_get" -> modelGet(params, state)
    [] method = "model_list" -> modelList(params, state)
    [] method = "challenge_get" -> challengeGet(params, state)
    [] method = "challenge_list" -> challengeList(params, state)
    [] method = "finality_get" -> finalityGet(params, state)
    [] method = "finality_list" -> finalityList(params, state)
    [] method = "bridge_observation_get" -> bridgeObservationGet(params, state)
    [] method = "bridge_observation_list" -> bridgeObservationList(params, state)
    [] method = "bridge_deposit_get" -> bridgeDepositGet(params, state)
    [] method = "bridge_deposit_list" -> bridgeDepositList(params, state)
    [] method = "bridge_credit_get" -> bridgeCreditGet(params, state)
    [] method = "bridge_credit_list" -> bridgeCreditList(params, state)
    [] method = "bridge_credit_status" -> bridgeCreditStatus(params, state)
    [] method = "withdrawal_get" -> withdrawalGet(params, state)
    [] method = "withdrawal_list" -> withdrawalList(params, state)
    [] method = "provenance_get" -> provenanceGet(params, state)
    [] method = "raw_json_get" -> rawJsonGet(params, state)
    [] method = "explorer_search" -> explorerSearch(params, state)
    [] method = "transaction_submit" -> transactionSubmit(params, state)
    [] method = "bridge_observation_submit" -> bridgeObservationSubmit(params, state)

NoResponse == <<>>

requestId(request) == IF hasField(request, "id") THEN request.id ELSE "null"

response(id, reply) ==
  IF answered(reply) THEN [id |-> id, result |-> reply.result]
  ELSE [id |-> id, error |-> reply.error]

wellFormed(request) ==
  /\ request.kind = "object"
  /\ hasField(request, "jsonrpc") /\ request.jsonrpc = "2.0"
  /\ hasField(request, "method")

\* One request that is not a batch.  A request without an id gets no response once
\* its method is known, whatever the method answers.
dispatchOne(request, state) ==
  LET id == IF request.kind = "object" THEN requestId(request) ELSE "null" IN
  IF ~ wellFormed(request) THEN response(id, rejected("request.invalid"))
  ELSE IF request.method \notin ControlPlaneMethodNames
  THEN response(id, rejected("method.not_found"))
  ELSE IF ~ hasField(request, "id") THEN NoResponse
  ELSE response(id, callControlPlaneMethod(request.method, member(request, "params"), state))

\* The responses of a batch: entries without one are dropped, and so are the
\* responses of a batch within the batch.
batchOf(batch, Dispatch(_)) ==
  LET responses == SelectSeq(mapSeq(batch, Dispatch),
                             LAMBDA r : r # NoResponse /\ ~ hasField(r, "batch"))
  IN  IF responses = <<>> THEN NoResponse ELSE [batch |-> responses]

RECURSIVE dispatchJsonRpc(_, _)
dispatchJsonRpc(request, state) ==
  IF request.kind = "array"
  THEN batchOf(request.entries, LAMBDA entry : dispatchJsonRpc(entry, state))
  ELSE dispatchOne(request, state)

\* The endpoint that is open to the network: a method off the allowlist is not
\* found, and a notification of one is dropped.
RECURSIVE dispatchPublicJsonRpc(_, _)
dispatchPublicJsonRpc(request, state) ==
  CASE request.kind = "array" ->
         batchOf(request.entries, LAMBDA entry : dispatchPublicJsonRpc(entry, state))
    [] wellFormed(request) /\ ~ isPublicRpcMethod(request.method) ->
         IF hasField(request, "id") THEN response(request.id, rejected("method.not_found"))
         ELSE NoResponse
    [] OTHER -> dispatchJsonRpc(request, state)

MAX_JSON_RPC_BATCH_REQUESTS == 50

\* POST /rpc once the body has arrived.
validateJsonRpcHttpPayload(payload) ==
  CASE payload.kind # "array" -> 200
    [] payload.entries = <<>> -> 400
    [] Len(payload.entries) > MAX_JSON_RPC_BATCH_REQUESTS -> 413
    [] OTHER -> 200

-----------------------------------------------------------------------------
(* HTTP routes that mirror a method. *)

\* The params a list route takes from its query string.
ListParamNames == {"limit", "baseTxHash", "txHash", "creditId", "walletAddress", "wallet",
                   "accountId", "recipientWallet", "status", "query"}

listParamsFromUrl(query) == [name \in ListParamNames \cap DOMAIN query |-> query[name]]

\* The method behind a GET path, and whether the query string reaches it.
GetRoutes ==
  ("/pilot/lifecycle" :> [method |-> "pilot_lifecycle_record_list", list |-> TRUE])
  @@ ("/health" :> [method |-> "health", list |-> FALSE])
  @@ ("/rpc/discover" :> [method |-> "rpc_discover", list |-> FALSE])
  @@ ("/rpc/readiness" :> [method |-> "rpc_readiness", list |-> FALSE])
  @@ ("/state" :> [method |-> "localRuntime_state", list |-> FALSE])
  @@ ("/explorer/summary" :> [method |-> "chain_status", list |-> FALSE])
  @@ ("/chain/status" :> [method |-> "chain_status", list |-> FALSE])
  @@ ("/product-flow/status" :> [method |-> "product_flow_status", list |-> FALSE])
  @@ ("/pilot/status" :> [method |-> "pilot_status", list |-> FALSE])
  @@ ("/pilot/deposits" :> [method |-> "pilot_deposit_observation_list", list |-> TRUE])
  @@ ("/pilot/credits" :> [method |-> "pilot_credit_list", list |-> TRUE])
  @@ ("/pilot/withdrawal-intents" :> [method |-> "pilot_withdrawal_intent_list", list |-> TRUE])
  @@ ("/pilot/release-evidence" :> [method |-> "pilot_release_evidence_list", list |-> TRUE])
  @@ ("/pilot/cap-status" :> [method |-> "pilot_cap_status", list |-> FALSE])
  @@ ("/pilot/pause-status" :> [method |-> "pilot_pause_status", list |-> FALSE])
  @@ ("/pilot/retry-status" :> [method |-> "pilot_retry_status", list |-> FALSE])
  @@ ("/pilot/emergency-status" :> [method |-> "pilot_emergency_status", list |-> FALSE])
  @@ ("/bridge/live-readiness" :> [method |-> "bridge_live_readiness", list |-> FALSE])
  @@ ("/bridge/status" :> [method |-> "bridge_status", list |-> FALSE])
  @@ ("/bridge/credits" :> [method |-> "bridge_credit_list", list |-> TRUE])
  @@ ("/bridge/credit-status" :> [method |-> "bridge_credit_status", list |-> TRUE])
  @@ ("/bridge/observations" :> [method |-> "bridge_observation_list", list |-> FALSE])
  @@ ("/wallets/balances" :> [method |-> "wallet_balance_list", list |-> TRUE])
  @@ ("/wallets/transfers" :> [method |-> "wallet_transfer_history", list |-> TRUE])

\* The route's method runs whether or not it is on the public allowlist.
searchRoute(query, state) ==
  LET params == [query |-> first(query, <<"q", "query">>, NoId)]
                @@ [f \in {"limit"} \cap DOMAIN query |-> query[f]]
  IN  callControlPlaneMethod("explorer_search", params, state)

getRoute(path, query, state) ==
  IF path = "/explorer/search" THEN searchRoute(query, state)
  ELSE callControlPlaneMethod(GetRoutes[path].method,
         IF GetRoutes[path].list THEN listParamsFromUrl(query) ELSE Null, state)

=============================================================================
