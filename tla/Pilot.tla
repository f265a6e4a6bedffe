------------------------------- MODULE Pilot -------------------------------
(***************************************************************************)
(* The pilot surface of the control plane                                  *)
(* (services/control-plane/src/pilot.ts): bridge observations, credits,    *)
(* withdrawal intents and release evidence gathered from the relayer's     *)
(* handoff, the runtime and the committed fallback, joined into lifecycle  *)
(* records whose amounts must be equal, and a live readiness that fails    *)
(* closed.  The process environment is state.env: a function from the      *)
(* configured names to numbers, NotANumber for a text that is none and     *)
(* AckPhrase for the acknowledgement the code requires.                    *)
(***************************************************************************)
EXTENDS ControlPlaneMethods

BASE_MAINNET_CHAIN_ID == 8453
PILOT_PER_DEPOSIT_CAP_USD == 25
MIN_CONFIRMATION_DEPTH == 2
MAX_CONFIRMATION_DEPTH == 256
NoChain == 0
NotANumber == -1
AckPhrase == 1

LIVE_REQUIRED_ENV_NAMES ==
    { "FLOWMEMORY_PILOT_OPERATOR_ACK", "FLOWMEMORY_BASE8453_RPC_URL",
      "FLOWMEMORY_BASE8453_LOCKBOX_ADDRESS", "FLOWMEMORY_BASE8453_FROM_BLOCK",
      "FLOWMEMORY_BASE8453_TO_BLOCK", "FLOWMEMORY_PILOT_MAX_DEPOSIT_WEI",
      "FLOWMEMORY_PILOT_TOTAL_CAP_WEI" }

CONFIRMATION_DEPTH_ENV_NAMES ==
    << "FLOWMEMORY_PILOT_CONFIRMATIONS", "FLOWMEMORY_BASE8453_CONFIRMATION_DEPTH" >>

---------------------------------------------------------------------------
\* Lists.

IdFields == { "observationId", "depositId", "replayKey", "creditId", "txHash", "accountId",
    "sender", "flowmemoryRecipient", "withdrawalIntentId", "flowmemoryAccount", "baseRecipient",
    "releaseEvidenceId", "recipientWallet", "sourceWallet", "transferId", "txId", "fromAccountId",
    "toAccountId", "walletAddress", "balanceId" }

\* rowText(row).includes(id).
mentions(row, id) == \E f \in IdFields \cap DOMAIN row : row[f] = id

matchesOptionalFilter(row, params, names) ==
    LET expected == first(params, names, NoId) IN expected = NoId \/ mentions(row, expected)

filterRows(rows, params) ==
    SelectSeq(rows, LAMBDA row :
        /\ matchesOptionalFilter(row, params, <<"baseTxHash", "txHash">>)
        /\ matchesOptionalFilter(row, params, <<"creditId">>)
        /\ matchesOptionalFilter(row, params,
               <<"walletAddress", "wallet", "accountId", "recipientWallet">>)
        /\ given(params, "status",
                 LAMBDA s : s = row.status \/ s \in first(row, <<"statuses">>, {}))
        /\ matchesOptionalFilter(row, params, <<"query">>))

listResult(rows, params) ==
    IF ~limitAllowed(params) THEN rejected("invalidParams")
    ELSE LET filtered == filterRows(rows, params) IN
         answer([count |-> Len(take(filtered, pageLimit(params))), totalCount |-> Len(rows),
                 filteredCount |-> Len(filtered), rows |-> take(filtered, pageLimit(params))])

---------------------------------------------------------------------------
\* Where rows come from.

chainIdOf(row) ==
    first(row, <<"sourceChainId", "chainId">>,
          first(member(row, "source"), <<"chainId">>,
                first(member(row, "deposit"), <<"sourceChainId">>, NoChain)))

\* Fallback rows are appended to the relayer's unless one of those is of Base mainnet.
handoffRows(state, key) ==
    LET native == member(state.bridgeRuntimeHandoff, key)
        fallback == fallbackBridgeRows(state, key)
        hasBaseMainnet == \E i \in DOMAIN native : chainIdOf(native[i]) = BASE_MAINNET_CHAIN_ID
    IN  IF hasBaseMainnet THEN native ELSE native \o fallback

handoffRowsAny(state, keys) == FlattenSeq(mapSeq(keys, LAMBDA k : handoffRows(state, k)))

\* Every map of the five places, one row per key and id: the last value, in the place
\* where the id was met first.
localRuntimeObjectRows(state, keys) ==
    LET sources == << state.localRuntime, objectsOf(state.localRuntimeControlPlaneHandoff),
                      state.localRuntimeControlPlaneHandoff, state.localRuntimeVerifierHandoff,
                      state.localRuntimeIndexerHandoff >>
        idOf(row, id) == first(row, <<"id", "creditId", "bridgeCreditId", "withdrawalIntentId",
                                      "withdrawalId", "depositId">>,
                               stableId("pilot.localRuntime_row", id))
        found == FlattenSeq(mapSeq(keys, LAMBDA k : FlattenSeq(mapSeq(sources, LAMBDA s :
            mapSeq(entries(member(s, k)), LAMBDA e :
                [key |-> << k, idOf(e.object, e.id) >>, row |-> e.object])))))
        same(i) == { j \in DOMAIN found : found[j].key = found[i].key }
        places == { i \in DOMAIN found : i = Min(same(i)) }
    IN  mapSeq(SetToSortSeq(places, <), LAMBDA i : found[Max(same(i))].row)

\* The first row of every id, sorted by it; the id is the first of the keys a row has.
dedupeRows(rows, keys) ==
    LET named(row) == SelectSeq(keys, LAMBDA k : row[k] # NoId)
        idOf(row) == IF named(row) = <<>> THEN NoId ELSE row[Head(named(row))]
        kept == { i \in DOMAIN rows : \A j \in 1..(i - 1) : idOf(rows[j]) # idOf(rows[i]) }
    IN  mapSeq(SetToSortSeq(kept, LAMBDA a, b :
                   \/ rank(idOf(rows[a])) < rank(idOf(rows[b]))
                   \/ rank(idOf(rows[a])) = rank(idOf(rows[b])) /\ a < b),
               LAMBDA i : rows[i])

modeFor(row) ==
    LET chain == chainIdOf(row) IN
    first(row, <<"mode">>, CASE chain = BASE_MAINNET_CHAIN_ID -> "base-mainnet-canary"
                             [] chain = 84532 -> "base-sepolia"
                             [] chain = 31337 -> "local-anvil"
                             [] OTHER -> "mock")

---------------------------------------------------------------------------
\* Deposits.

replayKeyFor(deposit, observation) ==
    first(observation, <<"replayKey">>, first(deposit, <<"replayKey">>,
        stableId("pilot_replay_key",
            << ToString(first(deposit, <<"sourceChainId">>, NoChain)),
               ToString(first(deposit, <<"logIndex">>, 0)) >>
            \o first(deposit, <<"txHash">>, NoId) \o first(deposit, <<"depositId">>, NoId))))

normalizeDepositObservation(observation) ==
    LET deposit == depositOf(observation)
        merged == deposit @@ observation
        source == member(deposit, "source")
        replayKey == replayKeyFor(deposit, observation)
        chain == chainIdOf(merged)
    IN  [observationId |-> first(observation, <<"observationId">>,
                                 stableId("pilot_observation", replayKey)),
         depositId |-> first(deposit, <<"depositId">>, stableId("pilot_deposit", replayKey)),
         replayKey |-> replayKey, mode |-> modeFor(merged), sourceChainId |-> chain,
         baseMainnet |-> chain = BASE_MAINNET_CHAIN_ID,
         txHash |-> first(deposit, <<"txHash">>, first(source, <<"txHash">>, NoId)),
         token |-> first(deposit, <<"token", "assetId">>, NoId),
         amount |-> first(deposit, <<"amount", "amountUnits">>, 0),
         sender |-> first(deposit, <<"sender">>, NoId),
         flowmemoryRecipient |-> first(deposit, <<"flowmemoryRecipient", "recipient">>, NoId),
         status |-> first(deposit, <<"status">>, first(observation, <<"status">>, "observed")),
         maxUsd |-> first(member(observation, "guardrails"), <<"maxUsd">>,
                          IF modeFor(merged) = "base-mainnet-canary"
                          THEN PILOT_PER_DEPOSIT_CAP_USD ELSE NotANumber)]

\* A replay key met before makes the later row a rejected duplicate.
pilotDepositRows(state) ==
    LET rows == mapSeq(state.bridgeObservations \o handoffRows(state, "observations")
                   \o localRuntimeObjectRows(state, <<"bridgeObservations", "bridgeDeposits", "deposits">>),
                   normalizeDepositObservation)
        seen(i) == \E j \in 1..(i - 1) : rows[j].replayKey = rows[i].replayKey
    IN  sortById([i \in DOMAIN rows |-> rows[i] @@
            [replayStatus |-> IF seen(i) THEN "duplicate_replay_rejected" ELSE "accepted"]],
            "observationId")

---------------------------------------------------------------------------
\* Credits.  Two ids match when both are there and equal.
sameId(a, b) == a # NoId /\ a = b

matchesDeposit(row, deposit) ==
    sameId(deposit.depositId, row.depositId) \/ sameId(deposit.replayKey, row.replayKey)

normalizeCredit(credit, deposits) ==
    LET source == member(credit, "source")
        matched == findRow(deposits, LAMBDA d : matchesDeposit(
            [depositId |-> first(credit, <<"depositId">>, NoId),
             replayKey |-> first(credit, <<"replayKey">>, NoId)], d))
        or(fields, f) == first(credit, fields, first(matched, <<f>>, NoId))
        chain == first(source, <<"chainId">>, first(credit, <<"sourceChainId">>,
                       first(matched, <<"sourceChainId">>, NoChain)))
        reference == or(<<"replayKey", "depositId">>, "replayKey")
    IN  [creditId |-> first(credit, <<"creditId", "bridgeCreditId">>, stableId("pilot_credit", reference)),
         observationId |-> or(<<"observationId">>, "observationId"),
         depositId |-> or(<<"depositId">>, "depositId"),
         replayKey |-> or(<<"replayKey">>, "replayKey"),
         mode |-> modeFor([sourceChainId |-> chain] @@ credit), sourceChainId |-> chain,
         baseMainnet |-> chain = BASE_MAINNET_CHAIN_ID,
         txHash |-> first(source, <<"txHash">>, or(<<"sourceTxId">>, "txHash")),
         accountId |-> first(credit, <<"accountId", "recipient", "flowmemoryRecipient">>, NoId),
         amount |-> first(credit, <<"amount", "amountUnits">>, 0),
         token |-> or(<<"token", "assetId">>, "token"),
         status |-> first(credit, <<"status">>,
                          IF hasField(credit, "bridgeCreditId") THEN "applied" ELSE "pending"),
         rejectionReason |-> first(credit, <<"rejectionReason">>, "none")]

\* The credit shown for a deposit that has none.
projectedPilotCredit(deposit) ==
    [creditId |-> stableId("pilot_projected_credit", deposit.observationId),
     observationId |-> deposit.observationId, depositId |-> deposit.depositId,
     replayKey |-> deposit.replayKey,
     source |-> [chainId |-> deposit.sourceChainId, txHash |-> deposit.txHash],
     token |-> deposit.token, amount |-> deposit.amount,
     flowmemoryRecipient |-> deposit.flowmemoryRecipient]
    @@ IF deposit.replayStatus = "duplicate_replay_rejected"
       THEN [status |-> "rejected", rejectionReason |-> "duplicate_replay_key"]
       ELSE [status |-> "pending"]

pilotCreditRows(state) ==
    LET deposits == pilotDepositRows(state)
        recorded == mapSeq(handoffRows(state, "credits") \o localRuntimeObjectRows(state,
                        <<"bridgeCredits", "bridgeCreditReceipts", "runtimeBridgeCredits">>),
                        LAMBDA c : normalizeCredit(c, deposits))
        Project(rows, d) == IF \E i \in DOMAIN rows : matchesDeposit(rows[i], d) THEN rows
                            ELSE Append(rows, normalizeCredit(projectedPilotCredit(d), deposits))
    IN  dedupeRows(FoldLeft(Project, recorded, deposits), <<"creditId", "depositId", "replayKey">>)

---------------------------------------------------------------------------
\* Withdrawal intents and release evidence.

normalizeWithdrawalIntent(intent, credits) ==
    LET matched == findRow(credits, LAMBDA c :
            \/ sameId(c.creditId, first(intent, <<"creditId">>, NoId))
            \/ sameId(c.depositId, first(intent, <<"depositId">>, NoId)))
        or(fields, f) == first(intent, fields, first(matched, <<f>>, NoId))
    IN  [withdrawalIntentId |-> first(intent, <<"withdrawalIntentId", "withdrawalId">>,
                                      stableId("pilot_withdrawal", or(<<"creditId">>, "creditId"))),
         creditId |-> or(<<"creditId">>, "creditId"), depositId |-> or(<<"depositId">>, "depositId"),
         destinationChainId |-> first(intent, <<"destinationChainId", "destinationChain">>,
                                      BASE_MAINNET_CHAIN_ID),
         token |-> or(<<"token">>, "token"),
         amount |-> first(intent, <<"amount">>, first(matched, <<"amount">>, 0)),
         flowmemoryAccount |-> or(<<"flowmemoryAccount">>, "accountId"),
         baseRecipient |-> first(intent, <<"baseRecipient", "recipient">>, NoId),
         status |-> first(intent, <<"status">>, "requested")]

pilotWithdrawalRows(state) ==
    LET credits == pilotCreditRows(state)
        intents == handoffRows(state, "withdrawalIntents") \o localRuntimeObjectRows(state,
            <<"withdrawalIntents", "bridgeWithdrawalIntents", "withdrawals", "bridgeWithdrawals">>)
    IN  dedupeRows(mapSeq(intents, LAMBDA w : normalizeWithdrawalIntent(w, credits)),
                   <<"withdrawalIntentId", "creditId", "depositId">>)

normalizeReleaseEvidence(evidence) ==
    LET call == member(evidence, "releaseCall")
        intentId == first(evidence, <<"withdrawalIntentId", "withdrawalId">>, NoId)
    IN  [releaseEvidenceId |-> first(evidence, <<"releaseEvidenceId", "evidenceId">>,
                                     stableId("pilot_release_evidence", intentId)),
         withdrawalIntentId |-> intentId, creditId |-> first(evidence, <<"creditId">>, NoId),
         depositId |-> first(evidence, <<"depositId">>, NoId),
         status |-> first(evidence, <<"status">>, "recorded"),
         txHash |-> first(evidence, <<"releaseTxHash", "txHash">>, NoId),
         amount |-> first(evidence, <<"amount">>, first(call, <<"amount">>, 0)),
         token |-> first(evidence, <<"token">>, first(call, <<"token">>, NoId)),
         baseRecipient |-> first(evidence, <<"baseRecipient">>, first(call, <<"recipient">>, NoId))]

\* One derived row per intent beside the recorded evidence: its id is its own, so it
\* never replaces a recorded row.
pilotReleaseEvidenceRows(state) ==
    LET native == handoffRowsAny(state, <<"releaseEvidence", "releaseEvidences">>)
                  \o localRuntimeObjectRows(state, <<"releaseEvidence", "bridgeReleaseEvidence",
                                                     "releaseEvidenceRecords">>)
        derived == mapSeq(pilotWithdrawalRows(state), LAMBDA w :
            [releaseEvidenceId |-> stableId("pilot_derived_evidence", w.withdrawalIntentId),
             withdrawalIntentId |-> w.withdrawalIntentId, creditId |-> w.creditId,
             depositId |-> w.depositId,
             status |-> IF w.status \in {"released", "released_test_record"} THEN "recorded"
                        ELSE "pending_operator_release_evidence"])
    IN  dedupeRows(mapSeq(native \o derived, normalizeReleaseEvidence),
                   <<"releaseEvidenceId", "withdrawalIntentId">>)

runtimeApplicationRows(state) ==
    handoffRows(state, "runtimeApplications") \o localRuntimeObjectRows(state,
        <<"runtimeApplications", "bridgeRuntimeApplications", "bridgeCreditApplications">>)

statusIsApplied(status) == status \in {"applied", "credited", "local_credit", "verified"}

---------------------------------------------------------------------------
\* Wallet transfers and balances.

\* The receipt of the wallet transfer proof, when there is one.
proofTransferRows(state) ==
    LET transfer == member(state.walletTransferProof, "transfer")
        receipt == member(transfer, "receipt")
        txId == first(receipt, <<"txId">>, first(transfer, <<"txId">>, NoId))
    IN  IF isNull(receipt) THEN <<>>
        ELSE << [transferId |-> IF txId = NoId THEN stableId("wallet_transfer.proof", NoId) ELSE txId,
                 txId |-> txId, fromAccountId |-> first(receipt, <<"from">>, NoId),
                 toAccountId |-> first(receipt, <<"to">>, NoId),
                 assetId |-> first(receipt, <<"assetId">>, NoId),
                 amount |-> first(receipt, <<"amount">>, 0),
                 status |-> first(receipt, <<"status">>, "applied"),
                 after |-> member(receipt, "balancesAfter")] >>

walletTransferRows(state) ==
    LET native == mapSeq(localRuntimeObjectRows(state,
                <<"balanceTransfers", "walletTransfers", "transfers", "tokenTransfers">>), LAMBDA t :
            [transferId |-> first(t, <<"transferId", "txId", "transactionId">>,
                                  stableId("wallet_transfer.native", NoId)),
             txId |-> first(t, <<"txId", "transactionId">>, NoId),
             fromAccountId |-> first(t, <<"fromAccountId", "from", "sender">>, NoId),
             toAccountId |-> first(t, <<"toAccountId", "to", "recipient">>, NoId),
             assetId |-> first(t, <<"assetId", "tokenId", "token">>, NoId),
             amount |-> first(t, <<"amount", "amountUnits">>, 0),
             status |-> first(t, <<"status">>, "applied")])
    IN  dedupeRows(native \o proofTransferRows(state), <<"transferId", "txId">>)

balanceRow(id, wallet, asset, amount, status) ==
    [balanceId |-> id, walletAddress |-> wallet, asset |-> asset, amount |-> amount, status |-> status]

\* Balances of the runtime, one row per applied credit, and both ends of the proof.
walletBalanceRows(state) ==
    LET owner(b) == first(b, <<"accountId", "owner">>, NoId)
        runtime == mapSeq(SelectSeq(localRuntimeObjectRows(state, <<"localTestUnitBalances", "localBalances">>),
                                    LAMBDA b : owner(b) # NoId),
            LAMBDA b : balanceRow(stableId("wallet_balance.local_runtime", owner(b)), owner(b),
                <<"local-test-unit">>, first(b, <<"units", "amountUnits">>, 0),
                IF first(b, <<"noValue">>, TRUE) THEN "local_runtime" ELSE "runtime_value_credit"))
        credited == mapSeq(SelectSeq(pilotCreditRows(state), LAMBDA c : statusIsApplied(c.status)),
            LAMBDA c : balanceRow(stableId("wallet_balance.bridge_credit", c.creditId),
                                  c.accountId, c.token, c.amount, "credited"))
        end(t, side, account) == IF account = NoId THEN <<>> ELSE
            << balanceRow(stableId("wallet_balance.transfer." \o side, t.transferId), account,
                          t.assetId, first(t.after, <<side>>, 0), "after_transfer") >>
        moved == FlattenSeq(mapSeq(proofTransferRows(state), LAMBDA t :
            end(t, "from", t.fromAccountId) \o end(t, "to", t.toAccountId)))
    IN  dedupeRows(runtime \o credited \o moved, <<"balanceId", "walletAddress", "asset">>)

---------------------------------------------------------------------------
\* Caps, pause, retries and emergency.

\* The first of the relayer's handoff, the runtime's handoff and the runtime that
\* says anything about it.
configured(state, field) ==
    LET found == SelectSeq(<< member(state.bridgeRuntimeHandoff, field),
                              member(state.localRuntimeControlPlaneHandoff, field),
                              member(state.localRuntime, field) >>, LAMBDA o : ~isNull(o))
    IN  IF found = <<>> THEN Null ELSE Head(found)

configuredPause(state) == configured(state, "pause")
configuredEmergency(state) == configured(state, "emergency")

capStatus(state, deposits) ==
    LET config == configured(state, "capStatus")
        guardrails == { deposits[i].maxUsd : i \in DOMAIN deposits } \ {NotANumber}
        perDeposit == first(config, <<"perDepositUsd">>, PILOT_PER_DEPOSIT_CAP_USD)
        breached == \E usd \in guardrails : usd > perDeposit
    IN  [state |-> IF breached THEN "error"
                   ELSE IF \E i \in DOMAIN deposits : deposits[i].baseMainnet THEN "live" ELSE "degraded",
         observedTotalRawUnits |-> FoldLeft(LAMBDA sum, d : sum + d.amount, 0, deposits),
         withinCap |-> ~breached]

pauseStatus(state) ==
    LET pause == configuredPause(state)
        active == \/ first(pause, <<"active">>, FALSE) \/ first(pause, <<"paused">>, FALSE)
                  \/ first(pause, <<"status">>, "") = "paused"
    IN  [state |-> IF active THEN "error" ELSE "live", active |-> active]

emergencyStatus(state) ==
    LET emergency == configuredEmergency(state)
        active == \/ first(emergency, <<"active">>, FALSE)
                  \/ first(emergency, <<"status">>, "") = "active"
    IN  [state |-> IF active THEN "error" ELSE "live", active |-> active]

retryStatus(state, deposits, credits) ==
    LET reported == ToSet(member(member(state.bridgeRuntimeHandoff, "replayProtection"),
                                 "duplicateReplayKeys"))
        observed == { d.replayKey : d \in { d \in ToSet(deposits) :
                        d.replayStatus = "duplicate_replay_rejected" } }
        failed == { i \in DOMAIN credits : credits[i].status = "failed" }
    IN  [state |-> IF failed # {} THEN "error" ELSE "live",
         duplicateReplayKeys |-> reported \cup observed,
         rejectedDuplicateCredits |-> Cardinality({ i \in DOMAIN credits :
             credits[i].rejectionReason = "duplicate_replay_key" }),
         retryableCredits |-> { c.creditId : c \in { c \in ToSet(credits) : c.status = "pending" } }]

---------------------------------------------------------------------------
\* Live readiness.

envConfigured(env, name) == hasField(env, name)

firstConfiguredEnv(env, names) ==
    LET found == SelectSeq(names, LAMBDA n : envConfigured(env, n))
    IN  IF found = <<>> THEN "" ELSE Head(found)

\* A configured value that is no decimal or is outside the bounds; a block depth has
\* a maximum, a cap in wei only a minimum.
envOutsidePolicy(env, name, min, max) ==
    envConfigured(env, name) /\ (env[name] < min \/ (max # NotANumber /\ env[name] > max))

envPositiveNumber(env, name, fallback) ==
    LET value == first(env, <<name>>, fallback)
    IN  [valid |-> value > 0, seconds |-> IF value > 0 THEN value ELSE fallback]

missingEnvNames(env) ==
    LET tokenRequired == first(env, <<"FLOWMEMORY_BASE8453_TOKEN_MODE">>, 0) = 1
        names == LIVE_REQUIRED_ENV_NAMES
                 \cup (IF firstConfiguredEnv(env, CONFIRMATION_DEPTH_ENV_NAMES) = ""
                       THEN {Head(CONFIRMATION_DEPTH_ENV_NAMES)} ELSE {})
                 \cup (IF tokenRequired THEN {"FLOWMEMORY_BASE8453_SUPPORTED_TOKEN"} ELSE {})
    IN  { n \in names : ~envConfigured(env, n) }

\* The waiting time the configured depth implies against the target.  A depth that is
\* no decimal has no estimate, and then the target is missed.
settlementPolicy(env) ==
    LET name == firstConfiguredEnv(env, CONFIRMATION_DEPTH_ENV_NAMES)
        depth == first(env, <<name>>, NotANumber)
        target == envPositiveNumber(env, "FLOWMEMORY_BRIDGE_TARGET_SETTLEMENT_SECONDS", 30)
        block == envPositiveNumber(env, "FLOWMEMORY_BASE8453_ESTIMATED_BLOCK_SECONDS", 2)
        poll == envPositiveNumber(env, "FLOWMEMORY_BRIDGE_POLL_SECONDS", 30)
        valid == target.valid /\ block.valid /\ poll.valid
    IN  [valid |-> valid,
         feasible |-> /\ depth # NotANumber /\ valid
                      /\ depth * block.seconds + poll.seconds <= target.seconds]

\* The issues of buildBridgeLiveReadiness, each with its status.
readinessIssues(state) ==
    LET env == state.env
        deposits == pilotDepositRows(state)
        credits == pilotCreditRows(state)
        depthName == firstConfiguredEnv(env, CONFIRMATION_DEPTH_ENV_NAMES)
        source == state.sources["localRuntime"]
        issue(condition, code, status) == IF condition THEN {<<code, status>>} ELSE {}
    IN  issue(source = "degraded", "local_runtime_state_degraded", "blocked")
        \cup issue(source # "degraded" /\ (isNull(state.localRuntime) \/ source = "missing"),
                   "node_offline", "blocked")
        \cup issue(missingEnvNames(env) # {}, "missing_env", "blocked")
        \cup issue(first(env, <<"FLOWMEMORY_PILOT_OPERATOR_ACK">>, 0) # AckPhrase,
                   "operator_ack_missing", "blocked")
        \cup issue(envOutsidePolicy(env, depthName, MIN_CONFIRMATION_DEPTH, MAX_CONFIRMATION_DEPTH),
                   "insufficient_confirmations", "failed")
        \cup issue(~settlementPolicy(env).valid, "settlement_policy_invalid", "failed")
        \cup issue(depthName # "" /\ ~settlementPolicy(env).feasible, "settlement_target_missed", "failed")
        \cup issue(\/ envOutsidePolicy(env, "FLOWMEMORY_PILOT_MAX_DEPOSIT_WEI", 1, NotANumber)
                   \/ envOutsidePolicy(env, "FLOWMEMORY_PILOT_TOTAL_CAP_WEI", 1, NotANumber)
                   \/ ~capStatus(state, deposits).withinCap, "cap_exceeded", "failed")
        \cup issue(retryStatus(state, deposits, credits).duplicateReplayKeys # {},
                   "replay_rejected", "warning")
        \cup issue("FLOWMEMORY_BASE8453_SUPPORTED_TOKEN" \in missingEnvNames(env),
                   "unsupported_asset", "blocked")
        \cup issue(\A i \in DOMAIN deposits : ~deposits[i].baseMainnet, "no_deposits_observed", "blocked")

buildBridgeLiveReadiness(state) ==
    LET issues == readinessIssues(state)
        any(status) == \E i \in issues : i[2] = status
    IN  [failClosedStatus |-> IF any("failed") THEN "FAILED" ELSE IF any("blocked") THEN "BLOCKED"
                              ELSE "READY_FOR_OPERATOR_LIVE_PILOT",
         issues |-> issues]

---------------------------------------------------------------------------
\* Lifecycle records.  An amount that may be absent is a sequence of at most one.

some(o, f) == IF hasField(o, f) THEN << o[f] >> ELSE <<>>
orElse(a, b) == IF a # <<>> THEN a ELSE b

\* The baseline is the deposit's amount, which is never absent.
valueEquality(values) ==
    [allPresent |-> \A k \in DOMAIN values : values[k] # <<>>,
     allEqual   |-> \A k \in DOMAIN values : values[k] = values["depositAmount"]]

lifecycleRecord(deposit, credits, withdrawals, releases, applications, transfers) ==
    LET credit == findRow(credits, LAMBDA c : matchesDeposit(c, deposit))
        creditId == first(credit, <<"creditId">>, NoId)
        forCredit(row) == \/ sameId(first(row, <<"creditId">>, NoId), creditId)
                          \/ sameId(first(row, <<"depositId">>, NoId), deposit.depositId)
        application == findRow(applications, forCredit)
        withdrawal == findRow(withdrawals, forCredit)
        intentId == first(withdrawal, <<"withdrawalIntentId">>, NoId)
        matching == SelectSeq(releases, LAMBDA r :
                        forCredit(r) \/ sameId(r.withdrawalIntentId, intentId))
        final == SelectSeq(matching, LAMBDA r : r.status \in {"recorded", "released"})
        release == IF final # <<>> THEN Head(final)
                   ELSE IF matching # <<>> THEN Head(matching) ELSE Null
        account == first(credit, <<"accountId">>, NoId)
        asset == first(credit, <<"token">>, NoId)
        transfer == findRow(transfers, LAMBDA t : /\ account # NoId
                                                  /\ account \in {t.fromAccountId, t.toAccountId}
                                                  /\ NoId \notin {asset, t.assetId} => t.assetId = asset)
        credited == some(credit, "amount")
        equality == valueEquality([depositAmount |-> << deposit.amount >>, creditedAmount |-> credited,
            walletDelta |-> orElse(some(application, "amount"), credited),
            transferableAmount |-> orElse(some(transfer, "amount"), credited),
            withdrawalAmount |-> some(withdrawal, "amount"),
            releaseAmount |-> orElse(some(release, "amount"), some(withdrawal, "amount"))])
    IN  [depositId |-> deposit.depositId, creditId |-> creditId, withdrawalIntentId |-> intentId,
         releaseEvidenceId |-> first(release, <<"releaseEvidenceId">>, NoId),
         replayKey |-> deposit.replayKey, replayStatus |-> deposit.replayStatus,
         txHash |-> deposit.txHash, sourceWallet |-> deposit.sender,
         recipientWallet |-> IF account # NoId THEN account ELSE deposit.flowmemoryRecipient,
         amountSmallestUnits |-> deposit.amount, liveArtifact |-> deposit.baseMainnet,
         equality |-> equality,
         status |-> CASE first(release, <<"status">>, "") = "recorded" -> "release_evidence_recorded"
                      [] ~isNull(withdrawal) -> "withdrawal_intent_recorded"
                      [] ~isNull(credit) /\ statusIsApplied(credit.status) -> "credited"
                      [] ~isNull(credit) -> credit.status
                      [] OTHER -> deposit.status,
         statuses |-> { r.status : r \in { r \in {deposit, credit, withdrawal, release} : ~isNull(r) } }]

buildLifecycleRecords(state) ==
    LET credits == pilotCreditRows(state)
        withdrawals == pilotWithdrawalRows(state)
        releases == pilotReleaseEvidenceRows(state)
        applications == runtimeApplicationRows(state)
        transfers == walletTransferRows(state)
    IN  mapSeq(pilotDepositRows(state), LAMBDA d :
            lifecycleRecord(d, credits, withdrawals, releases, applications, transfers))

summarizeExactValueChecks(records) ==
    [exactRecords |-> Len(SelectSeq(records, LAMBDA r : r.equality.allEqual)),
     allRecordsExact |-> records # <<>> /\ \A i \in DOMAIN records : records[i].equality.allEqual]

---------------------------------------------------------------------------
\* The pilot's status.

\* The first phase that is not live names the operator's next step.
nextStep(lifecycle, emergency) ==
    LET open == findRow(lifecycle, LAMBDA phase : phase.state # "live")
    IN  IF emergency.state = "error" THEN "stop" ELSE IF isNull(open) THEN "export" ELSE open.phase

lifecyclePhases(state) ==
    LET deposits == pilotDepositRows(state)
        credits == pilotCreditRows(state)
        withdrawals == pilotWithdrawalRows(state)
        releases == pilotReleaseEvidenceRows(state)
        some_(rows, P(_)) == SelectSeq(rows, P) # <<>>
        phase(name, s) == [phase |-> name, state |-> s]
        graded(rows, P(_)) == IF some_(rows, P) THEN "live" ELSE IF rows # <<>> THEN "degraded" ELSE "error"
    IN  << phase("base_deposit_observed", graded(deposits, LAMBDA d : d.baseMainnet)),
           phase("local_credit_applied", graded(credits, LAMBDA c : statusIsApplied(c.status))),
           phase("replay_retry_checked", retryStatus(state, deposits, credits).state),
           phase("withdrawal_intent_recorded",
                 IF some_(withdrawals, LAMBDA w : w.status # "rejected") THEN "live" ELSE "degraded"),
           phase("release_evidence_recorded",
                 IF some_(releases, LAMBDA r : r.status \in {"recorded", "released"})
                 THEN "live" ELSE "degraded"),
           phase("caps_enforced", capStatus(state, deposits).state),
           phase("pause_clear", pauseStatus(state).state),
           phase("emergency_clear", emergencyStatus(state).state) >>

buildPilotLifecycle(state) ==
    LET lifecycle == lifecyclePhases(state)
        any(s) == \E i \in DOMAIN lifecycle : lifecycle[i].state = s
        records == buildLifecycleRecords(state)
    IN  [state |-> IF any("error") THEN "error" ELSE IF any("degraded") THEN "degraded" ELSE "live",
         nextOperatorStep |-> nextStep(lifecycle, emergencyStatus(state)), lifecycle |-> lifecycle,
         depositObservations |-> pilotDepositRows(state), credits |-> pilotCreditRows(state),
         withdrawalIntents |-> pilotWithdrawalRows(state), lifecycleRecords |-> records,
         releaseEvidence |-> pilotReleaseEvidenceRows(state),
         bridgeLiveReadiness |-> buildBridgeLiveReadiness(state),
         exactValueChecks |-> summarizeExactValueChecks(records)]

---------------------------------------------------------------------------
\* The methods.

pilotStatus(state) == answer(buildPilotLifecycle(state))
pilotDepositObservationList(params, state) == listResult(pilotDepositRows(state), params)
pilotCreditList(params, state) == listResult(pilotCreditRows(state), params)
pilotWithdrawalIntentList(params, state) == listResult(pilotWithdrawalRows(state), params)
pilotReleaseEvidenceList(params, state) == listResult(pilotReleaseEvidenceRows(state), params)
pilotLifecycleRecordList(params, state) == listResult(buildLifecycleRecords(state), params)
walletBalanceList(params, state) == listResult(walletBalanceRows(state), params)
walletTransferHistory(params, state) == listResult(walletTransferRows(state), params)
pilotCapStatus(state) == answer(capStatus(state, pilotDepositRows(state)))
pilotPauseStatus(state) == answer(pauseStatus(state))
pilotEmergencyStatus(state) == answer(emergencyStatus(state))
bridgeLiveReadiness(state) == answer(buildBridgeLiveReadiness(state))
pilotRetryStatus(state) ==
    answer(retryStatus(state, pilotDepositRows(state), pilotCreditRows(state)))

requirePilotEvidence(state) ==
    LET lifecycle == buildPilotLifecycle(state)
    IN  IF <<>> \in {lifecycle.depositObservations, lifecycle.credits,
                     lifecycle.withdrawalIntents, lifecycle.releaseEvidence}
        THEN rejected("objectNotFound") ELSE answer(lifecycle)
=============================================================================
