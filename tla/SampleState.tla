---------------------------- MODULE SampleState -----------------------------
(***************************************************************************)
(* The files of a small deployment, shaped like the repository's committed *)
(* fixtures: one or two objects of every kind the runtime, the indexer,    *)
(* the verifier, the bridge relayer and the wallet write.  The handoff of  *)
(* the relayer is taken at each stage of a deposit's life.                 *)
(***************************************************************************)
EXTENDS ControlPlaneRpc

\* localeCompare on the ids of the sample: word by word, by the place in this list.
Words == << "account", "agent", "artifact", "bridge_credit", "cell", "credit", "dep", "dep2", "intent",
            "model", "obs", "obs2", "operator", "pool", "receipt", "report", "root", "token", "tx",
            "tx2", "wallet" >>

wordRank(w) == IF \E i \in DOMAIN Words : Words[i] = w THEN 1 + SelectInSeq(Words, LAMBDA x : x = w) ELSE 1

sampleRank(id) == FoldLeft(LAMBDA n, w : 23 * n + wordRank(w), 0, take(id, 6))

---------------------------------------------------------------------------
\* Indexer, verifier and launch core.

Observations ==
  << [observationId |-> <<"obs">>, pulseId |-> <<"pulse">>, txHash |-> <<"tx">>, blockNumber |-> 7,
      blockHash |-> <<"block7">>, chainId |-> 8453, transactionIndex |-> 0, logIndex |-> 0,
      rootfieldId |-> <<"root">>, lifecycleState |-> "finalized"],
     [observationId |-> <<"obs2">>, pulseId |-> <<"pulse2">>, txHash |-> <<"tx2">>, blockNumber |-> 8,
      blockHash |-> <<"block8">>, chainId |-> 8453, transactionIndex |-> 0, logIndex |-> 1,
      rootfieldId |-> <<"root">>, lifecycleState |-> "observed"] >>

RejectedLog == [txHash |-> <<"tx3">>, blockNumber |-> 8, blockHash |-> <<"block8">>, chainId |-> 8453,
                transactionIndex |-> 2, logIndex |-> 3]

sampleIndexer == [observations |-> Observations, rejectedLogs |-> << RejectedLog >>]

reportOf(o) ==
  [reportId |-> <<"report">> \o o.observationId, reportDigest |-> <<"digest">> \o o.observationId,
   observationId |-> o.observationId, rootfieldId |-> o.rootfieldId, status |-> "valid",
   verifierSpec |-> <<"spec">>, resolverPolicyId |-> <<"policy">>]

sampleReports(observations) == [reports |-> mapSeq(observations, reportOf)]

receiptOf(r) ==
  [receiptId |-> <<"receipt">> \o r.observationId, observationId |-> r.observationId,
   reportId |-> r.reportId, reportDigest |-> r.reportDigest, rootfieldId |-> r.rootfieldId,
   flowMemoryStatus |-> "verified", verifierStatus |-> r.status, evidenceUris |-> {<<"uri">>}]

AgentBondFixture ==
  [task |-> [taskId |-> <<"task">>, rootfieldId |-> <<"root">>, agent |-> <<"agent">>, status |-> "settled"],
   settlement |-> [status |-> "settled"], verifierReport |-> [status |-> "valid"]]

\* Rootflow objects of every report that verified.
sampleLaunchCore(indexer, verifier) ==
  [memoryReceipts |-> mapSeq(verifier.reports, receiptOf),
   memorySignals |-> mapSeq(indexer.observations, LAMBDA o :
      [signalId |-> <<"signal">> \o o.observationId, observationId |-> o.observationId,
       pulseId |-> o.pulseId, rootfieldId |-> o.rootfieldId]),
   rootflowTransitions |-> mapSeq(verifier.reports, LAMBDA r :
      [transitionId |-> <<"transition">> \o r.observationId, observationId |-> r.observationId,
       memoryReceiptId |-> <<"receipt">> \o r.observationId,
       memorySignalId |-> <<"signal">> \o r.observationId, reportId |-> r.reportId]),
   rootfieldBundles |-> << [bundleId |-> <<"bundle">>, rootfieldId |-> <<"root">>, status |-> "verified",
                            latestRoot |-> <<"latest">>] >>,
   agentMemoryViews |-> << [viewId |-> <<"view">>, rootfieldId |-> <<"root">>, status |-> "verified"] >>,
   agentBondFixture |-> AgentBondFixture]

sampleArtifacts == [artifactsByUri |-> (<<"uri">> :> [artifactCommitment |-> <<"commitment">>])]

TaskScout ==
  [agentConfig |-> [agentId |-> <<"scout">>, rootfieldId |-> <<"scout", "root">>],
   agentMemoryView |-> [viewId |-> <<"scout", "view">>, rootfieldId |-> <<"scout", "root">>, status |-> "verified",
                        latestMemoryRoot |-> <<"scout", "memory">>],
   memoryCell |-> [memoryCellId |-> <<"scout", "cell">>, rootfieldId |-> <<"scout", "root">>, status |-> "verified"],
   actionReceipt |-> [actionReceiptId |-> <<"scout", "action">>],
   memoryDelta |-> [memoryDeltaId |-> <<"scout", "delta">>],
   verifierReport |-> [verifierReportId |-> <<"scout", "report">>, status |-> "verified"]]

sampleReplay(scout) == [agentId |-> scout.agentConfig.agentId, match |-> TRUE]

---------------------------------------------------------------------------
\* The runtime's state file.

RuntimeState ==
  [operatorKeyReferences |-> (<<"operator", "key">> :> [operatorId |-> <<"operator">>]),
   rootfields |-> (<<"root">> :> [active |-> TRUE, latestRoot |-> <<"runtime", "root">>])
                  @@ (<<"root2">> :> [active |-> FALSE]),
   agentAccounts |-> (<<"agent">> :> [agentId |-> <<"agent">>, memoryRoot |-> <<"memory">>]),
   localTestUnitBalances |-> (<<"account">> :> [accountId |-> <<"account">>, owner |-> <<"agent">>, units |-> 5])
                             @@ (<<"wallet">> :> [accountId |-> <<"wallet">>, owner |-> <<"wallet">>, units |-> 0]),
   balanceTransfers |-> (<<"transfer">> :> [transferId |-> <<"transfer">>, fromAccountId |-> <<"account">>,
                                            toAccountId |-> <<"agent">>, amountUnits |-> 1]),
   modelPassports |-> (<<"model">> :> [modelFamily |-> "local"]),
   memoryCells |-> (<<"cell">> :> [memoryCellId |-> <<"cell">>, rootfieldId |-> <<"root">>, status |-> "active"]),
   challenges |-> (<<"challenge">> :> [challengeId |-> <<"challenge">>, receiptId |-> <<"work">>, status |-> "resolved"]),
   finalityReceipts |-> (<<"finality">> :> [finalityReceiptId |-> <<"finality">>, receiptId |-> <<"work">>,
                                            rootfieldId |-> <<"root">>, finalityStatus |-> "finalized"]),
   artifactCommitments |-> (<<"artifact">> :> [artifactId |-> <<"artifact">>, rootfieldId |-> <<"root">>,
                                               commitment |-> <<"commitment2">>, uriHint |-> <<"uri2">>]),
   verifierModules |-> (<<"verifier">> :> [ruleSet |-> "work"]),
   workReceipts |-> (<<"work">> :> [receiptId |-> <<"work">>, rootfieldId |-> <<"root">>]),
   verifierReports |-> (<<"workReport">> :> [reportId |-> <<"workReport">>, receiptId |-> <<"work">>,
                                             verifierId |-> <<"verifier">>, status |-> "verified"]),
   tokenDefinitions |-> (<<"token">> :> [tokenId |-> <<"token">>, symbol |-> <<"TKN">>, totalSupply |-> 9]),
   tokenBalances |-> (<<"held">> :> [balanceId |-> <<"held">>, owner |-> <<"wallet">>, tokenId |-> <<"token">>, units |-> 9]),
   dexPools |-> (<<"pool">> :> [poolId |-> <<"pool">>, tokenA |-> <<"token">>, tokenB |-> <<"unit">>]),
   lpPositions |-> (<<"position">> :> [positionId |-> <<"position">>, poolId |-> <<"pool">>, owner |-> <<"wallet">>]),
   swapReceipts |-> (<<"swap">> :> [swapId |-> <<"swap">>, poolId |-> <<"pool">>, trader |-> <<"account">>]),
   blocks |-> << [blockNumber |-> 1, blockHash |-> <<"b1">>, txIds |-> << <<"t1">>, <<"t2">> >>,
                  receipts |-> << [txId |-> <<"t1">>, status |-> "applied"], [txId |-> <<"t2">>, status |-> "rejected"] >>],
                 [blockNumber |-> 2, blockHash |-> <<"b2">>, txIds |-> <<>>, receipts |-> <<>>] >>,
   pendingTxs |-> << [txId |-> <<"t3">>] >>]

---------------------------------------------------------------------------
\* The bridge: a deposit at each stage of its life, as the relayer hands it over.

observationOf(dep, chain, tx) ==
  [observationId |-> <<"observed">> \o dep, replayKey |-> <<"replay">> \o dep,
   deposit |-> [depositId |-> dep, sourceChainId |-> chain, txHash |-> tx, logIndex |-> 0, token |-> <<"usdc">>,
                amount |-> 20, sender |-> <<"depositor">>, flowmemoryRecipient |-> <<"wallet">>, status |-> "observed"],
   guardrails |-> IF chain = 8453 THEN [maxUsd |-> 20] ELSE [noSecrets |-> TRUE]]

creditOf(o, status) ==
  [creditId |-> <<"credit">> \o o.deposit.depositId, observationId |-> o.observationId,
   depositId |-> o.deposit.depositId, replayKey |-> o.replayKey,
   source |-> [chainId |-> o.deposit.sourceChainId, txHash |-> o.deposit.txHash],
   token |-> o.deposit.token, amount |-> o.deposit.amount,
   flowmemoryRecipient |-> o.deposit.flowmemoryRecipient, status |-> status]

intentOf(c) ==
  [withdrawalIntentId |-> <<"intent">> \o c.creditId, creditId |-> c.creditId, depositId |-> c.depositId,
   destinationChainId |-> c.source.chainId, token |-> c.token, amount |-> c.amount,
   flowmemoryAccount |-> c.flowmemoryRecipient, baseRecipient |-> <<"depositor">>, status |-> "requested"]

evidenceOf(w) ==
  [releaseEvidenceId |-> <<"evidence">> \o w.creditId, withdrawalIntentId |-> w.withdrawalIntentId,
   creditId |-> w.creditId, depositId |-> w.depositId,
   releaseCall |-> [amount |-> w.amount, token |-> w.token, recipient |-> w.baseRecipient]]

applicationOf(c) == [creditId |-> c.creditId, depositId |-> c.depositId, amount |-> c.amount, status |-> "applied"]

Stages == << "observed", "pending", "applied", "requested", "released" >>

handoffAt(stage, chain) ==
  LET reached(s) == SelectInSeq(Stages, LAMBDA x : x = s) <= SelectInSeq(Stages, LAMBDA x : x = stage)
      o == observationOf(<<"dep">>, chain, <<"base", "tx">>)
      c == creditOf(o, IF reached("applied") THEN "applied" ELSE "pending")
      w == intentOf(c)
  IN [observations |-> << o >>, credits |-> onlyIf(reached("pending"), << c >>),
      runtimeApplications |-> onlyIf(reached("applied"), << applicationOf(c) >>),
      withdrawalIntents |-> onlyIf(reached("requested"), << w >>),
      releaseEvidences |-> onlyIf(reached("released"), << evidenceOf(w) >>),
      replayProtection |-> [duplicateReplayKeys |-> <<>>]]

\* The committed fallback holds another deposit, observed twice, at its last stage.
FallbackObservation == observationOf(<<"dep2">>, 8453, <<"base", "tx2">>)
FallbackDuplicate == [FallbackObservation EXCEPT !.observationId = <<"observed", "again">>,
                                                 !.deposit.status = "duplicate_replay_rejected"]
FallbackCredit == creditOf(FallbackObservation, "applied")

ExplorerFallback ==
  [objects |-> [tokens |-> (<<"token2">> :> [tokenId |-> <<"token2">>, symbol |-> <<"LTU">>,
                                             provenance |-> "fixture-fallback"]),
                withdrawals |-> (<<"withdrawal">> :> [status |-> "requested", provenance |-> "fixture-fallback"])],
   bridge |-> [observations |-> << FallbackObservation, FallbackDuplicate >>,
               credits |-> << FallbackCredit,
                              [creditId |-> <<"credit", "again">>, rejectionReason |-> "duplicate_replay_key"]
                              @@ creditOf(FallbackDuplicate, "rejected") >>,
               withdrawalIntents |-> << intentOf(FallbackCredit) >>,
               releaseEvidence |-> << evidenceOf(intentOf(FallbackCredit)) @@ [status |-> "recorded"] >>]]

sampleMockObservation == observationOf(<<"mock">>, 84532, <<"mock", "tx">>)

---------------------------------------------------------------------------
WalletProof ==
  [transfer |-> [receipt |-> [txId |-> <<"proof">>, from |-> <<"wallet">>, to |-> <<"account">>, assetId |-> <<"usdc">>,
                              amount |-> 20, balancesAfter |-> [from |-> 0, to |-> 20]]]]

\* Every file present and whole.
SampleFiles ==
  LET verifier == sampleReports(Observations) IN
  [artifacts |-> loaded(sampleArtifacts), indexer |-> loaded(sampleIndexer),
   verifier |-> loaded(verifier), launchCore |-> loaded(sampleLaunchCore(sampleIndexer, verifier)),
   agentBondFixture |-> loaded(AgentBondFixture), localRuntime |-> loaded(RuntimeState),
   localRuntimeLaunch |-> loaded(RuntimeState), bridgeObservation |-> missing,
   mockDeposit |-> loaded(sampleMockObservation), txIntake |-> <<>>, bridgeIntake |-> <<>>,
   localRuntimeIndexerHandoff |-> loaded([blocks |-> RuntimeState.blocks]),
   localRuntimeVerifierHandoff |-> loaded([verifierReports |-> RuntimeState.verifierReports]),
   localRuntimeControlPlaneHandoff |-> loaded([objects |-> RuntimeState]),
   explorerFallback |-> loaded(ExplorerFallback), txFixtures |-> loaded([txs |-> << [type |-> "faucet"] >>]),
   bridgeRuntimeHandoff |-> loaded(handoffAt("released", 8453)), walletTransferProof |-> missing,
   walletPublicMetadata |-> loaded([accounts |-> << [accountId |-> <<"wallet">>, balance |-> 0] >>]),
   agentBondReplayReport |-> loaded([match |-> TRUE]), agentBondEconomicReport |-> loaded([ok |-> TRUE]),
   agentBondReadinessReport |-> loaded([ok |-> TRUE]), taskScoutFixture |-> loaded(TaskScout),
   taskScoutReplayReport |-> missing, launchApproval |-> missing]

---------------------------------------------------------------------------
\* The agent-bond library.

Passport(agent, status, stake) ==
  [schemaVersion |-> "v1", agentId |-> agent, passportId |-> <<"passport">> \o agent, status |-> status,
   taskClasses |-> {"code.patch"}, maxOpenExposureUSDC |-> 100, currentOpenExposureUSDC |-> 0,
   stakeCapacityUSDC |-> stake, riskBand |-> "C"]

TaskEnvelope ==
  [schemaVersion |-> "v1", envelopeId |-> <<"envelope">>, envelopeHash |-> <<"hash">>, taskClass |-> "code.patch",
   requesterId |-> <<"requester">>, agentId |-> <<"agent_data_001">>, verifierId |-> <<"verifier">>,
   payoutUSDC |-> 20, riskTier |-> 1, fundingMode |-> "escrow", settlementToken |-> <<"usdc">>,
   objectiveOnly |-> TRUE, verifierFeeUSDC |-> 1, requesterCancelBondUSDC |-> 1]

RecoursePolicy ==
  [schemaVersion |-> "v1", policyId |-> <<"policy">>, taskClasses |-> {"code.patch"}, excludedTaskClasses |-> {},
   maxRiskTier |-> 2, settlementToken |-> <<"usdc">>, requireObjective |-> TRUE, coverageRatioBps |-> 5000,
   maxCoveragePerTaskUSDC |-> 10, maxCoveragePerAgentUSDC |-> 15, maxCoveragePerRequesterUSDC |-> 20,
   maxCoveragePerVerifierUSDC |-> 25, maxCoveragePerPoolUSDC |-> 50, minStakeRatioBps |-> 5000,
   minFeeRatioBps |-> 1000, verifierAllowlist |-> {}, requesterAllowlist |-> {}, baseRecourseFeeBps |-> 1000]

UsdcPool == [schemaVersion |-> "v1", poolId |-> <<"usdc", "pool">>, status |-> "active",
             taskClasses |-> {"code.patch"}, maxRiskTier |-> 2, totalAvailable |-> 40]

ExecutionReceipt(state) ==
  [schemaVersion |-> "v1", receiptId |-> <<"execution">>, receiptHash |-> <<"hash">>, agentId |-> <<"agent_code_001">>,
   envelopeId |-> <<"envelope">>, envelopeHash |-> <<"hash">>, verifierId |-> <<"verifier">>, terminalState |-> state,
   agentDelta |-> 1, requesterRefundUSDC |-> IF state = "settled_success" THEN 0 ELSE 20,
   slashedUSDC |-> IF state \in SlashedStates THEN 4 ELSE 0, verifierPayoutUSDC |-> 1]

noneOpen == [agent |-> 0, requester |-> 0, verifier |-> 0]

SampleLibrary ==
  [passports |-> << Passport(<<"agent_code_001">>, "active", 0), Passport(<<"agent_data_001">>, "active", 20) >>,
   receipts |-> << ExecutionReceipt("settled_success") >>, task |-> [payout |-> 20],
   codePatchEnvelope |-> TaskEnvelope, fundedEnvelope |-> TaskEnvelope, recourseEnvelope |-> TaskEnvelope,
   stakePool |-> [UsdcPool EXCEPT !.poolId = <<"stake", "pool">>, !.totalAvailable = 50000000], usdcPool |-> UsdcPool,
   allocation |-> [schemaVersion |-> "v1", allocationId |-> <<"allocation">>], recoursePolicy |-> RecoursePolicy,
   approvedDecision |-> buildRecourseDecision(RecoursePolicy, TaskEnvelope,
                          Passport(<<"agent_data_001">>, "active", 20), UsdcPool, Null, noneOpen),
   slashedReceipt |-> ExecutionReceipt("slashed_invalid"), creditScoreReport |-> [ok |-> TRUE],
   files |-> {<<part, kind>> : part \in FoundationParts, kind \in {"schema", "fixture", "service"}},
   valid |-> FoundationParts, broadClaim |-> [enabled |-> FALSE], mcpTools |-> MutatingTools,
   servicePayment |-> [schemaVersion |-> "v1", amountAtomic |-> 1, payTo |-> <<"service">>],
   escrowPayment |-> [schemaVersion |-> "v1", envelopeId |-> NoId, envelopeHash |-> NoId, paymentIntentId |-> <<"x402">>]]

\* A score inside band C for every history.
sampleScore(history) == 600

=============================================================================
