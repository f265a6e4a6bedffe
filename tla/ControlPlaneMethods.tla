------------------------ MODULE ControlPlaneMethods ------------------------
(***************************************************************************)
(* The control plane's read methods                                        *)
(* (services/control-plane/src/methods.ts).  A method takes its params, a  *)
(* record whose DOMAIN is what the caller gave (an empty string counts as  *)
(* not given), and the state of its context, and answers with a result or  *)
(* an error code.  A result keeps what identifies the object, its status   *)
(* and the sources its provenance names.                                   *)
(***************************************************************************)
EXTENDS ControlPlaneRows

answer(value) == [error |-> "none", result |-> value]
rejected(code) == [error |-> code]
answered(response) == response.error = "none"

---------------------------------------------------------------------------
\* Params.

\* The first of the named params that is given.
requiredString(params, names) == first(params, names, NoId)

\* A limit is an integer from 1 to 100; 50 when not given.
pageLimit(params) == IF hasField(params, "limit") THEN params.limit ELSE 50
limitAllowed(params) == pageLimit(params) \in 1..100

\* Every list method: the rows whose fields equal the filters given, cut at the limit.
listOf(params, rows, filters) ==
    IF ~limitAllowed(params) THEN rejected("invalidParams")
    ELSE answer(take(SelectSeq(rows, LAMBDA r : \A f \in filters \cap DOMAIN params : r[f] = params[f]),
                     pageLimit(params)))

\* Every get method: the first row one of whose fields is the key.
getOf(params, names, rows, fields) ==
    LET key == requiredString(params, names)
        row == findRow(rows, LAMBDA r : \E f \in fields : r[f] = key)
    IN  IF key = NoId THEN rejected("invalidParams")
        ELSE IF isNull(row) THEN rejected("objectNotFound") ELSE answer(row)

given(params, name, Wanted(_)) == hasField(params, name) => Wanted(params[name])

---------------------------------------------------------------------------
\* Status of the node and of its sources.

nodeStatus(state) ==
    [status |-> IF isNull(state.localRuntime) THEN "degraded" ELSE "ok",
     peerCount |-> Len(localRuntimePeers(state)), mempoolSize |-> Len(mempoolRows(state))]

peerList(params, state) ==
    LET peers == localRuntimePeers(state)
    IN  listOf(params, IF peers # <<>> THEN peers ELSE << [peerId |-> <<"local-single-node">>] >>, {})

CriticalSources == {"launchCore", "indexer", "verifier", "artifacts", "localRuntime"}

sourcesWith(state, status) == { s \in DOMAIN state.sources : state.sources[s] = status }

\* How many rows of each kind the status methods count.
rowCounts(state) ==
    [observations |-> Len(state.indexer.observations), verifierReports |-> Len(state.verifier.reports),
     rootfields |-> Len(rootfieldRows(state)), blocks |-> Len(blockRows(state)),
     runtimeBlocks |-> Len(activeRuntimeBlocksArray(state)),
     transactions |-> Len(transactionRows(state)), mempool |-> Len(mempoolRows(state)),
     bridgeDeposits |-> Len(bridgeDepositRows(state)), bridgeCredits |-> Len(bridgeCreditRows(state)),
     tokens |-> Len(tokenRows(state)), tokenBalances |-> Len(tokenBalanceRows(state)),
     tokenTransfers |-> Len(tokenTransferRows(state)), pools |-> Len(poolRows(state)),
     lpPositions |-> Len(lpPositionRows(state)), swaps |-> Len(swapRows(state))]

health(state) ==
    LET missingSources == sourcesWith(state, "missing")
        degraded == sourcesWith(state, "degraded")
    IN  [status |-> IF degraded = {} /\ CriticalSources \cap missingSources = {} THEN "ok"
                    ELSE "degraded",
         counts |-> rowCounts(state), missingOptionalSources |-> missingSources,
         degradedSources |-> degraded]

\* localRuntimeBlocks counts the active runtime's blocks when it has any.
chainStatus(state) ==
    LET active == activeRuntimeBlocksArray(state)
        latest == latestBlock(state)
        handoffLoaded == "loaded" \in { state.sources["localRuntimeIndexerHandoff"],
                                        state.sources["localRuntimeVerifierHandoff"] }
    IN  [nodeRunning |-> ~isNull(state.localRuntime) /\ state.sources["localRuntime"] # "missing",
         currentBlock |-> latest.blockNumber, currentBlockHash |-> latest.blockHash,
         finalizedBlock |-> finalizedBlock(state), peerCount |-> Len(localRuntimePeers(state)),
         restart |-> IF state.sources["localRuntime"] = "loaded" THEN "runtime-state-loaded"
                     ELSE state.sources["localRuntime"],
         import |-> IF handoffLoaded THEN "handoff-loaded" ELSE "missing",
         latestRootPreserved |-> ~isNull(latestRuntimeBlock(state)),
         counts |-> rowCounts(state) @@
            [agents |-> Len(agentRows(state)), models |-> Len(modelRows(state)),
             workReceipts |-> Len(workReceiptRows(state)),
             artifactAvailability |-> Len(artifactAvailabilityRows(state)),
             verifierModules |-> Len(verifierModuleRows(state)),
             memoryCells |-> Len(memoryCellRows(state)), challenges |-> Len(challengeRows(state)),
             finalityRows |-> Len(finalityRows(state)), accounts |-> Len(nodeAccountRows(state)),
             withdrawals |-> Len(withdrawalRows(state)),
             agentBondTasks |-> Len(agentBondTaskRows(state)),
             localRuntimeBlocks |-> IF active # <<>> THEN Len(active)
                                    ELSE Len(localRuntimeBlocksArray(state))]]

\* The active runtime's newest block, else the last block of the block source.
localRuntimeState(state) ==
    LET latest == latestRuntimeBlock(state)
        blocks == localRuntimeBlocksArray(state)
    IN  [available |-> ~isNull(state.localRuntime),
         latestBlock |-> IF ~isNull(latest) THEN latest
                         ELSE IF blocks = <<>> THEN Null ELSE Last(blocks),
         rootfieldCount |-> Cardinality(DOMAIN localRuntimeRootfields(state)),
         workReceiptCount |-> Cardinality(DOMAIN localRuntimeWorkReceipts(state)),
         verifierReportCount |-> Cardinality(DOMAIN localRuntimeReports(state)),
         runtimeBlockCount |-> Len(activeRuntimeBlocksArray(state)),
         accounts |-> nodeAccountRows(state), walletMetadata |-> walletMetadataRows(state),
         productMapCounts |-> [k \in {TokenMaps, TokenBalanceMaps, TokenTransferMaps, PoolMaps,
                                      LpPositionMaps, SwapMaps} |-> localRuntimeProductMapCount(state, k)]]

---------------------------------------------------------------------------
\* Blocks, transactions and the mempool.

withTransactions(state, params, block) ==
    IF first(params, <<"includeTransactions">>, FALSE)
    THEN block @@ [transactions |-> transactionsOf(state, block)] ELSE block

blockList(params, state) ==
    listOf(params, mapSeq(blockRows(state), LAMBDA b : withTransactions(state, params, b)), {"source"})

\* A block is named by its hash or by its number.
blockGet(params, state) ==
    LET row == findRow(blockRows(state), LAMBDA b :
            IF hasField(params, "blockHash") THEN b.blockHash = params.blockHash
            ELSE b.blockNumber = params.blockNumber)
    IN  IF {"blockHash", "blockNumber"} \cap DOMAIN params = {} THEN rejected("invalidParams")
        ELSE IF isNull(row) THEN rejected("objectNotFound")
        ELSE answer(withTransactions(state, params, row))

transactionList(params, state) ==
    listOf(params, SelectSeq(transactionRows(state), LAMBDA tx :
               given(params, "rootfieldId", LAMBDA id : id \in tx.rootfieldIds)),
           {"blockNumber", "status", "source"})

transactionGet(params, state) ==
    getOf(params, <<"txId", "txHash", "transactionId">>, transactionRows(state), {"transactionId"})

mempoolList(params, state) == listOf(params, mempoolRows(state), {})

---------------------------------------------------------------------------
\* Accounts and product objects.

accountList(params, state) == listOf(params, nodeAccountRows(state), {})

accountGet(params, state) ==
    getOf(params, <<"accountId", "agentId", "operatorId">>, nodeAccountRows(state),
          {"accountId", "keyReferenceId"})

balanceGet(params, state) == accountGet(params, state)

tokenList(params, state) == listOf(params, tokenRows(state), {"status"})
tokenGet(params, state) ==
    getOf(params, <<"tokenId", "assetId", "symbol">>, tokenRows(state), {"tokenId", "symbol", "assetId"})

tokenBalanceList(params, state) == listOf(params, tokenBalanceRows(state), {"accountId", "tokenId"})

\* The key is a balance or an account; a tokenId given as well must match.
tokenBalanceGet(params, state) ==
    getOf(params, <<"balanceId", "tokenBalanceId", "accountId">>,
          SelectSeq(tokenBalanceRows(state), LAMBDA b : given(params, "tokenId", LAMBDA t : b.tokenId = t)),
          {"balanceId", "accountId"})

tokenTransferList(params, state) ==
    listOf(params, SelectSeq(tokenTransferRows(state), LAMBDA t :
               given(params, "accountId", LAMBDA a : a \in {t.fromAccount, t.toAccount})),
           {"tokenId"})
tokenTransferGet(params, state) ==
    getOf(params, <<"transferId", "tokenTransferId", "txId", "transactionId">>, tokenTransferRows(state), {"transferId", "txId"})

poolList(params, state) ==
    listOf(params, SelectSeq(poolRows(state), LAMBDA p :
               given(params, "tokenId", LAMBDA t : t \in {p.token0, p.token1})), {})
poolGet(params, state) == getOf(params, <<"poolId", "address">>, poolRows(state), {"poolId", "address"})

lpPositionList(params, state) == listOf(params, lpPositionRows(state), {"poolId", "accountId"})
lpPositionGet(params, state) ==
    getOf(params, <<"positionId", "lpPositionId", "accountId">>, lpPositionRows(state),
          {"positionId", "accountId"})

swapList(params, state) == listOf(params, swapRows(state), {"poolId", "accountId"})
swapGet(params, state) ==
    getOf(params, <<"swapId", "receiptId", "txId", "transactionId">>, swapRows(state), {"swapId", "txId"})

\* The stages of the product flow and whether the state holds evidence of each.
productFlowStages(state) ==
    LET some(rows) == rows # <<>>
        credits == some(bridgeCreditRows(state))
    IN  [wallet |-> some(walletMetadataRows(state)) \/ some(nodeAccountRows(state)),
         funding |-> ~isNull(localRuntimeLocalTestUnitBalances(state)) \/ credits
                     \/ some(tokenBalanceRows(state)),
         transfer |-> ~isNull(localRuntimeBalanceTransfers(state)) \/ some(tokenTransferRows(state)),
         token_launch |-> localRuntimeProductMapCount(state, TokenMaps) > 0,
         dex_pool |-> some(poolRows(state)), liquidity |-> some(lpPositionRows(state)),
         swap |-> some(swapRows(state)), bridge_credit |-> credits,
         explorer |-> some(blockRows(state)) /\ some(transactionRows(state))]

productFlowStatus(state) ==
    LET stages == productFlowStages(state)
    IN  [ready |-> \A s \in DOMAIN stages : stages[s],
         missing |-> { s \in DOMAIN stages : ~stages[s] }]

\* One no-value event per account.
faucetEventList(params, state) ==
    listOf(params, mapSeq(nodeAccountRows(state), LAMBDA a :
        [eventId |-> stableId("faucet_event.no_value", a.accountId), accountId |-> a.accountId]), {})

walletMetadataList(params, state) == listOf(params, walletMetadataRows(state), {})
walletMetadataGet(params, state) ==
    getOf(params, <<"walletId", "accountId">>, walletMetadataRows(state), {"walletId", "accountId"})

---------------------------------------------------------------------------
\* Looking an object up by any of the ids it is known under.

lookup(rows, fields, key) ==
    findRow(rows, LAMBDA r : \E f \in fields \cap DOMAIN r : r[f] = key)

runtimeObjects(m) == mapSeq(entries(m), LAMBDA e : e.object @@ [id |-> e.id])

signalByAnyId(state, key) ==
    lookup(state.launchCore.memorySignals, {"signalId", "observationId", "pulseId"}, key)
bundleByAnyId(state, key) == lookup(state.launchCore.rootfieldBundles, {"bundleId", "rootfieldId"}, key)
viewByAnyId(state, key) == lookup(state.launchCore.agentMemoryViews, {"viewId", "rootfieldId"}, key)

ModuleKeys == {"moduleId", "verifierId", "resolverPolicyId"}
AvailabilityKeys == {"availabilityId", "artifactId", "uri", "commitment"}

\* The product object a key names, in the order provenance prefers them.
ProductLookups(state) ==
    << <<"token", tokenRows(state), {"tokenId", "symbol"}>>,
       <<"token_balance", tokenBalanceRows(state), {"balanceId", "accountId"}>>,
       <<"token_transfer", tokenTransferRows(state), {"transferId", "txId"}>>,
       <<"pool", poolRows(state), {"poolId"}>>,
       <<"lp_position", lpPositionRows(state), {"positionId", "accountId"}>>,
       <<"swap", swapRows(state), {"swapId", "txId"}>> >>

RuntimeMaps == <<"workReceipts", "verifierReports", "rootfields", "agentAccounts", "memoryCells",
                 "challenges", "finalityReceipts">>

\* findObject tries the launch core and the reports, then the rows, then the maps of
\* the runtime.
Lookups(state) ==
    << <<"memory_receipt", state.launchCore.memoryReceipts,
         {"receiptId", "observationId", "reportId", "reportDigest"}>>,
       <<"verifier_report", state.verifier.reports, {"reportId", "reportDigest", "observationId"}>>,
       <<"memory_signal", state.launchCore.memorySignals, {"signalId", "observationId", "pulseId"}>>,
       <<"rootflow_transition", state.launchCore.rootflowTransitions,
         {"transitionId", "observationId", "memoryReceiptId", "memorySignalId", "reportId"}>>,
       <<"rootfield_bundle", state.launchCore.rootfieldBundles, {"bundleId", "rootfieldId"}>>,
       <<"agent_memory_view", state.launchCore.agentMemoryViews, {"viewId", "rootfieldId"}>>,
       <<"block", blockRows(state), {"blockHash"}>>,
       <<"transaction", transactionRows(state), {"transactionId"}>>,
       <<"model", modelRows(state), {"modelId", "rootfieldId"}>>,
       <<"verifier_module", verifierModuleRows(state), ModuleKeys>>,
       <<"artifact_availability", artifactAvailabilityRows(state), AvailabilityKeys>>,
       <<"account", nodeAccountRows(state), {"accountId", "keyReferenceId"}>>,
       <<"bridge_deposit", bridgeDepositRows(state), {"depositId", "observationId", "txHash"}>>,
       <<"bridge_credit", bridgeCreditRows(state), {"creditId", "depositId", "accountId"}>>,
       <<"withdrawal", withdrawalRows(state), {"withdrawalId", "creditId", "depositId", "accountId"}>> >>
    \o ProductLookups(state)
    \o mapSeq(RuntimeMaps, LAMBDA m : << m, runtimeObjects(localRuntimeMap(state, m)), {"id"} >>)

\* The first lookup that finds the key; Null when none does.
findObject(state, key) ==
    LET found == findRow(Lookups(state), LAMBDA l : ~isNull(lookup(l[2], l[3], key)))
    IN  IF isNull(found) THEN Null ELSE [type |-> found[1], object |-> lookup(found[2], found[3], key)]

---------------------------------------------------------------------------
\* Provenance: the sources an object was read from and the objects it links to.

onlyIf(condition, s) == IF condition THEN s ELSE <<>>

linkStatus(objects, default) ==
    LET named == SelectSeq(objects, LAMBDA o : hasField(o, "status"))
    IN  IF named = <<>> THEN default ELSE Head(named).status

linkOf(objects, field) ==
    LET named == SelectSeq(objects, LAMBDA o : hasField(o, field))
    IN  IF named = <<>> THEN NoId ELSE Head(named)[field]

runtimeOr(row, other) ==
    IF row.source \in {"local-runtime", "active-local-runtime"} THEN <<"localRuntime">> ELSE <<other>>

provenanceForObject(state, key) ==
    LET receipt == receiptByAnyId(state, key)
        report == reportByIdOrObservation(state, key)
        bundle == bundleByAnyId(state, key)
        view == viewByAnyId(state, key)
        block == lookup(blockRows(state), {"blockHash"}, key)
        transaction == lookup(transactionRows(state), {"transactionId"}, key)
        located == IF isNull(block) THEN transaction ELSE block
        model == lookup(modelRows(state), {"modelId", "rootfieldId"}, key)
        verifierModule == lookup(verifierModuleRows(state), ModuleKeys, key)
        availability == lookup(artifactAvailabilityRows(state), AvailabilityKeys, key)
        product == findRow(mapSeq(ProductLookups(state), LAMBDA l : lookup(l[2], l[3], key)),
                           LAMBDA o : ~isNull(o))
        selectedReceipt == IF isNull(receipt) /\ ~isNull(report)
                           THEN receiptByAnyId(state, report.reportId) ELSE receipt
        signal == signalByAnyId(state, key)
        selectedSignal == IF isNull(signal) /\ ~isNull(selectedReceipt)
                          THEN signalByObservation(state, selectedReceipt.observationId) ELSE signal
        transition == transitionByAnyId(state, key)
        selectedTransition == IF isNull(transition) /\ ~isNull(selectedReceipt)
                              THEN transitionByAnyId(state, selectedReceipt.receiptId) ELSE transition
        some(o) == ~isNull(o)
        sources ==
            onlyIf(\E o \in {selectedSignal, selectedTransition, bundle, view, selectedReceipt} : some(o),
                   <<"flowmemory">>)
            \o onlyIf(some(selectedReceipt) \/ some(report), <<"verifier">>)
            \o onlyIf(some(selectedSignal), <<"indexer">>)
            \o (IF some(located) THEN runtimeOr(located, "indexer") ELSE <<>>)
            \o (IF some(model) THEN runtimeOr(model, "flowmemory") ELSE <<>>)
            \o (IF some(verifierModule) THEN runtimeOr(verifierModule, "verifier") ELSE <<>>)
            \o (IF isNull(availability) THEN <<>>
                ELSE IF availability.source = "verifier-fixture" THEN <<"verifier">> ELSE <<"localRuntime">>)
            \o (IF isNull(product) THEN <<>>
                ELSE IF product.source[1] = "fixture-fallback"
                     THEN <<"dashboard">> ELSE <<"localRuntime">>)
        inRuntime == \E m \in ToSet(RuntimeMaps) \cup {"artifactCommitments"} :
                        key \in DOMAIN localRuntimeMap(state, m)
    IN  [sources |-> IF sources = <<>> /\ inRuntime THEN <<"localRuntime">> ELSE sources,
         links |-> [receiptId |-> linkOf(<<selectedReceipt>>, "receiptId"),
                    reportId |-> linkOf(<<selectedReceipt, report>>, "reportId"),
                    observationId |-> linkOf(<<selectedReceipt, report, selectedSignal>>, "observationId"),
                    signalId |-> linkOf(<<selectedSignal>>, "signalId"),
                    transitionId |-> linkOf(<<selectedTransition>>, "transitionId"),
                    rootfieldId |-> linkOf(<<selectedReceipt, selectedSignal, bundle, view>>, "rootfieldId"),
                    blockHash |-> linkOf(<<located>>, "blockHash")]]

\* A uri names a verifier artifact; any other key must have at least one source.
provenanceGet(params, state) ==
    LET key == requiredString(params, <<"objectId", "uri", "receiptId", "reportId", "rootfieldId">>)
        provenance == provenanceForObject(state, key)
    IN  IF key = NoId THEN rejected("invalidParams")
        ELSE IF hasField(params, "uri")
        THEN IF key \in DOMAIN state.artifacts.artifactsByUri
             THEN answer([sources |-> <<"verifier">>,
                          links |-> { r.receiptId : r \in { r \in ToSet(state.launchCore.memoryReceipts) :
                                                              key \in r.evidenceUris } }])
             ELSE rejected("objectNotFound")
        ELSE IF provenance.sources = <<>> THEN rejected("objectNotFound") ELSE answer(provenance)

---------------------------------------------------------------------------
\* Rootfields, artifacts, receipts and reports.

rootfieldGet(params, state) ==
    LET id == requiredString(params, <<"rootfieldId">>)
        bundle == lookup(state.launchCore.rootfieldBundles, {"rootfieldId"}, id)
        inRuntime == id \in DOMAIN localRuntimeRootfields(state)
    IN  IF id = NoId THEN rejected("invalidParams")
        ELSE IF isNull(bundle) /\ ~inRuntime THEN rejected("objectNotFound")
        ELSE answer([rootfieldId |-> id, bundle |-> bundle,
                     sources |-> onlyIf(~isNull(bundle), <<"flowmemory">>)
                                 \o onlyIf(inRuntime, <<"localRuntime">>)])

rootfieldList(params, state) == listOf(params, rootfieldRows(state), {"status"})

\* The verifier's artifact of this uri, else the first runtime commitment one of whose
\* fields equals the param of its kind; a param that is not given equals a field the
\* commitment does not have.
artifactGet(params, state) ==
    LET param(name) == first(params, <<name>>, NoId)
        same(o, field, name) == first(o, <<field>>, NoId) = param(name)
        committed == findRow(entries(localRuntimeArtifacts(state)), LAMBDA e :
            \/ e.id = param("artifactId")
            \/ same(e.object, "artifactId", "artifactId")
            \/ same(e.object, "commitment", "commitment")
            \/ same(e.object, "uriHint", "uri"))
    IN  IF {"uri", "artifactId", "commitment"} \cap DOMAIN params = {} THEN rejected("invalidParams")
        ELSE IF param("uri") \in DOMAIN state.artifacts.artifactsByUri
        THEN answer([artifactId |-> stableId("artifact.fixture", params.uri), sources |-> <<"verifier">>])
        ELSE IF isNull(committed) THEN rejected("objectNotFound")
        ELSE answer([artifactId |-> committed.id, sources |-> <<"localRuntime">>])

artifactAvailabilityList(params, state) ==
    listOf(params, artifactAvailabilityRows(state), {"status", "rootfieldId"})
artifactAvailabilityGet(params, state) ==
    getOf(params, <<"availabilityId", "artifactId", "commitment", "uri">>,
          artifactAvailabilityRows(state), AvailabilityKeys)

\* A memory receipt with its signal, transition and report, else a runtime work receipt.
receiptGet(params, state) ==
    LET key == requiredString(params, <<"receiptId", "observationId", "reportId">>)
        receipt == receiptByAnyId(state, key)
    IN  IF key = NoId THEN rejected("invalidParams")
        ELSE IF ~isNull(receipt)
        THEN answer([receipt |-> receipt, signal |-> signalByObservation(state, receipt.observationId),
                     transition |-> transitionByAnyId(state, receipt.receiptId),
                     verifierReport |-> reportByIdOrObservation(state, receipt.reportId),
                     provenance |-> provenanceForObject(state, receipt.receiptId)])
        ELSE IF key \in DOMAIN localRuntimeWorkReceipts(state)
        THEN answer([receipt |-> localRuntimeWorkReceipts(state)[key], sources |-> <<"localRuntime">>])
        ELSE rejected("objectNotFound")

receiptList(params, state) ==
    listOf(params, SelectSeq(state.launchCore.memoryReceipts, LAMBDA r :
               given(params, "status", LAMBDA s : s \in {r.flowMemoryStatus, r.verifierStatus})),
           {"rootfieldId"})

workReceiptList(params, state) == listOf(params, workReceiptRows(state), {"rootfieldId", "status"})
workReceiptGet(params, state) ==
    getOf(params, <<"workReceiptId", "receiptId", "observationId", "reportId">>, workReceiptRows(state),
          {"receiptId", "observationId", "reportId"})

verifierModuleList(params, state) == listOf(params, verifierModuleRows(state), {"status"})
verifierModuleGet(params, state) ==
    getOf(params, <<"moduleId", "verifierId", "resolverPolicyId">>, verifierModuleRows(state), ModuleKeys)

\* A verifier report with its memory receipt, else a report of the runtime.
verifierReportGet(params, state) ==
    LET key == requiredString(params, <<"reportId", "observationId">>)
        report == reportByIdOrObservation(state, key)
    IN  IF key = NoId THEN rejected("invalidParams")
        ELSE IF ~isNull(report)
        THEN answer([report |-> report, memoryReceipt |-> receiptByAnyId(state, report.reportId)])
        ELSE IF key \in DOMAIN localRuntimeReports(state)
        THEN answer([report |-> localRuntimeReports(state)[key], memoryReceipt |-> Null])
        ELSE rejected("objectNotFound")

verifierReportList(params, state) == listOf(params, state.verifier.reports, {"rootfieldId", "status"})

---------------------------------------------------------------------------
\* Memory cells, agents, models and the task scout.

\* Found through the runtime's cells, a bundle, a view or the task scout's cell; without
\* a runtime cell the answer carries the task scout's id whenever there is a scout.
memoryCellGet(params, state) ==
    LET key == requiredString(params, <<"memoryCellId", "rootfieldId">>)
        rootfieldId == IF key # NoId /\ Head(key) = "memory:" THEN Tail(key) ELSE key
        matches(o) == \/ key \in { first(o, <<f>>, NoId) : f \in {"id", "memoryCellId", "rootfieldId"} }
                      \/ rootfieldIdOf(o) = rootfieldId
        cell == findRow(runtimeObjects(localRuntimeMemoryCells(state)), matches)
        bundle == lookup(state.launchCore.rootfieldBundles, {"rootfieldId"}, rootfieldId)
        view == lookup(state.launchCore.agentMemoryViews, {"rootfieldId"}, rootfieldId)
        scout == member(taskScoutFixtureObject(state), "memoryCell")
        matchesScout == ~isNull(scout) /\ matches(scout)
    IN  IF key = NoId THEN rejected("invalidParams")
        ELSE IF isNull(cell) /\ isNull(bundle) /\ isNull(view) /\ ~matchesScout
        THEN rejected("objectNotFound")
        ELSE answer([memoryCellId |-> first(cell @@ scout, <<"memoryCellId">>, rootfieldId),
                     rootfieldId |-> first(cell @@ scout, <<"rootfieldId">>, rootfieldId),
                     status |-> linkStatus(<<cell, scout, bundle, view>>, "observed"),
                     provenance |-> provenanceForObject(state, rootfieldId)])

memoryCellList(params, state) == listOf(params, memoryCellRows(state), {"rootfieldId", "status"})

ScoutKeys == <<"agentId", "viewId", "rootfieldId">>

baseAgentMemoryTaskScoutList(params, state) ==
    listOf(params, SelectSeq(baseAgentMemoryScoutRows(state), LAMBDA r :
               given(params, "agentId", LAMBDA a : a \in {r.agentId, r.viewId})),
           {"rootfieldId", "status"})
baseAgentMemoryTaskScoutGet(params, state) ==
    getOf(params, ScoutKeys, baseAgentMemoryScoutRows(state), ToSet(ScoutKeys))

baseAgentMemoryReplayGet(params, state) ==
    LET scout == baseAgentMemoryTaskScoutGet(params, state)
        report == taskScoutReplayReportObject(state)
    IN  IF ~answered(scout) THEN scout
        ELSE IF isNull(report) THEN rejected("objectNotFound")
        ELSE answer([agentId |-> scout.result.agentId, rootfieldId |-> scout.result.rootfieldId,
                     report |-> report])

\* As for memory cells, the task scout lends its id to any agent the runtime lacks.
agentGet(params, state) ==
    LET key == requiredString(params, ScoutKeys)
        account == findRow(runtimeObjects(localRuntimeAgentAccounts(state)), LAMBDA a :
            key \in { a.id, first(a, <<"agentId">>, NoId), first(a, <<"memoryRoot">>, NoId) })
        view == viewByAnyId(state, key)
        scout == member(taskScoutFixtureObject(state), "agentConfig")
        scoutView == member(taskScoutFixtureObject(state), "agentMemoryView")
        matchesScout == ~isNull(scout) /\ key \in { first(scout, <<"agentId">>, NoId),
                            rootfieldIdOf(scout), first(scoutView, <<"viewId">>, NoId) }
    IN  IF key = NoId THEN rejected("invalidParams")
        ELSE IF isNull(view) /\ isNull(account) /\ ~matchesScout THEN rejected("objectNotFound")
        ELSE answer([agentId |-> first(account @@ scout, <<"agentId">>, first(view, <<"viewId">>, key)),
                     agentAccount |-> IF isNull(account) THEN scout ELSE account,
                     agentMemoryView |-> IF matchesScout THEN scoutView ELSE view,
                     rootfieldBundle |-> lookup(state.launchCore.rootfieldBundles, {"rootfieldId"},
                         rootfieldIdOf(IF matchesScout THEN scout ELSE view))])

agentList(params, state) == listOf(params, agentRows(state), {"rootfieldId", "status"})
modelList(params, state) == listOf(params, modelRows(state), {"rootfieldId", "status"})
modelGet(params, state) == getOf(params, <<"modelId", "rootfieldId">>, modelRows(state), {"modelId", "rootfieldId"})

---------------------------------------------------------------------------
\* Challenges, agent bond tasks and finality.

\* A challenge of the runtime, else a placeholder for an object that exists.
challengeGet(params, state) ==
    LET key == requiredString(params, <<"challengeId", "targetId", "receiptId", "reportId", "rootfieldId">>)
        challenge == lookup(runtimeObjects(localRuntimeChallenges(state)),
                            {"id", "challengeId", "receiptId"}, key)
        target == findObject(state, key)
    IN  IF key = NoId THEN rejected("invalidParams")
        ELSE IF ~isNull(challenge)
        THEN answer([challengeId |-> challenge.id, status |-> statusOf(challenge, "unknown")])
        ELSE IF isNull(target) THEN rejected("objectNotFound")
        ELSE answer([challengeId |-> stableId("challenge.placeholder", key), status |-> "not_opened"])

challengeList(params, state) == listOf(params, challengeRows(state), {"status"})

agentBondTaskList(params, state) == listOf(params, agentBondTaskRows(state), {"status", "rootfieldId"})
agentBondTaskGet(params, state) ==
    getOf(params, <<"taskId", "rootfieldId", "agent">>, agentBondTaskRows(state),
          {"taskId", "rootfieldId", "agent"})

agentBondReadinessGet(state) ==
    [taskCount |-> Len(agentBondTaskRows(state)), replayReport |-> state.agentBondReplayReport,
     economicReport |-> state.agentBondEconomicReport, readinessReport |-> state.agentBondReadinessReport]
agentBondReplayReportGet(state) == [report |-> state.agentBondReplayReport]
agentBondEconomicReportGet(state) == [report |-> state.agentBondEconomicReport]

\* The launch approval on disk names four artifacts; each part must be complete, hold
\* no placeholder value and name an artifact that can be read and holds none either.
LaunchParts == {"externalReview", "operatorSeparation", "runtimeEvidence", "goNoGoDecision"}

agentBondPublicLaunchStatusGet(state) ==
    LET approval == loadOptionalSource(state.disk.launchApproval).value
        part(name) == member(approval, name)
        blockedBy(name) ==
            onlyIf(first(part(name), <<"completed">>, FALSE) # TRUE, <<"not completed">>)
            \o onlyIf(first(part(name), <<"pending">>, FALSE), <<"placeholder value">>)
            \o onlyIf(first(part(name), <<"artifact">>, "missing") = "missing", <<"artifact missing">>)
            \o onlyIf(first(part(name), <<"artifact">>, "missing") = "pending", <<"artifact placeholder">>)
        blockers == FlattenSeq(mapSeq(SetToSeq(LaunchParts), blockedBy))
            \o onlyIf(first(state.agentBondReadinessReport, <<"ok">>, FALSE) # TRUE,
                      <<"readiness report is not green">>)
    IN  IF isNull(approval) THEN [status |-> "missing", blockers |-> <<"launch approval missing">>]
        ELSE [status |-> IF blockers = <<>> THEN "ready" ELSE "blocked", blockers |-> blockers]

\* A finality receipt of the runtime (only its finalityStatus counts here), else the
\* status of the object itself.
finalityGet(params, state) ==
    LET key == requiredString(params, <<"objectId", "rootfieldId", "receiptId", "reportId", "transitionId">>)
        finality == lookup(runtimeObjects(localRuntimeFinalityReceipts(state)),
                           {"id", "finalityReceiptId", "receiptId", "rootfieldId"}, key)
        target == findObject(state, key)
        finalized(type, object, fields) ==
            answer([objectId |-> key, objectType |-> type,
                    status |-> finalityStatusFor(first(object, fields, "unknown"))])
    IN  IF key = NoId THEN rejected("invalidParams")
        ELSE IF ~isNull(finality)
        THEN finalized("localRuntime_finality_receipt", finality, <<"finalityStatus">>)
        ELSE IF isNull(target) THEN rejected("objectNotFound")
        ELSE finalized(target.type, target.object,
                 <<"status", "flowMemoryStatus", "verifierStatus", "finalityStatus">>)

finalityList(params, state) == listOf(params, finalityRows(state), {"status", "rootfieldId"})

---------------------------------------------------------------------------
\* The bridge as the control plane shows it.

bridgeObservationList(params, state) == listOf(params, bridgeObservationRows(state), {})

bridgeObservationGet(params, state) ==
    LET key == requiredString(params, <<"observationId", "depositId", "txHash">>)
        row == findRow(bridgeObservationRows(state), LAMBDA o :
            LET d == member(o, "deposit") IN
            key \in { first(o, <<"observationId">>, NoId), first(d, <<"depositId">>, NoId),
                      first(d, <<"txHash">>, NoId) })
    IN  IF key = NoId THEN rejected("invalidParams")
        ELSE IF isNull(row) THEN rejected("objectNotFound") ELSE answer(row)

bridgeDepositList(params, state) == listOf(params, bridgeDepositRows(state), {})
bridgeDepositGet(params, state) ==
    getOf(params, <<"depositId", "observationId", "txHash">>, bridgeDepositRows(state),
          {"depositId", "observationId", "txHash"})

bridgeCreditList(params, state) == listOf(params, bridgeCreditRows(state), {})
bridgeCreditGet(params, state) ==
    LET key == requiredString(params, <<"creditId", "depositId", "accountId", "flowmemoryRecipient",
                                        "txHash", "baseTxHash">>)
        credit == findBestBridgeCredit(bridgeCreditRows(state), key)
    IN  IF key = NoId THEN rejected("invalidParams")
        ELSE IF isNull(credit) THEN rejected("objectNotFound") ELSE answer(credit)

\* The best credit of the key and the deposit behind it; an unknown key is an answer.
bridgeCreditStatus(params, state) ==
    LET key == requiredString(params, <<"txHash", "baseTxHash", "creditId", "depositId", "accountId",
                                        "flowmemoryRecipient", "walletAddress">>)
        credit == findBestBridgeCredit(bridgeCreditRows(state), key)
        deposit == findRow(bridgeDepositRows(state), LAMBDA d :
            key \in {d.txHash, d.depositId} \/ (~isNull(credit) /\ d.depositId = credit.depositId))
        firstId(ids) == LET named == SelectSeq(ids, LAMBDA id : id # NoId)
                        IN  IF named = <<>> THEN NoId ELSE Head(named)
    IN  IF key = NoId THEN rejected("invalidParams")
        ELSE answer([found |-> ~isNull(credit), status |-> statusOf(credit, "not_found"),
                     accountId |-> firstId(<< first(credit, <<"accountId">>, NoId),
                                              first(deposit, <<"flowmemoryRecipient">>, NoId) >>),
                     amount |-> first(credit @@ deposit, <<"amount">>, 0),
                     txHash |-> firstId(<< first(credit, <<"txHash">>, NoId),
                                           first(deposit, <<"txHash">>, NoId) >>)])

bridgeStatus(state) ==
    LET credits == bridgeCreditRows(state)
        count(statuses) == Len(SelectSeq(credits, LAMBDA c : c.status \in statuses))
    IN  [deposits |-> Len(bridgeDepositRows(state)), credits |-> Len(credits),
         applied |-> count({"applied"}), pending |-> count(PendingCredits),
         rejected |-> count({"rejected"}), handoffLoaded |-> ~isNull(state.bridgeRuntimeHandoff)]

withdrawalList(params, state) == listOf(params, withdrawalRows(state), {})
withdrawalGet(params, state) ==
    getOf(params, <<"withdrawalId", "creditId", "depositId", "accountId">>, withdrawalRows(state),
          {"withdrawalId", "creditId", "depositId", "accountId"})

\* The sources raw_json_get may return whole.
RawSources == {"launchCore", "indexer", "verifier", "artifacts", "localRuntime",
    "localRuntimeIndexerHandoff", "localRuntimeVerifierHandoff", "localRuntimeControlPlaneHandoff",
    "explorerFallback", "txFixtures", "txIntake", "bridgeObservations", "bridgeRuntimeHandoff",
    "walletTransferProof", "agentBondFixture", "agentBondReplayReport", "agentBondEconomicReport",
    "agentBondReadinessReport"}

rawJsonGet(params, state) ==
    LET source == first(params, <<"source">>, "none")
    IN  IF source \notin RawSources THEN rejected("invalidParams")
        ELSE IF source = "txIntake" THEN answer(txIntakeRows(state))
        ELSE IF source = "bridgeObservations" THEN answer(bridgeObservationRows(state))
        ELSE IF source = "agentBondFixture" THEN answer(member(state.launchCore, "agentBondFixture"))
        ELSE IF isNull(state[source]) THEN rejected("objectNotFound") ELSE answer(state[source])
=============================================================================
