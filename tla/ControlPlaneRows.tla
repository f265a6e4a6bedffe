-------------------------- MODULE ControlPlaneRows --------------------------
(***************************************************************************)
(* The rows the control plane's read methods are built from                *)
(* (services/control-plane/src/methods.ts): one operator per kind of row,  *)
(* each a sequence computed from the loaded state.  A row keeps its id,    *)
(* the ids it links to, its status, its amount and the source it was       *)
(* merged from; labels, schemas and other display fields are left out.     *)
(***************************************************************************)
EXTENDS ControlPlaneState, FiniteSetsExt

ZERO_ROOT == <<"0x0">>

---------------------------------------------------------------------------
\* Maps and blocks of the runtime, with their fallbacks.

objectsOf(source) == member(source, "objects")

\* The first of the seven places that holds a non-empty map under this key.
localRuntimeMap(state, key) ==
    LET candidates == << state.localRuntime,
                         objectsOf(state.localRuntimeControlPlaneHandoff),
                         state.localRuntimeControlPlaneHandoff,
                         state.localRuntimeVerifierHandoff,
                         state.localRuntimeIndexerHandoff,
                         objectsOf(state.explorerFallback),
                         state.explorerFallback >>
        maps == SelectSeq(mapSeq(candidates, LAMBDA c : member(c, key)),
                          LAMBDA m : ~isNull(m))
    IN  IF maps = <<>> THEN Null ELSE Head(maps)

firstLocalRuntimeMap(state, keys) ==
    LET maps == SelectSeq(mapSeq(keys, LAMBDA k : localRuntimeMap(state, k)),
                          LAMBDA m : ~isNull(m))
    IN  IF maps = <<>> THEN Null ELSE Head(maps)

hasTransactions(blocks) == \E i \in DOMAIN blocks : member(blocks[i], "txIds") # <<>>

\* The first source that has a block with transactions, else the first with blocks.
localRuntimeBlocksArray(state) ==
    LET sources == << member(state.localRuntime, "blocks"),
                      member(state.localRuntimeControlPlaneHandoff, "blocks"),
                      member(state.localRuntimeIndexerHandoff, "blocks") >>
        busy == SelectSeq(sources, hasTransactions)
        filled == SelectSeq(sources, LAMBDA blocks : blocks # <<>>)
    IN  IF busy # <<>> THEN Head(busy) ELSE IF filled # <<>> THEN Head(filled) ELSE <<>>

activeRuntimeBlocksArray(state) ==
    IF state.runtimePath \in {"localRuntimePath", "localRuntimeLaunchPath"}
    THEN member(state.localRuntime, "blocks") ELSE <<>>

txFixtureRows(state) == member(state.txFixtures, "txs")

localRuntimeRootfields(state) == localRuntimeMap(state, "rootfields")
localRuntimeWorkReceipts(state) == localRuntimeMap(state, "workReceipts")
localRuntimeReports(state) == localRuntimeMap(state, "verifierReports")
localRuntimeArtifacts(state) == localRuntimeMap(state, "artifactCommitments")
localRuntimeAgentAccounts(state) == localRuntimeMap(state, "agentAccounts")
localRuntimeModels(state) == firstLocalRuntimeMap(state, <<"modelPassports", "models">>)
localRuntimeVerifierModules(state) ==
    firstLocalRuntimeMap(state, <<"verifierModules", "modules">>)
localRuntimeArtifactAvailability(state) ==
    firstLocalRuntimeMap(state, <<"artifactAvailabilityProofs", "artifactAvailability">>)
localRuntimeMemoryCells(state) == localRuntimeMap(state, "memoryCells")
localRuntimeChallenges(state) == localRuntimeMap(state, "challenges")
localRuntimeFinalityReceipts(state) == localRuntimeMap(state, "finalityReceipts")
localRuntimeOperatorKeyReferences(state) ==
    firstLocalRuntimeMap(state, <<"operatorKeyReferences", "walletPublicMetadata", "wallets">>)
localRuntimeLocalTestUnitBalances(state) ==
    firstLocalRuntimeMap(state, <<"localTestUnitBalances", "localBalances">>)
localRuntimeBalanceTransfers(state) == localRuntimeMap(state, "balanceTransfers")
localRuntimePeers(state) == member(state.localRuntime, "peers")

\* One entry per id over several maps; a later map replaces an entry of the same id.
localRuntimeProductEntries(state, keys, idFields) ==
    LET found == FlattenSeq(mapSeq(keys, LAMBDA k :
            mapSeq(entries(localRuntimeMap(state, k)), LAMBDA e :
                [id |-> first(e.object, idFields, e.id), object |-> e.object,
                 sourceKey |-> k])))
        kept == { i \in DOMAIN found :
                    \A j \in DOMAIN found : j > i => found[j].id # found[i].id }
    IN  mapSeq(SetToSortSeq(kept, LAMBDA a, b : rank(found[a].id) < rank(found[b].id)),
               LAMBDA i : found[i])

localRuntimeProductMapCount(state, keys) ==
    Len(localRuntimeProductEntries(state, keys, <<"id">>))

rowSource(object, sourceKey) ==
    IF first(object, <<"provenance">>, "") = "fixture-fallback"
    THEN <<"fixture-fallback", sourceKey>> ELSE <<"local-runtime", sourceKey>>

byBlockDescending(blocks) ==
    SortSeq(blocks, LAMBDA a, b : a.blockNumber > b.blockNumber)

latestRuntimeBlock(state) ==
    LET sorted == byBlockDescending(activeRuntimeBlocksArray(state))
    IN  IF sorted = <<>> THEN Null ELSE Head(sorted)

\* The runtime's newest block, else the newest indexed observation.
latestBlock(state) ==
    LET runtime == latestRuntimeBlock(state)
        observed == SortSeq(state.indexer.observations,
            LAMBDA a, b : \/ a.blockNumber > b.blockNumber
                          \/ a.blockNumber = b.blockNumber /\ a.logIndex > b.logIndex)
    IN  IF ~isNull(runtime)
        THEN [blockNumber |-> runtime.blockNumber, blockHash |-> runtime.blockHash]
        ELSE IF observed = <<>> THEN [blockNumber |-> 0, blockHash |-> ZERO_ROOT]
        ELSE [blockNumber |-> Head(observed).blockNumber, blockHash |-> Head(observed).blockHash]

finalizedBlock(state) ==
    LET runtime == latestRuntimeBlock(state)
        finalized == { o.blockNumber : o \in
            { o \in ToSet(state.indexer.observations) : o.lifecycleState = "finalized" } }
    IN  IF ~isNull(runtime) THEN runtime.blockNumber
        ELSE IF finalized = {} THEN 0 ELSE Max(finalized)

---------------------------------------------------------------------------
\* Lookups in the launch core and the verifier reports.

reportByIdOrObservation(state, key) ==
    findRow(state.verifier.reports,
            LAMBDA r : key \in {r.reportId, r.reportDigest, r.observationId})

receiptByAnyId(state, key) ==
    findRow(state.launchCore.memoryReceipts,
            LAMBDA r : key \in {r.receiptId, r.observationId, r.reportId, r.reportDigest})

signalByObservation(state, observationId) ==
    findRow(state.launchCore.memorySignals, LAMBDA s : s.observationId = observationId)

transitionByAnyId(state, key) ==
    findRow(state.launchCore.rootflowTransitions,
            LAMBDA t : key \in {t.transitionId, t.observationId, t.memoryReceiptId,
                                t.memorySignalId, t.reportId})

---------------------------------------------------------------------------
\* Intake files are read again when a handler runs: a context is the state loaded
\* when the request arrived together with the files as they are now.
atHandler(state, files) == state @@ [disk |-> files]

\* The rows as they were when the request arrived.
loadedIntakeRows(state) == state.txIntake

txIntakeRows(state) ==
    LET rows == readNdjson(state.disk.txIntake).rows
    IN  IF rows # <<>> THEN rows ELSE state.txIntake

depositOf(observation) ==
    IF hasField(observation, "deposit") THEN observation.deposit ELSE observation

observationKey(o) ==
    first(o, <<"observationId">>, first(member(o, "deposit"), <<"depositId">>,
          stableId("bridge_observation.row", depositOf(o).txHash)))

\* Observations of the snapshot, of the relayer's handoff and of the intake file, one
\* per id; the last one wins.
bridgeObservationRows(state) ==
    LET all == state.bridgeObservations \o member(state.bridgeRuntimeHandoff, "observations")
                   \o readNdjson(state.disk.bridgeIntake).rows
        kept == { i \in DOMAIN all :
                    \A j \in DOMAIN all : j > i => observationKey(all[j]) # observationKey(all[i]) }
        idOf(i) == first(all[i], <<"observationId">>, NoId)
    IN  mapSeq(SetToSortSeq(kept, LAMBDA a, b : rank(idOf(a)) < rank(idOf(b))),
               LAMBDA i : all[i])

---------------------------------------------------------------------------
\* Accounts.

\* The accounts of the wallet's public metadata, in any of its three shapes.
walletPublicMetadataAccounts(state) ==
    LET metadata == state.walletPublicMetadata
        id == first(metadata, <<"accountId", "address", "signerId">>, NoId)
    IN  IF member(metadata, "accounts") # <<>> THEN metadata.accounts
        ELSE IF hasField(metadata, "account") THEN << metadata.account >>
        ELSE IF id = NoId THEN <<>> ELSE << metadata >>

accountRow(id, type, source, balance) ==
    [accountId |-> id, keyReferenceId |-> NoId, accountType |-> type, source |-> source,
     balance |-> balance]

accountRowRank(row) ==
    CASE row.source = "wallet-public-metadata" \/ row.accountType = "wallet" -> 0
      [] row.accountType \in {"agent", "operator"} -> 1
      [] row.accountType = "local_test_unit_balance" -> 3
      [] OTHER -> 2

compareAccountRows(a, b) ==
    \/ accountRowRank(a) < accountRowRank(b)
    \/ accountRowRank(a) = accountRowRank(b) /\ rank(a.accountId) < rank(b.accountId)

isAccount(row, id) == row.accountId = id \/ row.keyReferenceId = id

\* Append the rows whose account is not listed yet, one after the other.
addAccounts(rows, candidates) ==
    LET Add(acc, row) == IF row.accountId = NoId \/ \E i \in DOMAIN acc : isAccount(acc[i], row.accountId)
                         THEN acc ELSE Append(acc, row)
    IN  FoldLeft(Add, rows, candidates)

\* Agents and operators always; a wallet account or a balance only when no row
\* before it has its id; a placeholder operator when there is nothing.
nodeAccountRows(state) ==
    LET agents == mapSeq(entries(localRuntimeAgentAccounts(state)),
            LAMBDA e : accountRow(e.id, "agent", "local-runtime", 0))
        operators == mapSeq(entries(localRuntimeOperatorKeyReferences(state)),
            LAMBDA e : [accountRow(first(e.object, <<"operatorId">>, e.id), "operator",
                                   "local-runtime", 0) EXCEPT !.keyReferenceId = e.id])
        wallets == mapSeq(walletPublicMetadataAccounts(state),
            LAMBDA w : accountRow(first(w, <<"accountId", "address", "signerId">>, NoId),
                "wallet", "wallet-public-metadata", first(w, <<"balance">>, 0)))
        balances == mapSeq(entries(localRuntimeLocalTestUnitBalances(state)),
            LAMBDA e : accountRow(first(e.object, <<"accountId">>, e.id),
                "local_test_unit_balance", "local-runtime:localTestUnitBalances",
                first(e.object, <<"units", "amountUnits">>, 0)))
        rows == addAccounts(addAccounts(agents \o operators, wallets), balances)
    IN  IF rows = <<>>
        THEN << accountRow(<<"operator:local-demo">>, "operator", "projection", 0) >>
        ELSE SortSeq(rows, compareAccountRows)

walletMetadataRows(state) ==
    mapSeq(nodeAccountRows(state), LAMBDA a : [walletId |-> a.accountId,
        accountId |-> a.accountId, accountType |-> a.accountType])

---------------------------------------------------------------------------
\* Pending transactions: what the runtime holds and every row of the intake file,
\* which stays listed after its transaction was included.
mempoolRows(state) ==
    LET pending == mapSeq(member(state.localRuntime, "pendingTxs"),
            LAMBDA tx : [transactionId |-> first(tx, <<"txId", "transactionId">>,
                                                 stableId("mempool.localRuntime", tx.key)),
                         status |-> "pending", source |-> "local-runtime"])
        intake == mapSeq(txIntakeRows(state),
            LAMBDA row : [transactionId |-> first(row, <<"txId", "intakeId">>,
                                                  stableId("mempool.intake", NoId)),
                          status |-> first(row, <<"status">>, "accepted_local"),
                          source |-> "local-file-intake"])
    IN  sortById(pending \o intake, "transactionId")

---------------------------------------------------------------------------
\* Bridge rows.

fallbackBridgeRows(state, key) == member(member(state.explorerFallback, "bridge"), key)

bridgeRowIsBaseMainnet(row) ==
    first(depositOf(row), <<"sourceChainId">>,
          first(row, <<"sourceChainId">>, first(member(row, "source"), <<"chainId">>, 0))) = 8453

\* Fallback observations are appended unless a Base mainnet deposit was observed.
bridgeDepositRows(state) ==
    LET observations == bridgeObservationRows(state)
        rows == IF \E i \in DOMAIN observations : bridgeRowIsBaseMainnet(observations[i])
                THEN observations
                ELSE observations \o fallbackBridgeRows(state, "observations")
    IN  sortById(mapSeq(rows, LAMBDA o : LET d == depositOf(o) IN
            [depositId |-> first(d, <<"depositId">>, stableId("bridge_deposit", d.txHash)),
             observationId |-> first(o, <<"observationId">>, NoId),
             status |-> first(d, <<"status">>, "observed"),
             txHash |-> first(d, <<"txHash">>, NoId), amount |-> first(d, <<"amount">>, 0),
             flowmemoryRecipient |-> first(d, <<"flowmemoryRecipient">>, NoId)]),
        "depositId")

creditRow(id, credit, source, accountFields, amountFields, status) ==
    [creditId |-> id, depositId |-> first(credit, <<"depositId">>, NoId),
     accountId |-> first(credit, accountFields, NoId),
     flowmemoryRecipient |-> first(credit, <<"flowmemoryRecipient">> \o accountFields, NoId),
     txHash |-> first(member(credit, "source"), <<"txHash">>,
                      first(credit, <<"txHash", "baseTxHash">>, NoId)),
     amount |-> first(credit, amountFields, 0),
     status |-> first(credit, <<"status">>, status), source |-> source]

\* rows.set(id, row) one after the other: the last row of an id wins.
runtimeCredits(state) ==
    mapSeq(localRuntimeProductEntries(state,
               <<"bridgeCredits", "bridgeCreditReceipts", "runtimeBridgeCredits">>,
               <<"creditId", "bridgeCreditId", "id", "depositId">>),
           LAMBDA e : creditRow(e.id, e.object, "local-runtime",
               <<"accountId", "recipient", "flowmemoryRecipient">>,
               <<"amount", "amountUnits", "units">>, "local_credit"))

handoffCredits(state) ==
    mapSeq(member(state.bridgeRuntimeHandoff, "credits"),
           LAMBDA c : creditRow(first(c, <<"creditId">>, stableId("handoff_credit", c.depositId)),
               c, "bridge-runtime-handoff", <<"accountId", "flowmemoryRecipient">>,
               <<"amount", "amountUnits">>, "pending_runtime_credit"))

fallbackCredits(state) ==
    mapSeq(fallbackBridgeRows(state, "credits"),
           LAMBDA c : creditRow(first(c, <<"creditId">>, stableId("fallback_credit", c.depositId)),
               c, "fixture-fallback:bridge.credits",
               <<"accountId", "recipient", "flowmemoryRecipient">>,
               <<"amount", "amountUnits", "units">>, "local_credit"))

projectedCredit(deposit) ==
    [creditId |-> stableId("bridge_credit", deposit.depositId), depositId |-> deposit.depositId,
     accountId |-> deposit.flowmemoryRecipient,
     flowmemoryRecipient |-> deposit.flowmemoryRecipient, txHash |-> deposit.txHash,
     amount |-> deposit.amount, source |-> "bridge-deposit-projection",
     status |-> IF deposit.status = "rejected" THEN "rejected" ELSE "pending_local_credit"]

lastPerId(rows, f) ==
    LET kept == { i \in DOMAIN rows : \A j \in DOMAIN rows : j > i => rows[j][f] # rows[i][f] }
    IN  mapSeq(SetToSortSeq(kept, LAMBDA a, b : rank(rows[a][f]) < rank(rows[b][f])),
               LAMBDA i : rows[i])

\* Runtime credits, then the handoff's, then the fallback's; a deposit without a row
\* under its projected id gets a pending one.
bridgeCreditRows(state) ==
    LET rows == runtimeCredits(state) \o handoffCredits(state) \o fallbackCredits(state)
        projected == SelectSeq(mapSeq(bridgeDepositRows(state), projectedCredit),
            LAMBDA p : \A i \in DOMAIN rows : rows[i].creditId # p.creditId)
    IN  lastPerId(Reverse(projected) \o rows, "creditId")

bridgeCreditMatch(row, key) == 
    key \in {row.creditId, row.depositId, row.accountId, row.flowmemoryRecipient, row.txHash}

PendingCredits == {"pending_runtime_credit", "pending_local_credit", "pending"}

\* A ranking that prefers a credit still pending.
bridgeCreditPendingFirst(row) == IF row.status \in PendingCredits THEN 0 ELSE 1

bridgeCreditRank(row) ==
    CASE row.source = "bridge-runtime-handoff" /\ row.status = "applied" -> 0
      [] row.status = "applied" -> 1
      [] row.source = "bridge-runtime-handoff" -> 2
      [] row.status \notin PendingCredits -> 3
      [] OTHER -> 4

findBestBridgeCredit(rows, key) ==
    LET matching == SelectSeq(rows, LAMBDA r : bridgeCreditMatch(r, key))
        sorted == SortSeq(matching, LAMBDA a, b : bridgeCreditRank(a) < bridgeCreditRank(b))
    IN  IF sorted = <<>> THEN Null ELSE Head(sorted)

withdrawalRow(id, intentId, of, accountId, amount, status, source) ==
    [withdrawalId |-> id, withdrawalIntentId |-> intentId, creditId |-> first(of, <<"creditId">>, NoId),
     depositId |-> first(of, <<"depositId">>, NoId), accountId |-> accountId, amount |-> amount,
     status |-> status, source |-> source]

\* Withdrawals of the runtime and of the fallback; with none, one row projected from
\* the first credit.
withdrawalRows(state) ==
    LET native == mapSeq(entries(firstLocalRuntimeMap(state, <<"withdrawals", "bridgeWithdrawals">>)),
            LAMBDA e : withdrawalRow(e.id, NoId, Null, NoId, 0, first(e.object, <<"status">>, "local"),
                                     rowSource(e.object, "withdrawals")))
        intents == mapSeq(fallbackBridgeRows(state, "withdrawalIntents"),
            LAMBDA w : withdrawalRow(
                first(w, <<"withdrawalId", "withdrawalIntentId">>, stableId("fallback_withdrawal", NoId)),
                first(w, <<"withdrawalIntentId">>, NoId), w,
                first(w, <<"flowmemoryAccount", "accountId">>, NoId), first(w, <<"amount">>, 0),
                first(w, <<"status">>, "requested"),
                <<"fixture-fallback", "bridge.withdrawalIntents">>))
        projected == mapSeq(take(bridgeCreditRows(state), 1),
            LAMBDA c : withdrawalRow(stableId("withdrawal.projected", c.creditId), NoId, c,
                c.accountId, c.amount, "not_requested", <<"bridge-credit-projection">>))
    IN  IF native \o intents # <<>> THEN native \o intents ELSE projected

---------------------------------------------------------------------------
\* Product rows: tokens, balances, transfers, pools, positions and swaps.

statusOf(o, default) == first(o, <<"status">>, default)

TokenMaps == <<"tokens", "tokenDefinitions", "tokenLaunches", "localTokens", "launchedTokens">>
TokenBalanceMaps == <<"tokenBalances", "localTokenBalances", "accountTokenBalances">>
TokenTransferMaps == <<"tokenTransfers", "tokenTransferEvents", "balanceTransfers", "transfers">>
PoolMaps == <<"pools", "dexPools", "liquidityPools", "ammPools">>
LpPositionMaps == <<"lpPositions", "liquidityPositions", "poolPositions">>
SwapMaps == <<"swaps", "swapReceipts", "dexSwaps">>

LocalTestUnit == <<"local-test-unit">>

\* With no token of its own the runtime's unit balances project one token whose
\* supply is their sum.
tokenRows(state) ==
    LET rows == mapSeq(localRuntimeProductEntries(state, TokenMaps,
                           <<"tokenId", "assetId", "symbol", "address", "id">>),
            LAMBDA e : [tokenId |-> e.id, symbol |-> first(e.object, <<"symbol", "ticker">>, e.id),
                        assetId |-> first(e.object, <<"assetId">>, NoId),
                        totalSupply |-> first(e.object, <<"totalSupply", "supply", "initialSupply">>, 0),
                        status |-> statusOf(e.object, "local"),
                        source |-> rowSource(e.object, e.sourceKey)])
        balances == localRuntimeLocalTestUnitBalances(state)
        supply == MapThenSumSet(LAMBDA id : first(balances[id], <<"units">>, 0), DOMAIN balances)
    IN  IF rows # <<>> \/ isNull(balances) THEN rows
        ELSE << [tokenId |-> LocalTestUnit, symbol |-> <<"LTU">>, assetId |-> NoId,
                 totalSupply |-> supply, status |-> "projected_local_unit",
                 source |-> <<"local-test-unit-balance-projection">>] >>

tokenBalanceRows(state) ==
    LET rows == mapSeq(localRuntimeProductEntries(state, TokenBalanceMaps,
                           <<"balanceId", "tokenBalanceId", "positionId", "id">>),
            LAMBDA e : [balanceId |-> e.id,
                        accountId |-> first(e.object, <<"accountId", "owner", "walletId">>, NoId),
                        tokenId |-> first(e.object, <<"tokenId", "assetId", "symbol">>, NoId),
                        amount |-> first(e.object, <<"amount", "units", "balance">>, 0),
                        source |-> rowSource(e.object, e.sourceKey)])
        projected == mapSeq(entries(localRuntimeLocalTestUnitBalances(state)),
            LAMBDA e : [balanceId |-> e.id, accountId |-> first(e.object, <<"accountId">>, e.id),
                        tokenId |-> LocalTestUnit,
                        amount |-> first(e.object, <<"units", "amountUnits">>, 0),
                        source |-> <<"local-test-unit-balance-projection">>])
    IN  IF rows # <<>> THEN rows ELSE projected

tokenTransferRows(state) ==
    mapSeq(localRuntimeProductEntries(state, TokenTransferMaps,
               <<"transferId", "tokenTransferId", "txId", "transactionId", "id">>),
        LAMBDA e : [transferId |-> e.id, txId |-> first(e.object, <<"txId", "transactionId">>, NoId),
                    tokenId |-> first(e.object, <<"tokenId", "assetId", "symbol">>, NoId),
                    fromAccount |-> first(e.object, <<"fromAccount", "from", "sender">>, NoId),
                    toAccount |-> first(e.object, <<"toAccount", "to", "recipient">>, NoId),
                    amount |-> first(e.object, <<"amount", "units">>, 0),
                    status |-> statusOf(e.object, "local"), source |-> rowSource(e.object, e.sourceKey)])

poolRows(state) ==
    mapSeq(localRuntimeProductEntries(state, PoolMaps, <<"poolId", "id", "address">>),
        LAMBDA e : [poolId |-> e.id, address |-> first(e.object, <<"address">>, NoId),
                    token0 |-> first(e.object, <<"token0", "tokenA", "baseToken">>, NoId),
                    token1 |-> first(e.object, <<"token1", "tokenB", "quoteToken">>, NoId),
                    status |-> statusOf(e.object, "local"), source |-> rowSource(e.object, e.sourceKey)])

lpPositionRows(state) ==
    mapSeq(localRuntimeProductEntries(state, LpPositionMaps, <<"positionId", "lpPositionId", "id">>),
        LAMBDA e : [positionId |-> e.id, poolId |-> first(e.object, <<"poolId">>, NoId),
                    accountId |-> first(e.object, <<"accountId", "owner", "walletId">>, NoId),
                    liquidity |-> first(e.object, <<"liquidity", "lpTokens", "amount">>, 0),
                    source |-> rowSource(e.object, e.sourceKey)])

swapRows(state) ==
    mapSeq(localRuntimeProductEntries(state, SwapMaps,
               <<"swapId", "receiptId", "txId", "transactionId", "id">>),
        LAMBDA e : [swapId |-> e.id, txId |-> first(e.object, <<"txId", "transactionId">>, NoId),
                    poolId |-> first(e.object, <<"poolId">>, NoId),
                    accountId |-> first(e.object, <<"accountId", "trader", "owner">>, NoId),
                    source |-> rowSource(e.object, e.sourceKey)])

---------------------------------------------------------------------------
\* Transactions and blocks: the runtime's, and those the indexer observed.

firstOccurrences(s) ==
    mapSeq(SetToSortSeq({ i \in DOMAIN s : \A j \in 1..i - 1 : s[j] # s[i] }, LAMBDA a, b : a < b),
           LAMBDA i : s[i])

\* The i-th transaction over all blocks takes the i-th fixture as its payload.
runtimeTransactionRows(state) ==
    LET fixtures == txFixtureRows(state)
        included == FlattenSeq(mapSeq(localRuntimeBlocksArray(state), LAMBDA block :
            [k \in DOMAIN member(block, "txIds") |-> [txId |-> block.txIds[k], index |-> k - 1, block |-> block]]))
    IN  [i \in DOMAIN included |->
            LET t == included[i]
                receipt == findRow(member(t.block, "receipts"), LAMBDA r : r.txId = t.txId)
            IN  [transactionId |-> t.txId, blockNumber |-> t.block.blockNumber,
                 blockHash |-> t.block.blockHash, transactionIndex |-> t.index,
                 status |-> statusOf(receipt, "unknown"), rootfieldIds |-> {},
                 type |-> IF i \in DOMAIN fixtures THEN fixtures[i].type ELSE "unknown",
                 source |-> "local-runtime"]]

observedTransactionRows(state) ==
    LET seen == state.indexer.observations
        rejected == state.indexer.rejectedLogs
        rowOf(hash) ==
            LET logs == SelectSeq(seen, LAMBDA o : o.txHash = hash)
                bad == SelectSeq(rejected, LAMBDA r : r.txHash = hash)
                base == Head(logs \o bad)
            IN  [transactionId |-> hash, blockNumber |-> base.blockNumber,
                 blockHash |-> base.blockHash, transactionIndex |-> base.transactionIndex,
                 status |-> IF bad # <<>> THEN "rejected" ELSE Last(logs).lifecycleState,
                 rootfieldIds |-> { o.rootfieldId : o \in ToSet(logs) },
                 type |-> IF logs # <<>> THEN "FlowPulse" ELSE "FlowPulseRejectedLog",
                 source |-> "flowpulse-indexer"]
    IN  mapSeq(firstOccurrences(mapSeq(seen \o rejected, LAMBDA o : o.txHash)), rowOf)

transactionRows(state) ==
    SortSeq(runtimeTransactionRows(state) \o observedTransactionRows(state),
        LAMBDA a, b : \/ a.blockNumber < b.blockNumber
                      \/ a.blockNumber = b.blockNumber /\ a.transactionIndex < b.transactionIndex)

blockRow(block, source) ==
    [blockNumber |-> block.blockNumber, blockHash |-> block.blockHash,
     txIds |-> ToSet(member(block, "txIds")), source |-> source]

sameBlock(a, b) == a.blockNumber = b.blockNumber /\ a.blockHash = b.blockHash

observedBlockRows(state) ==
    LET logs == state.indexer.observations \o state.indexer.rejectedLogs
        keys == firstOccurrences(mapSeq(logs, LAMBDA o : <<o.chainId, o.blockHash, o.blockNumber>>))
    IN  mapSeq(keys, LAMBDA k : [blockNumber |-> k[3], blockHash |-> k[2],
            txIds |-> { o.txHash : o \in { o \in ToSet(logs) :
                          <<o.chainId, o.blockHash, o.blockNumber>> = k } },
            source |-> "flowpulse-indexer"])

\* Blocks with transactions come first, each part in block order.
blockRows(state) ==
    LET rows == mapSeq(localRuntimeBlocksArray(state), LAMBDA b : blockRow(b, "local-runtime"))
        active == SelectSeq(
            mapSeq(activeRuntimeBlocksArray(state), LAMBDA b : blockRow(b, "active-local-runtime")),
            LAMBDA b : \A i \in DOMAIN rows : ~sameBlock(rows[i], b))
        empty(b) == IF b.txIds = {} THEN 1 ELSE 0
    IN  SortSeq(rows \o active \o observedBlockRows(state),
            LAMBDA a, b : \/ empty(a) < empty(b)
                          \/ empty(a) = empty(b) /\ a.blockNumber < b.blockNumber)

\* block_list and block_get with includeTransactions: the transactions of a row, by its
\* source; a block only the active runtime has is listed with none.
transactionsOf(state, block) ==
    SelectSeq(transactionRows(state), LAMBDA tx : tx.source = block.source /\ sameBlock(tx, block))

---------------------------------------------------------------------------
\* Memory, agents, work and verification rows.

rootfieldIdOf(o) == first(o, <<"rootfieldId">>, NoId)

\* A launch-core bundle and the runtime's rootfield of the same id are one row; the
\* runtime's status and root take precedence.
rootfieldRows(state) ==
    LET bundles == mapSeq(state.launchCore.rootfieldBundles,
            LAMBDA b : [rootfieldId |-> b.rootfieldId, status |-> b.status,
                        latestRoot |-> b.latestRoot, source |-> "launch-core"])
        merged(e) ==
            LET existing == findRow(Reverse(bundles), LAMBDA b : b.rootfieldId = e.id)
            IN  [rootfieldId |-> e.id,
                 status |-> IF first(e.object, <<"active">>, TRUE) = FALSE THEN "inactive"
                            ELSE first(e.object, <<"status">>, statusOf(existing, "active")),
                 latestRoot |-> first(e.object, <<"latestRoot">>,
                                      first(existing, <<"latestRoot">>, ZERO_ROOT)),
                 source |-> IF isNull(existing) THEN "local-runtime" ELSE "launch-core+local-runtime"]
    IN  lastPerId(bundles \o mapSeq(entries(localRuntimeRootfields(state)), merged), "rootfieldId")

taskScoutFixtureObject(state) ==
    IF ~isNull(state.taskScoutFixture) THEN state.taskScoutFixture
    ELSE member(state.launchCore, "taskScoutFixture")

taskScoutReplayReportObject(state) ==
    IF ~isNull(state.replayReport) THEN state.replayReport
    ELSE member(taskScoutFixtureObject(state), "verifierReport")

scoutStatus(scout) ==
    statusOf(member(scout, "verifierReport"), statusOf(member(scout, "agentMemoryView"), "observed"))

agentRows(state) ==
    LET scout == taskScoutFixtureObject(state)
        row(id, rootfieldId, status, source) ==
            [agentId |-> id, rootfieldId |-> rootfieldId, status |-> status, source |-> source]
        native == mapSeq(entries(localRuntimeAgentAccounts(state)),
            LAMBDA e : row(e.id, rootfieldIdOf(e.object), statusOf(e.object, "local"), "local-runtime"))
        views == mapSeq(state.launchCore.agentMemoryViews,
            LAMBDA v : row(v.viewId, v.rootfieldId, v.status, "launch-core"))
        scouts == IF isNull(scout) THEN <<>> ELSE
            << row(first(member(scout, "agentConfig"), <<"agentId">>,
                         first(member(scout, "agentMemoryView"), <<"viewId">>, ZERO_ROOT)),
                   rootfieldIdOf(member(scout, "agentConfig")), scoutStatus(scout),
                   "base-agent-memory-fixture") >>
    IN  sortById(native \o views \o scouts, "agentId")

baseAgentMemoryScoutRows(state) ==
    LET scout == taskScoutFixtureObject(state)
        config == member(scout, "agentConfig")
        view == member(scout, "agentMemoryView")
    IN  IF isNull(scout) THEN <<>> ELSE
        << [agentId |-> first(config, <<"agentId">>, NoId), viewId |-> first(view, <<"viewId">>, NoId),
            rootfieldId |-> first(config, <<"rootfieldId">>, rootfieldIdOf(view)),
            status |-> scoutStatus(scout),
            latestMemoryRoot |-> first(view, <<"latestMemoryRoot">>, NoId),
            actionReceiptId |-> first(member(scout, "actionReceipt"), <<"actionReceiptId">>, NoId),
            memoryDeltaId |-> first(member(scout, "memoryDelta"), <<"memoryDeltaId">>, NoId),
            verifierReportId |-> first(member(scout, "verifierReport"), <<"verifierReportId">>, NoId)] >>

modelRows(state) ==
    sortById(mapSeq(entries(localRuntimeModels(state)),
                 LAMBDA e : [modelId |-> e.id, rootfieldId |-> rootfieldIdOf(e.object),
                             status |-> statusOf(e.object, "local"), source |-> "local-runtime"])
             \o mapSeq(state.launchCore.agentMemoryViews,
                 LAMBDA v : [modelId |-> stableId("model.projected", v.rootfieldId),
                             rootfieldId |-> v.rootfieldId, status |-> "local-placeholder",
                             source |-> "projection"]), "modelId")

\* A runtime receipt takes the status of the first report about it.
workReceiptRows(state) ==
    LET reports == entries(localRuntimeReports(state))
        linked(id) == findRow(reports, LAMBDA r : first(r.object, <<"receiptId">>, NoId) = id)
    IN  sortById(mapSeq(entries(localRuntimeWorkReceipts(state)),
                     LAMBDA e : [receiptId |-> e.id, observationId |-> NoId, reportId |-> NoId,
                                 rootfieldId |-> rootfieldIdOf(e.object),
                                 status |-> statusOf(member(linked(e.id), "object"), "submitted"),
                                 source |-> "local-runtime"])
                 \o mapSeq(state.launchCore.memoryReceipts,
                     LAMBDA r : [receiptId |-> r.receiptId, observationId |-> r.observationId,
                                 reportId |-> r.reportId, rootfieldId |-> r.rootfieldId,
                                 status |-> r.flowMemoryStatus,
                                 source |-> "launch-core-memory-receipt"]), "receiptId")

artifactAvailabilityRows(state) ==
    LET row(id, artifactId, rootfieldId, uri, commitment, status, source) ==
            [availabilityId |-> id, artifactId |-> artifactId, rootfieldId |-> rootfieldId,
             uri |-> uri, commitment |-> commitment, status |-> status, source |-> source]
        proofs == mapSeq(entries(localRuntimeArtifactAvailability(state)),
            LAMBDA e : row(e.id, NoId, NoId, NoId, NoId, statusOf(e.object, "local"), "local-runtime"))
        commitments == mapSeq(entries(localRuntimeArtifacts(state)),
            LAMBDA e : row(e.id, e.id, rootfieldIdOf(e.object), first(e.object, <<"uriHint">>, NoId),
                first(e.object, <<"commitment">>, NoId), "committed_local",
                "local-runtime-artifact-commitment"))
        fixtures == mapSeq(entries(state.artifacts.artifactsByUri),
            LAMBDA e : row(stableId("artifact_availability.fixture", e.id),
                stableId("artifact.fixture", e.id), NoId, e.id,
                first(e.object, <<"artifactCommitment", "commitment">>, NoId),
                "available_fixture", "verifier-fixture"))
    IN  sortById(proofs \o commitments \o fixtures, "availabilityId")

\* The runtime's modules, one row per verifier spec and resolver policy of the reports,
\* and the verifiers named by the runtime's own reports unless a row has their key.
verifierModuleRows(state) ==
    LET row(id, verifierId, policyId, status, source) ==
            [moduleId |-> id, verifierId |-> verifierId, resolverPolicyId |-> policyId,
             status |-> status, source |-> source]
        native == mapSeq(entries(localRuntimeVerifierModules(state)),
            LAMBDA e : row(e.id, NoId, NoId, statusOf(e.object, "local"), "local-runtime"))
        specs == firstOccurrences(mapSeq(state.verifier.reports,
            LAMBDA r : [spec |-> r.verifierSpec, policy |-> r.resolverPolicyId]))
        verifiers == firstOccurrences(SelectSeq(mapSeq(entries(localRuntimeReports(state)),
            LAMBDA e : first(e.object, <<"verifierId">>, NoId)),
            LAMBDA id : id # NoId /\ \A i \in DOMAIN specs : id # specs[i].spec \o specs[i].policy))
    IN  sortById(native
            \o mapSeq(specs, LAMBDA k : row(stableId("verifier_module.projected", k.spec \o k.policy),
                   NoId, k.policy, "available_fixture", "verifier-report-projection"))
            \o mapSeq(verifiers, LAMBDA id : row(id, id, NoId, "available_fixture",
                   "local-runtime-report-projection")), "moduleId")

\* The runtime's cells, or else the task scout's cell and one per launch-core bundle.
memoryCellRows(state) ==
    LET native == mapSeq(entries(localRuntimeMemoryCells(state)),
            LAMBDA e : [memoryCellId |-> e.id, rootfieldId |-> rootfieldIdOf(e.object),
                        status |-> statusOf(e.object, "local"), source |-> "local-runtime"])
        cell == member(taskScoutFixtureObject(state), "memoryCell")
        scouted == IF isNull(cell) THEN <<>> ELSE
            << [memoryCellId |-> first(cell, <<"memoryCellId">>, NoId), rootfieldId |-> rootfieldIdOf(cell),
                status |-> statusOf(cell, "verified"), source |-> "base-agent-memory-fixture"] >>
        projected == mapSeq(state.launchCore.rootfieldBundles,
            LAMBDA b : [memoryCellId |-> b.rootfieldId, rootfieldId |-> b.rootfieldId,
                        status |-> b.status, source |-> "launch-core-projection"])
    IN  IF native # <<>> THEN native ELSE scouted \o projected

challengeRows(state) ==
    mapSeq(entries(localRuntimeChallenges(state)),
        LAMBDA e : [challengeId |-> e.id, targetId |-> first(e.object, <<"targetId", "receiptId">>, NoId),
                    receiptId |-> first(e.object, <<"receiptId">>, NoId),
                    status |-> statusOf(e.object, "unknown")])

agentBondTaskRows(state) ==
    LET fixture == member(state.launchCore, "agentBondFixture")
        task == member(fixture, "task")
    IN  IF isNull(task) THEN <<>> ELSE
        << [taskId |-> first(task, <<"taskId">>, NoId), rootfieldId |-> rootfieldIdOf(task),
            agent |-> first(task, <<"agent">>, NoId),
            status |-> statusOf(task, "unknown"),
            settlementStatus |-> statusOf(member(fixture, "settlement"), "unknown"),
            verifierStatus |-> statusOf(member(fixture, "verifierReport"), "unknown"),
            replayMatch |-> first(state.agentBondReplayReport, <<"match">>, FALSE),
            readinessOk |-> first(state.agentBondReadinessReport, <<"ok">>, FALSE)] >>

finalityStatusFor(status) ==
    CASE status \in {"verified", "valid", "finalized", "local-placeholder"} -> "local-finalized"
      [] status \in {"failed", "invalid"} -> "local-rejected"
      [] status \in {"reorged", "removed"} -> "reorged"
      [] status = "unsupported" -> "local-unsupported"
      [] OTHER -> "local-pending"

finalityRow(id, objectId, rootfieldId, sourceStatus, source) ==
    [finalityReceiptId |-> id, objectId |-> objectId, rootfieldId |-> rootfieldId,
     sourceStatus |-> sourceStatus, status |-> finalityStatusFor(sourceStatus), source |-> source]

finalityRows(state) ==
    sortById(mapSeq(entries(localRuntimeFinalityReceipts(state)),
                 LAMBDA e : finalityRow(e.id, first(e.object, <<"receiptId", "rootfieldId">>, e.id), NoId,
                     first(e.object, <<"finalityStatus", "status">>, "unknown"), "local-runtime"))
             \o mapSeq(state.launchCore.memoryReceipts,
                 LAMBDA r : finalityRow(stableId("finality.projected", r.receiptId), r.receiptId,
                     r.rootfieldId, r.flowMemoryStatus, "launch-core-projection")), "objectId")
=============================================================================
