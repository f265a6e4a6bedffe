---------------------------- MODULE WalletRuntime ----------------------------
(***************************************************************************)
(* Sends and faucet drips through the local runtime: what the control       *)
(* plane checks before it starts a runtime command                          *)
(* (services/control-plane/src/wallet-runtime.ts) and what those commands   *)
(* do to the runtime's state file (crates/flowmemory-local-runtime/src).    *)
(*                                                                          *)
(* A runtime state holds the maps of the state file that these commands     *)
(* touch: localTestUnitBalances, balanceTransfers, faucetRecords,           *)
(* bridgeAccountMappings, and pendingTxs, blocks and nextBlockNumber.       *)
(***************************************************************************)
EXTENDS ControlPlaneIntake

CONSTANTS
    U64_MAX,       \* 2^64 - 1 in the code
    EthDecimals    \* 18 in the code: an amount has at most that many decimals

---------------------------------------------------------------------------
\* The transactions, and what the runtime makes of them.

createBalance(account) == [type |-> "CreateLocalTestUnitBalance", accountId |-> account]

faucetUnits(account, amount, reason) ==
    [type |-> "FaucetLocalTestUnits", faucetRecordId |-> <<"faucet", account, amount, reason>>,
     accountId |-> account, amountUnits |-> amount]

transferUnits(id, from, to, amount) ==
    [type |-> "TransferLocalTestUnits", transferId |-> id, fromAccountId |-> from,
     toAccountId |-> to, amountUnits |-> amount]

RuntimeTransactionTypes ==
    {"CreateLocalTestUnitBalance", "FaucetLocalTestUnits", "TransferLocalTestUnits"}

unitsOf(rt, account) == rt.localTestUnitBalances[account].units
hasBalance(rt, account) == account \in DOMAIN rt.localTestUnitBalances

rejectedTx(rt) == [status |-> "rejected", rt |-> rt]
appliedTx(rt) == [status |-> "applied", rt |-> rt]

applyCreate(rt, tx) ==
    IF hasBalance(rt, tx.accountId) THEN rejectedTx(rt)
    ELSE appliedTx([rt EXCEPT !.localTestUnitBalances =
                      (tx.accountId :> [accountId |-> tx.accountId, units |-> 0,
                                        totalFaucetUnits |-> 0]) @@ @])

\* The units are added before the account's faucet total is checked: a total that
\* would overflow rejects the transaction with the units already in the balance.
applyFaucet(rt, tx) ==
    LET balance == rt.localTestUnitBalances[tx.accountId]
        credited == [rt EXCEPT !.localTestUnitBalances[tx.accountId].units = @ + tx.amountUnits]
    IN  IF \/ tx.amountUnits = 0 \/ tx.faucetRecordId \in DOMAIN rt.faucetRecords
           \/ ~ hasBalance(rt, tx.accountId)
        THEN rejectedTx(rt)
        ELSE IF balance.units + tx.amountUnits > U64_MAX THEN rejectedTx(rt)
        ELSE IF balance.totalFaucetUnits + tx.amountUnits > U64_MAX THEN rejectedTx(credited)
        ELSE appliedTx([credited EXCEPT
               !.localTestUnitBalances[tx.accountId].totalFaucetUnits = @ + tx.amountUnits,
               !.faucetRecords = (tx.faucetRecordId :> tx) @@ @])


\* A transfer to the same account is recorded and moves nothing.
applyTransfer(rt, tx) ==
    LET from == tx.fromAccountId
        to == tx.toAccountId
        amount == tx.amountUnits
        recorded == [rt EXCEPT !.balanceTransfers = (tx.transferId :> tx) @@ @]
    IN  IF \/ tx.transferId \in DOMAIN rt.balanceTransfers \/ amount = 0
           \/ ~ hasBalance(rt, from)
        THEN rejectedTx(rt)
        ELSE IF unitsOf(rt, from) < amount THEN rejectedTx(rt)
        ELSE IF from = to THEN appliedTx(recorded)
        ELSE IF ~ hasBalance(rt, to) THEN rejectedTx(rt)
        ELSE IF unitsOf(rt, to) + amount > U64_MAX THEN rejectedTx(rt)
        ELSE appliedTx([recorded EXCEPT !.localTestUnitBalances[from].units = @ - amount,
                                        !.localTestUnitBalances[to].units = @ + amount])

apply_transaction(rt, tx) ==
    CASE tx.type = "CreateLocalTestUnitBalance" -> applyCreate(rt, tx)
      [] tx.type = "FaucetLocalTestUnits"       -> applyFaucet(rt, tx)
      [] tx.type = "TransferLocalTestUnits"     -> applyTransfer(rt, tx)

envelope_tx(tx) == [txId |-> <<"runtime_tx", tx>>, tx |-> tx]

\* Every pending transaction gets a receipt, whether or not it could be applied.
build_block(rt) ==
    LET step(acc, pending) ==
          LET result == apply_transaction(acc.rt, pending.tx)
          IN  [rt |-> result.rt,
               receipts |-> Append(acc.receipts, [txId |-> pending.txId, status |-> result.status])]
        done == FoldLeft(step, [rt |-> rt, receipts |-> <<>>], rt.pendingTxs)
        block == [blockNumber |-> rt.nextBlockNumber,
                  blockHash |-> <<"block", rt.nextBlockNumber, done.receipts>>,
                  txIds |-> mapSeq(done.receipts, LAMBDA r : r.txId),
                  receipts |-> done.receipts]
    IN  [done.rt EXCEPT !.pendingTxs = <<>>, !.nextBlockNumber = @ + 1,
                        !.blocks = Append(@, block)]

queue_txs_direct(rt, txs) == [rt EXCEPT !.pendingTxs = @ \o mapSeq(txs, envelope_tx)]

\* The inbox holds one file per batch, named by the ids of its transactions: the same
\* batch written twice is one file.
write_txs_to_inbox(inbox, txs) == inbox \cup {txs}


\* The node reads the files in the order of their names.
drain_inbox(rt, batches) == queue_txs_direct(rt, FlattenSeq(batches))

---------------------------------------------------------------------------
\* What the control plane checks first.  An empty answer stands for a throw.

\* A decimal is [whole, fraction, digits]; NotAnAmount is what does not parse.
NotAnAmount == -1

decimalEthToWei(d) ==
    IF d.digits > EthDecimals THEN NotAnAmount
    ELSE (d.whole * (10 ^ EthDecimals)) + (d.fraction * (10 ^ (EthDecimals - d.digits)))

assertTransferAmount(value) == IF value > 0 /\ value <= U64_MAX THEN <<value>> ELSE <<>>

amountUnitsFromPayload(payload) ==
    CASE {"amountUnits", "amount_units"} \cap DOMAIN payload # {} ->
           assertTransferAmount(first(payload, <<"amountUnits", "amount_units">>, NotAnAmount))
      [] {"amountEth", "amount"} \cap DOMAIN payload # {} ->
           assertTransferAmount(decimalEthToWei(first(payload, <<"amountEth", "amount">>, Null)))
      [] OTHER -> <<>>

requiredText(payload, names) == first(payload, names, NoId)

flag(payload, name) == ~ hasField(payload, name) \/ payload[name]

parseWalletSendPayload(payload) ==
    LET from == requiredText(payload, <<"fromAccountId", "from", "sender">>)
        to == requiredText(payload, <<"toAccountId", "to", "recipient">>)
        amount == amountUnitsFromPayload(payload)
    IN  IF findSecret(payload) \/ NoId \in {from, to} \/ amount = <<>> THEN <<>>
        ELSE << [fromAccountId |-> from, toAccountId |-> to, amountUnits |-> amount[1],
                 memo |-> first(payload, <<"memo">>, "flowmemory-wallet-send"),
                 applyBlock |-> flag(payload, "applyBlock"),
                 createRecipient |-> flag(payload, "createRecipient")] >>

parseLocalFaucetPayload(payload) ==
    LET account == requiredText(payload, <<"accountId", "toAccountId", "walletAddress", "recipient">>)
        amount == amountUnitsFromPayload(payload)
    IN  IF findSecret(payload) \/ account = NoId \/ amount = <<>> THEN <<>>
        ELSE << [accountId |-> account, amountUnits |-> amount[1],
                 reason |-> first(payload, <<"reason">>, "flowmemory-local-tester-faucet"),
                 applyBlock |-> flag(payload, "applyBlock")] >>

\* An account of the runtime, or the one a bridge recipient is mapped to.
resolveRuntimeAccount(rt, account) ==
    LET mapping == findRow(mapSeq(entries(rt.bridgeAccountMappings), LAMBDA e : e.object),
                           LAMBDA row : account \in {row.flowmemoryRecipient, row.accountId})
    IN  IF hasBalance(rt, account) \/ isNull(mapping) THEN account ELSE mapping.accountId

\* What is left to do once a request has passed its checks: the transactions to
\* queue, and whether they go into the state file and a block or into the inbox.
runtimeWork(kind, id, txs, direct) ==
    [kind |-> kind, id |-> id, txs |-> txs, direct |-> direct]

\* The transactions of a send: the recipient's balance is created first when it is missing.
sendTxs(rt, to, transfer, creates) ==
    CASE hasBalance(rt, to) -> << <<transfer>> >>
      [] ~ hasBalance(rt, to) /\ creates -> << <<createBalance(to), transfer>> >>
      [] OTHER -> <<>>

\* executeWalletSend up to its first command.
walletSendFrom(rt, request, from, to) ==
    LET id == <<"transfer", from, to, request.amountUnits, request.memo, rt.nextBlockNumber>>
        txs == sendTxs(rt, to, transferUnits(id, from, to, request.amountUnits), request.createRecipient)
    IN  IF ~ hasBalance(rt, from) THEN <<>>
        ELSE IF unitsOf(rt, from) < request.amountUnits \/ txs = <<>> THEN <<>>
        ELSE << runtimeWork("send", id, txs[1], request.applyBlock) >>

walletSendRequested(rt, parsed) ==
    IF parsed = <<>> THEN <<>>
    ELSE walletSendFrom(rt, parsed[1], resolveRuntimeAccount(rt, parsed[1].fromAccountId),
                        resolveRuntimeAccount(rt, parsed[1].toAccountId))

walletSendChecked(rt, payload) == walletSendRequested(rt, parseWalletSendPayload(payload))

\* executeLocalFaucet up to its first command.
localFaucetChecked(payload) ==
    LET parsed == parseLocalFaucetPayload(payload)
        request == parsed[1]
        drip == faucetUnits(request.accountId, request.amountUnits, request.reason)
    IN  IF parsed = <<>> THEN <<>>
        ELSE << runtimeWork("faucet", drip.faucetRecordId,
                            <<createBalance(request.accountId), drip>>, request.applyBlock) >>

accountsOf(txs) ==
    UNION { {tx[f] : f \in {"accountId", "fromAccountId", "toAccountId"} \cap DOMAIN tx}
          : tx \in Range(txs) }

\* What the finished work reports: "applied" whenever a block was asked for.
runtimeAnswer(work, after) ==
    [accepted |-> TRUE, applied |-> work.direct,
     status |-> IF work.direct THEN "applied_local_runtime" ELSE "queued_local_runtime",
     id |-> work.id,
     balancesAfter |-> [a \in accountsOf(work.txs)
                        |-> IF hasBalance(after, a) THEN <<unitsOf(after, a)>> ELSE <<>>]]
=============================================================================
