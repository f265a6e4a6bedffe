--------------------------- MODULE MCControlPlane ---------------------------
(***************************************************************************)
(* The control plane under small loads.  Each initial state is one load:    *)
(* two or three requests, what the local process is to submit, whether a    *)
(* node runs beside them, the configuration and the files found.  Within a  *)
(* load every order of the steps is explored, with one crash.               *)
(***************************************************************************)
EXTENDS ControlPlaneServer, SampleState

CONSTANTS c1, c2, c3

\* The order of listed rows is not observed here.
noRank(id) == 0

sampleSources(condition) ==
  IF condition = "whole" THEN SampleFiles
  ELSE [SampleFiles EXCEPT !.launchCore = malformed, !.agentBondFixture = missing]

---------------------------------------------------------------------------
\* The runtime's state file.

balance(account, units) == (account :> [accountId |-> account, units |-> units, totalFaucetUnits |-> 0])

InitialRuntime ==
  [localTestUnitBalances |-> balance(<<"a">>, 4) @@ balance(<<"b">>, 3),
   balanceTransfers |-> <<>>, faucetRecords |-> <<>>, pendingTxs |-> <<>>, blocks |-> <<>>,
   bridgeAccountMappings |-> (<<"m">> :> [accountId |-> <<"b">>, flowmemoryRecipient |-> <<"base", "b">>]),
   nextBlockNumber |-> 1]

---------------------------------------------------------------------------
\* Requests.

request(verb, path, payload) ==
  [verb |-> verb, path |-> path, remoteAddress |-> "peer", contentType |-> "json",
   body |-> "json", payload |-> payload, query |-> Null]

send(from, to, amount) == [from |-> from, toAccountId |-> to, amountUnits |-> amount]

Sends ==
  { send(<<"a">>, <<"b">>, 2),                                          \* twice: the second may lack units
    send(<<"a">>, <<"base", "b">>, 3),                                  \* a mapped recipient
    send(<<"a">>, <<"a">>, 1),                                          \* to itself
    send(<<"a">>, <<"new">>, 1),                                        \* creates its recipient
    send(<<"a">>, <<"new">>, 3) @@ [createRecipient |-> FALSE],         \* refused
    [from |-> <<"b">>, to |-> <<"a">>, amountEth |-> [whole |-> 0, fraction |-> 2, digits |-> 1]],
    send(<<"a">>, <<"b">>, 4),                                          \* the recipient's balance would overflow
    send(<<"a">>, <<"b">>, 1) @@ [applyBlock |-> FALSE],                \* left to the node
    send(<<"a">>, <<"new">>, 1) @@ [applyBlock |-> FALSE] }

testerRequest(path, payload) == request("POST", path, payload) @@ [bearer |-> <<"token">>]

drip(amount, reason) == [accountId |-> <<"new">>, amountUnits |-> amount] @@ reason

RuntimeRequests ==
  {request("POST", "/wallets/send", payload) : payload \in Sends}
  \cup {testerRequest("/tester/wallets/send", send(<<"b">>, <<"a">>, amount)) : amount \in {1, 2}}
  \cup {testerRequest("/tester/faucet", drip(1, Null)), testerRequest("/tester/faucet", drip(1, [reason |-> <<"gift">>]))}

creation(path, fields) == testerRequest(path, [password |-> "long"] @@ fields)

CreateRequests ==
  { creation("/wallets/create", Null), creation("/wallets/create", [replace |-> TRUE]),
    creation("/wallets/create", [isolated |-> TRUE, label |-> "tester"]),
    creation("/tester/wallets/create", [label |-> "tester"]),
    creation("/tester/wallets/create", [label |-> "tester", replace |-> TRUE]) }

rpc(payload) == request("POST", "/rpc", payload)

method(name, params) ==
  [kind |-> "object", jsonrpc |-> "2.0", method |-> name, id |-> "1", params |-> params]

\* Every way a request ends before it reaches a handler, and the reads.
PlainRequests ==
  { request("OPTIONS", "/rpc", Null), request("GET", "/nowhere", Null),
    request("GET", "/wallets/operator", Null), request("GET", "/tester/status", Null),
    request("GET", "/bridge/observations", Null), request("POST", "/bridge/observations", Null),
    [rpc(Null) EXCEPT !.contentType = "text"], [rpc(Null) EXCEPT !.body = "oversize"],
    [request("POST", "/wallets/send", Null) EXCEPT !.body = "malformed"],
    request("POST", "/wallets/send", Null), request("POST", "/wallets/create", Null),
    request("POST", "/tester/faucet", drip(1, Null)),
    request("POST", "/tester/faucet", drip(1, Null)) @@ [bearer |-> <<"guess">>],
    testerRequest("/tester/faucet", [amountUnits |-> 1]),
    request("GET", "/health", Null) @@ [origin |-> "elsewhere"],
    rpc([kind |-> "array", entries |-> <<>>]),
    rpc([kind |-> "array", entries |-> << method("unknown", Null), [kind |-> "scalar"] >>]),
    rpc([kind |-> "object", jsonrpc |-> "2.0", method |-> "mempool_list"]) }

---------------------------------------------------------------------------
\* Submissions of the local process.

Signer == createEncryptedTestVault(<<"vault">>, <<"agent", "key">>, "agent", 31337)

document(n) ==
  buildProductTransferDocument(
    [fromAccountId |-> <<"a">>, toAccountId |-> <<"b">>, assetId |-> LOCAL_TEST_UNIT_ASSET_ID,
     memoHash |-> <<"memo", n>>, amount |-> 1, accountNonce |-> n, deadlineBlock |-> 9])

\* A call is described by what sets it apart.
submission(n, nonce) == [n |-> n, nonce |-> nonce, with |-> Null]

forwarded(submitted, mode, tx) ==
  [submitted EXCEPT !.with = [runtimeSubmitMode |-> mode, runtimeTransaction |-> tx]]

observationAt(log) == [log |-> log]

SignedTransfer == transferUnits(<<"signed">>, <<"a">>, <<"b">>, 1)

signedDocument(vault, doc, nonce) ==
  [document |-> doc,
   envelope |-> signLocalTransactionWithVault(vault, vault.accounts[1].signerKeyId, doc, 31337, nonce, 10)]

transactionCall(d) ==
  [method |-> "transaction_submit",
   params |-> [signedEnvelope |-> signedDocument(Signer, document(d.n), d.nonce)] @@ d.with]

observationCall(log) ==
  LET deposit == [sourceChainId |-> 84532, sourceContract |-> <<"lockbox">>, token |-> <<"usdc">>,
                  sender |-> <<"depositor">>, flowmemoryRecipient |-> <<"wallet">>, amount |-> 5,
                  txHash |-> <<"base", "tx">>, logIndex |-> log, depositId |-> <<"deposit">>]
  IN  [method |-> "bridge_observation_submit",
       params |-> [deposit |-> deposit,
                   replayKey |-> bridgeSourceEventReplayKey(bridgeSourceEventInput(deposit)),
                   observationId |-> flowmemoryBridgeObservationId(bridgeDepositCryptoInput(deposit))]]

\* The same transaction again, another one with its nonce, a new one, one that is no
\* transaction of the runtime, one with an unknown mode, and the same deposit again.
LocalCalls ==
  { << submission(1, 1), submission(1, 1), submission(2, 2) >>,
    << submission(1, 1), submission(2, 1) >>,
    << submission(1, 1), forwarded(submission(1, 1), "direct", SignedTransfer) >>,
    << forwarded(submission(1, 1), "direct", document(1)), submission(1, 1) >>,
    << forwarded(submission(1, 1), "unknown", SignedTransfer), submission(1, 1) >>,
    << observationAt(0), observationAt(0), observationAt(1) >> }

callOf(d) == IF hasField(d, "log") THEN observationCall(d.log) ELSE transactionCall(d)

ForwardCalls ==
  { << forwarded(submission(1, 1), mode, SignedTransfer) >> : mode \in {"direct", "node-inbox"} }

---------------------------------------------------------------------------
\* Loads.

Unlimited == [allowedOrigins |-> {}, rateLimit |-> 0, testerEnabled |-> TRUE,
              tokenHash |-> <<<<"token">>>>, maxSendUnits |-> <<1>>]

Limited(limit) == [Unlimited EXCEPT !.rateLimit = limit]

Closed == [Unlimited EXCEPT !.allowedOrigins = {"home"}, !.testerEnabled = FALSE]

load(requests, calls, nodePhase, env) ==
  [requests |-> requests, calls |-> calls, node |-> nodePhase, env |-> env,
   others |-> "whole", wallets |-> "none", timed |-> FALSE]

\* Callers are alike: the order of two requests is that of their steps.
pairsOf(set) == {<<x, x>> : x \in set} \cup {SetToSeq(s) : s \in kSubset(2, set)}

\* Sends and drips, alone, beside a node, and beside a process that submits directly.
RuntimeLoads ==
  {load(pair, <<>>, "absent", Unlimited) : pair \in pairsOf(RuntimeRequests)}
  \cup {load(<<x>>, <<>>, "off", Unlimited) : x \in RuntimeRequests}
  \cup {load(<<request("POST", "/wallets/send", payload)>>, calls, nodePhase, Unlimited)
        : payload \in {send(<<"a">>, <<"b">>, 2), send(<<"a">>, <<"b">>, 1) @@ [applyBlock |-> FALSE]},
          calls \in ForwardCalls, nodePhase \in {"absent", "off"}}
  \cup {[load(<<testerRequest("/tester/faucet", drip(1, Null)),
                testerRequest("/tester/faucet", drip(1, Null))>>, <<>>, "absent", Unlimited)
         EXCEPT !.timed = TRUE]}

WalletLoads ==
  {[load(<<x, y>> \o z, <<>>, "absent", Unlimited) EXCEPT !.wallets = w]
   : x \in CreateRequests, y \in CreateRequests,
     z \in {<<>>, <<request("GET", "/wallets/operator", Null)>>}, w \in {"none", "present"}}

\* Three requests of one caller, or of two behind a proxy.
RateLoads ==
  {[load([i \in 1..3 |-> request("OPTIONS", "/rpc", Null) @@ hop[i]], <<>>, "absent", Limited(limit))
    EXCEPT !.timed = TRUE]
   : limit \in {1, 2},
     hop \in { <<Null, Null, Null>>,
               << [forwardedFor |-> <<"x", "y">>], [forwardedFor |-> <<"y">>], [forwardedFor |-> <<"x">>] >> } }

IntakeLoads ==
  {load(<<rpc(method("mempool_list", Null)), rpc(p)>>, calls, "absent", Unlimited)
   : p \in {method("transaction_submit", callOf(submission(3, 3)).params),
            [kind |-> "array", entries |-> << method("mempool_list", Null),
                                              method("bridge_observation_submit", callOf(observationAt(2)).params) >>]},
     calls \in LocalCalls}

PlainLoads ==
  {[load(<<r>>, <<>>, "absent", env) EXCEPT !.others = o]
   : r \in PlainRequests, env \in {Unlimited, Closed, Limited(1)}, o \in {"whole", "unreadable"}}
  \cup {[load(pair, <<>>, "absent", Unlimited) EXCEPT !.others = "unreadable"]
        : pair \in {<<request("POST", "/wallets/send", send(<<"a">>, <<"b">>, 2)), request("GET", "/health", Null)>>}}

Loads == RuntimeLoads \cup WalletLoads \cup RateLoads \cup IntakeLoads \cup PlainLoads

Nobody == [phase |-> "none", request |-> Null, loaded |-> Null, reply |-> Null]

clientsOf(requests) ==
  LET place == [c \in Client |-> CASE c = c1 -> 1 [] c = c2 -> 2 [] OTHER -> 3]
  IN  [c \in Client |-> IF place[c] \in DOMAIN requests
                        THEN [Nobody EXCEPT !.phase = "new", !.request = requests[place[c]]] ELSE Nobody]

FirstVault == createEncryptedTestVault(<<"wallet", 0>>, <<"wallet", 0>>, "operator", 31337)

walletsOf(condition) ==
  [base \in {"operator", "tester"} |->
     IF condition = "none" THEN NoWallet
     ELSE [vault |-> FirstVault, metadata |-> exportLocalWalletPublicMetadata(FirstVault)]]

ControlPlaneInit ==
  \E l \in Loads :
    /\ disk = [rt |-> InitialRuntime, inbox |-> {}, txIntake |-> <<>>, bridgeIntake |-> <<>>,
               wallets |-> walletsOf(l.wallets), others |-> l.others]
    /\ clients = clientsOf(l.requests)
    /\ server = [up |-> TRUE, env |-> l.env, buckets |-> <<>>, job |-> Null, orphan |-> Null]
    /\ local = [todo |-> [i \in DOMAIN l.calls |-> callOf(l.calls[i])], stage |-> "idle", row |-> Null, submit |-> <<>>, loaded |-> Null,
                outcome |-> "none", done |-> <<>>]
    /\ node = [phase |-> l.node, memory |-> Null, saved |-> Null, ran |-> FALSE, idle |-> 0]
    /\ clock = IF l.timed THEN 0 ELSE MaxClock
    /\ history = [admitted |-> <<>>, accepted |-> {}, hidden |-> {}, queued |-> {}, unfinished |-> {},
                  overwritten |-> FALSE, forwarded |-> FALSE, drainLost |-> FALSE, crashes |-> 0, keys |-> 1]

ControlPlaneSpec == ControlPlaneInit /\ [][ControlPlaneNext]_serverVars /\ ControlPlaneFairness

=============================================================================
