--------------------------- MODULE ControlPlaneIntake ---------------------------
(***************************************************************************)
(* The two submit methods of services/control-plane/src/methods.ts:         *)
(* transaction_submit, which checks a signed envelope and appends it to the *)
(* transaction intake file, and bridge_observation_submit, which checks a   *)
(* deposit observation and appends it to the bridge intake file.            *)
(*                                                                          *)
(* A handler returns its reply together with the row it appends (`append`)  *)
(* and the runtime command it spawns afterwards (`submit`), each a sequence *)
(* of at most one element, so that the process that runs it can put the     *)
(* append, the command and a crash in between where the code has them.      *)
(***************************************************************************)
EXTENDS ControlPlaneMethods, Envelopes

\* The chain and the profile an envelope must be signed for.
FLOWMEMORY_LIVE_L1_CHAIN_ID == 31337
FLOWMEMORY_LIVE_L1_NETWORK_PROFILE == "local-chain"

\* A key that names a secret anywhere at the top of an object; the scan of the
\* strings themselves is a property of their characters.
SensitiveKeys == {"private_key", "mnemonic", "seed_phrase", "api_key", "secret_key"}
findSecret(o) == SensitiveKeys \cap DOMAIN o # {}

\* A handler that writes nothing.
noEffect(reply) == reply @@ [append |-> <<>>, submit |-> <<>>]

LocalEnvelopeSchema == "flowmemory.local_transaction_envelope.v0"
WalletEnvelopeSchema == "flowmemory.wallet_signed_envelope.v0"

hasSchema(o, schema) == hasField(o, "schema") /\ o.schema = schema

\* The document and the envelope of a submission, Null when they are not there.
signedEnvelopeForSubmit(params) ==
    LET signed == first(params, <<"signedEnvelope", "signedTransaction">>, Null)
        inner == member(signed, "envelope")
        wallet == CASE hasSchema(signed, WalletEnvelopeSchema) -> signed
                    [] hasSchema(inner, WalletEnvelopeSchema) -> inner
                    [] OTHER -> Null
        document == IF isNull(wallet)
                    THEN first(signed, <<"document", "tx", "transaction", "payload">>, Null)
                    ELSE first(signed, <<"document">>, first(wallet, <<"payload", "tx">>, Null))
        envelope == CASE ~ isNull(wallet) -> member(wallet, "localEnvelope")
                      [] ~ isNull(inner) -> inner
                      [] hasSchema(signed, LocalEnvelopeSchema) -> signed
                      [] OTHER -> Null
    IN  IF \/ {"transaction", "tx", "txs"} \cap DOMAIN params # {}
           \/ isNull(document) \/ ~ hasSchema(envelope, LocalEnvelopeSchema)
        THEN Null
        ELSE [document |-> document, envelope |-> envelope]

\* The envelope a stored row carries, if any.
storedEnvelope(row) ==
    LET signed == member(row, "signedEnvelope") IN
    IF hasField(signed, "envelope") THEN signed.envelope
    ELSE IF hasSchema(signed, LocalEnvelopeSchema) THEN signed ELSE Null

seenTransactionReplayKeys(state) ==
    UNION { {localTransactionReplayKey(e) : e \in {storedEnvelope(row)} \ {Null}}
              \cup {row[f] : f \in {"cryptoReplayKey"} \cap DOMAIN row}
          : row \in Range(txIntakeRows(state)) }

seenTransactionIds(state) ==
    UNION { {first(row, <<"txId", "transactionId">>, NoId)}
              \cup {e.transactionId : e \in {x \in {storedEnvelope(row)} : hasField(x, "transactionId")}}
          : row \in Range(txIntakeRows(state)) }

RuntimeSubmitModes == {"direct", "node-inbox", "off"}

\* How an accepted transaction is passed on; "invalid" makes the handler throw.
runtimeSubmitMode(params) ==
    CASE hasField(params, "runtimeSubmitMode") ->
           IF params.runtimeSubmitMode \in RuntimeSubmitModes THEN params.runtimeSubmitMode
           ELSE "invalid"
      [] \E f \in {"runtimeSubmit", "forwardToRuntime"} \cap DOMAIN params : params[f] -> "direct"
      [] OTHER -> "off"

transactionForRuntimeSubmit(signed, params) ==
    first(params, <<"runtimeTransaction", "runtimeTx">>, signed.document)

\* A context that remembers no earlier submission.
submitContextForgetful(params, signed, state) ==
    [chainId |-> FLOWMEMORY_LIVE_L1_CHAIN_ID,
     networkProfile |-> FLOWMEMORY_LIVE_L1_NETWORK_PROFILE,
     expectedNonce |-> first(params, <<"expectedNonce">>, signed.envelope.nonce),
     requireCanonical |-> TRUE, seenNonces |-> {}, seenTransactionIds |-> {}]

\* The context the runtime verifies a submission in.
submitContext(params, signed, state) ==
    [chainId |-> FLOWMEMORY_LIVE_L1_CHAIN_ID,
     networkProfile |-> FLOWMEMORY_LIVE_L1_NETWORK_PROFILE,
     expectedNonce |-> first(params, <<"expectedNonce">>, signed.envelope.nonce),
     requireCanonical |-> TRUE,
     seenNonces |-> seenTransactionReplayKeys(state),
     seenTransactionIds |-> seenTransactionIds(state)]

intakeRow(signed, submittedBy) ==
    LET payload == [signedEnvelope |-> signed, submittedBy |-> submittedBy,
                    cryptoReplayKey |-> localTransactionReplayKey(signed.envelope)]
    IN  payload @@ [intakeId |-> <<"transaction_intake", payload>>,
                    txId |-> flowmemoryTransactionId(signed.envelope),
                    status |-> "accepted_crypto_verified"]

\* The row is appended before the mode is read: a bad mode, like a failing
\* runtime command, reports an error for a transaction that stays in the file.
acceptTransaction(params, signed, row) ==
    LET mode == runtimeSubmitMode(params)
    IN  (IF mode = "invalid" THEN rejected("params.invalid")
         ELSE answer([accepted |-> TRUE, intakeId |-> row.intakeId, txId |-> row.txId,
                      forwardedTo |-> CASE mode = "off" -> "local-file-intake"
                                        [] mode = "direct" -> "local-runtime-state"
                                        [] OTHER -> "local-runtime-inbox"]))
        @@ [append |-> <<row>>,
            submit |-> IF mode \in {"off", "invalid"} THEN <<>>
                       ELSE <<[mode |-> mode, tx |-> transactionForRuntimeSubmit(signed, params)]>>]

submitVerified(params, signed, failures) ==
    IF failures # {} THEN noEffect(rejected(failures))
    ELSE acceptTransaction(params, signed,
           intakeRow(signed, first(params, <<"submittedBy">>, "local-control-plane")))

submitSigned(params, signed, state) ==
    IF isNull(signed) THEN noEffect(rejected("params.invalid"))
    ELSE submitVerified(params, signed,
           verifyFlowMemoryEnvelope(signed.document, signed.envelope, submitContext(params, signed, state)))

transactionSubmit(params, state) ==
    IF findSecret(params) THEN noEffect(rejected("secret.rejected"))
    ELSE submitSigned(params, signedEnvelopeForSubmit(params), state)

-----------------------------------------------------------------------------
(* Bridge observations. *)

bridgeSourceEventInput(deposit) ==
    [sourceChainId |-> deposit.sourceChainId, lockbox |-> deposit.sourceContract,
     txHash |-> deposit.txHash, logIndex |-> deposit.logIndex]

bridgeDepositCryptoInput(deposit) ==
    [sourceChainId |-> deposit.sourceChainId, lockbox |-> deposit.sourceContract,
     token |-> deposit.token, depositor |-> deposit.sender,
     recipient |-> deposit.flowmemoryRecipient, amount |-> deposit.amount,
     txHash |-> deposit.txHash, logIndex |-> deposit.logIndex,
     blockNumber |-> first(deposit, <<"sourceBlockNumber">>, 0),
     eventNonce |-> first(deposit, <<"nonce">>, 0)]

flowmemoryBridgeObservationId(input) == <<"flowmemoryBridgeObservationIdV0", input>>

\* The deposit fields without which the hashes cannot be computed.
DepositFields == {"sourceChainId", "sourceContract", "token", "sender", "flowmemoryRecipient",
                  "amount", "txHash", "logIndex"}

seenBridgeReplayKeys(state) ==
    {row.replayKey : row \in {r \in Range(bridgeObservationRows(state)) : hasField(r, "replayKey")}}

\* The guardrails of the pilot, with the code a missing one is reported under.
PilotGuardrails ==
    [explicitChainId |-> "missing-chain-guardrail", explicitContract |-> "missing-contract-guardrail",
     explicitBlockRange |-> "missing-range-guardrail", noSecrets |-> "missing-no-secret-guardrail",
     approvedContract |-> "unapproved-bridge-lockbox"]

verifyBridgeObservationForRuntime(observation, state) ==
    LET deposit == member(observation, "deposit")
        key == bridgeSourceEventReplayKey(bridgeSourceEventInput(deposit))
        id == flowmemoryBridgeObservationId(bridgeDepositCryptoInput(deposit))
        guardrails == member(observation, "guardrails")
        pilot == hasField(observation, "mode") /\ observation.mode = "base-mainnet-pilot"
    IN  IF isNull(deposit) THEN {"missing-bridge-deposit"}
        ELSE UNION
          { IF ~ DepositFields \subseteq DOMAIN deposit THEN {"malformed-bridge-evidence"}
            ELSE when(first(observation, <<"replayKey">>, NoId) # key, "wrong-bridge-replay-key")
                 \cup when(first(observation, <<"observationId">>, NoId) # id,
                           "wrong-bridge-observation-id")
                 \cup IF key \in seenBridgeReplayKeys(state)
                      THEN {"duplicate-bridge-replay-key", "duplicate-bridge-source-event"} ELSE {},
            when(pilot /\ first(deposit, <<"sourceChainId">>, 0) # 8453, "wrong-chain-id"),
            IF pilot THEN {PilotGuardrails[g] : g \in {g \in DOMAIN PilotGuardrails :
                                ~ hasField(guardrails, g) \/ ~ guardrails[g]}}
            ELSE {} }

submitObservation(observation, failures) ==
    IF failures # {} THEN noEffect(rejected(failures))
    ELSE answer([accepted |-> TRUE, observationId |-> observation.observationId])
         @@ [append |-> <<observation @@ [mode |-> "mock"] @@ [intakeStatus |-> "accepted_local"]>>,
             submit |-> <<>>]

bridgeObservationSubmit(params, state) ==
    LET observation == IF hasField(params, "observation") THEN params.observation ELSE params
    IN  IF findSecret(observation) THEN noEffect(rejected("secret.rejected"))
        ELSE submitObservation(observation, verifyBridgeObservationForRuntime(observation, state))

\* The two methods that write.
intakeMethod(method, params, state) ==
    IF method = "transaction_submit" THEN transactionSubmit(params, state)
    ELSE bridgeObservationSubmit(params, state)

-----------------------------------------------------------------------------
(* The intake files. *)

\* Appending a row to a file whose last line was torn by a crash joins the two:
\* the row ends up on a line no reader can parse.
appendNdjson(lines, row) ==
    IF lines # <<>> /\ Last(lines) = Torn THEN Append(Front(lines), Garbled)
    ELSE Append(lines, row)

=============================================================================
