------------------------------ MODULE Objects -------------------------------
(* The object documents of the crypto package: the typed hash that names a   *)
(* document, the table of object kinds, and the validation of a document     *)
(* with the signature envelope that carries it.                              *)
(*                                                                           *)
(* A hash is its preimage, so distinct inputs have distinct hashes.  A       *)
(* 32-byte value or an address is a tuple: the empty tuple is the zero       *)
(* value, Malformed stands for every string that is not hex of the right     *)
(* length.  Integers, strings and flags are plain values.                    *)
EXTENDS Integers, Sequences, FiniteSets, TLC, Functions, SequencesExt

ZERO_BYTES32 == <<>>

Malformed == <<"malformed">>

isHex32(v) == v # Malformed

keccakUtf8(s) == <<"utf8", s>>

canonicalJsonHash(v) == <<"json", v>>

\* The fields of a typed hash: `words' are 32-byte values and addresses,
\* `plain' the integers, flags and hashed strings.
idSpec(type, words, plain) == [type |-> type, words |-> words, plain |-> plain]

\* Encoding a value that is not hex throws; the hash is then Malformed.
typedHash(spec, input) ==
  IF \E f \in spec.words : input[f] = Malformed THEN Malformed
  ELSE <<spec.type, [f \in spec.words \cup spec.plain |-> input[f]]>>

eip712Digest(separator, structHash) == <<"eip712", separator, structHash>>

-----------------------------------------------------------------------------
(* The fields that name each kind of object.                                 *)

agentAccountId ==
  idSpec("agentAccountV0", {"namespaceId", "owner", "policyRoot", "toolPermissionsRoot",
     "modelAllowlistRoot", "memoryNamespaceRoot", "nonce"}, {"spendingLimitPerEpoch"})

modelPassportId ==
  idSpec("modelPassportV0", {"providerHash", "modelFamilyHash", "versionHash",
     "licenseRoot", "policyRoot", "artifactRoot", "metadataHash", "nonce"}, {})

memoryCellId ==
  idSpec("memoryCellV0", {"ownerAgentId", "currentMemoryRoot", "previousMemoryRoot",
     "lastDeltaRoot", "sourceReceiptsRoot", "dependencyRoot"}, {"updatedAtUnixMs",
     "cellVersion"})

artifactAvailabilityProofId ==
  idSpec("artifactAvailabilityProofV0", {"artifactRoot", "providerId", "locationCommitment",
     "storageReceiptCommitment", "availabilitySampleRoot", "nonce"}, {"issuedAtUnixMs",
     "expiresAtUnixMs", "status"})

verifierModuleId ==
  idSpec("verifierModuleV0", {"ownerId", "codeRoot", "manifestRoot", "supportedModesRoot",
     "supportedChallengeTypesRoot", "verifierSetRoot"}, {"moduleVersion", "status"})

challengeId ==
  idSpec("challengeV0", {"receiptId", "challengerId", "evidenceRoot", "nonce"},
     {"challengeType", "openedAtUnixMs", "deadlineUnixMs", "status"})

finalityReceiptId ==
  idSpec("finalityReceiptV0", {"receiptId", "reportId", "challengeRoot",
     "finalizedBlockHash", "policyHash"}, {"finalityState", "finalizedAtUnixMs",
     "finalizedBlockNumber"})

bridgeDepositId ==
  idSpec("bridgeDepositV0", {"sourceContract", "txHash", "token", "sender",
     "flowmemoryRecipient", "metadataHash"}, {"sourceChainId", "logIndex", "amount",
     "nonce"})

bridgeCreditId ==
  idSpec("bridgeCreditV0", {"depositId", "recipient", "assetId", "nonce"}, {"amount",
     "creditedAtBlockNumber", "creditedAtUnixMs", "status"})

bridgeWithdrawalId ==
  idSpec("bridgeWithdrawalV0", {"accountId", "destinationContract", "token", "recipient",
     "nonce", "metadataHash"}, {"destinationChainId", "amount", "requestedAtBlockNumber",
     "requestedAtUnixMs", "status"})

localBalanceRecordId ==
  idSpec("localBalanceRecordV0", {"accountId", "assetId", "lastCreditId",
     "lastWithdrawalId", "stateRoot", "nonce"}, {"availableAmount", "lockedAmount",
     "updatedAtBlockNumber"})

productTransferId ==
  idSpec("productTransferV0", {"fromAccountId", "toAccountId", "assetId", "memoHash"},
     {"amount", "accountNonce", "deadlineBlock"})

productTokenLaunchId ==
  idSpec("productTokenLaunchV0", {"issuerAccountId", "tokenId", "symbolHash", "nameHash",
     "metadataHash", "recipientAccountId", "launchPolicyHash"}, {"decimals",
     "initialSupply", "accountNonce"})

productPoolCreateId ==
  idSpec("productPoolCreateV0", {"creatorAccountId", "poolId", "baseAssetId",
     "quoteAssetId", "metadataHash"}, {"feeBps", "tickSpacing", "accountNonce"})

productAddLiquidityId ==
  idSpec("productAddLiquidityV0", {"providerAccountId", "poolId"}, {"baseAmount",
     "quoteAmount", "minLiquidityTokens", "deadlineBlock", "accountNonce"})

productRemoveLiquidityId ==
  idSpec("productRemoveLiquidityV0", {"providerAccountId", "poolId"}, {"liquidityTokens",
     "minBaseAmount", "minQuoteAmount", "deadlineBlock", "accountNonce"})

productSwapId ==
  idSpec("productSwapV0", {"traderAccountId", "poolId", "assetInId", "assetOutId"},
     {"amountIn", "minAmountOut", "deadlineBlock", "accountNonce"})

productBridgeCreditAckId ==
  idSpec("productBridgeCreditAckV0", {"creditId", "depositId", "accountId", "assetId"},
     {"amount", "acknowledgedAtBlockNumber", "accountNonce"})

bridgeWithdrawalIntentId ==
  idSpec("bridgeWithdrawalIntentV0", {"creditId", "depositId", "token", "flowmemoryAccount",
     "baseRecipient"}, {"sourceChainId", "destinationChainId", "amount", "status",
     "requestedAt", "testMode", "broadcast", "releasePolicy", "productionReady"})

pilotBridgeCreditAckId ==
  idSpec("pilotBridgeCreditAckV0", {"contractAddress", "operatorId", "creditId",
     "depositId", "accountId", "assetId"}, {"chainId", "amount",
     "acknowledgedAtBlockNumber", "accountNonce", "issuedAtUnixMs", "expiresAtUnixMs",
     "pilotCap"})

pilotWithdrawalIntentId ==
  idSpec("pilotWithdrawalIntentV0", {"contractAddress", "operatorId", "creditId",
     "depositId", "token", "flowmemoryAccount", "baseRecipient"}, {"sourceChainId",
     "destinationChainId", "amount", "status", "requestedAt", "accountNonce",
     "issuedAtUnixMs", "expiresAtUnixMs", "pilotCap"})

pilotReleaseEvidenceId ==
  idSpec("pilotReleaseEvidenceV0", {"contractAddress", "operatorId", "withdrawalIntentId",
     "releaseTxHash", "token", "recipient", "evidenceHash"}, {"chainId", "releaseLogIndex",
     "amount", "releasedAtBlockNumber", "releasedAtUnixMs", "issuedAtUnixMs",
     "expiresAtUnixMs", "pilotCap"})

pilotEmergencyControlId ==
  idSpec("pilotEmergencyControlV0", {"contractAddress", "operatorId", "targetSignerId",
     "reasonHash", "nonce"}, {"chainId", "action", "issuedAtUnixMs", "expiresAtUnixMs",
     "pilotCap"})

hardwareSignalEnvelopeId ==
  idSpec("hardwareSignalEnvelopeV0", {"deviceId", "signalRoot", "previousSignalEnvelopeId",
     "channelRoot", "nonce"}, {"sequence", "observedAtUnixMs", "transport"})

controlPlaneProvenanceResponseId ==
  idSpec("controlPlaneProvenanceResponseV0", {"requestId", "subjectId", "agentId",
     "receiptId", "reportId", "memoryCellId", "dependencyRoot", "responseBodyHash"},
     {"issuedAtUnixMs", "responseVersion"})

workReceiptId ==
  idSpec("workReceiptV0", {"observationId", "receiptHash", "workerId", "nonce"},
     {"workerSequence"})

verifierReportHash ==
  idSpec("verifierReportV0", {"reportSchemaHash", "observationId", "receiptHash",
     "verifierId", "verifierSetRoot", "checksRoot", "finalizedBlockHash"}, {"status",
     "finalizedBlockNumber", "reportVersion"})

-----------------------------------------------------------------------------
(* What each kind of object requires of its document.                        *)

NoCodes == [f \in {} |-> f]

\* `codes' names the document field an id field is read from, where they differ.
descriptor(objectType, idField, signerRoles, nonzeroFields, id, codes) ==
  [objectType |-> objectType, idField |-> idField, signerRoles |-> signerRoles,
   nonzeroFields |-> nonzeroFields, id |-> id, codes |-> codes]

agentAccountDescriptor ==
  descriptor("agent_account", "agentId", {"operator"}, {"agentId", "namespaceId",
     "policyRoot", "toolPermissionsRoot", "modelAllowlistRoot", "memoryNamespaceRoot",
     "nonce"}, agentAccountId, NoCodes)

modelPassportDescriptor ==
  descriptor("model_passport", "modelId", {"operator"}, {"modelId", "providerHash",
     "modelFamilyHash", "versionHash", "licenseRoot", "policyRoot", "artifactRoot",
     "metadataHash", "nonce"}, modelPassportId, NoCodes)

workReceiptDescriptor ==
  descriptor("work_receipt", "workReceiptId", {"agent"}, {"workReceiptId", "observationId",
     "receiptHash", "workerId", "nonce"}, workReceiptId, NoCodes)

artifactAvailabilityProofDescriptor ==
  descriptor("artifact_availability_proof", "proofId", {"operator"}, {"proofId",
     "artifactRoot", "providerId", "locationCommitment", "storageReceiptCommitment",
     "availabilitySampleRoot", "nonce"}, artifactAvailabilityProofId,
     [status |-> "statusCode"])

verifierModuleDescriptor ==
  descriptor("verifier_module", "moduleId", {"verifier", "operator"}, {"moduleId",
     "ownerId", "codeRoot", "manifestRoot", "supportedModesRoot",
     "supportedChallengeTypesRoot", "verifierSetRoot"}, verifierModuleId,
     [status |-> "statusCode"])

verifierReportDescriptor ==
  descriptor("verifier_report", "reportId", {"verifier", "validator"}, {"reportId",
     "reportSchemaHash", "observationId", "receiptHash", "verifierId", "verifierSetRoot",
     "checksRoot", "finalizedBlockHash"}, verifierReportHash, [status |-> "statusCode"])

memoryCellDescriptor ==
  descriptor("memory_cell", "memoryCellId", {"agent"}, {"memoryCellId", "ownerAgentId",
     "currentMemoryRoot", "lastDeltaRoot", "sourceReceiptsRoot", "dependencyRoot"},
     memoryCellId, NoCodes)

challengeDescriptor ==
  descriptor("challenge", "challengeId", {"agent", "operator"}, {"challengeId", "receiptId",
     "challengerId", "evidenceRoot", "nonce"}, challengeId,
     [challengeType |-> "challengeTypeCode", status |-> "statusCode"])

finalityReceiptDescriptor ==
  descriptor("finality_receipt", "finalityReceiptId", {"verifier", "validator"},
     {"finalityReceiptId", "receiptId", "reportId", "challengeRoot", "policyHash"},
     finalityReceiptId, [finalityState |-> "finalityStateCode"])

bridgeDepositDescriptor ==
  descriptor("bridge_deposit", "depositId", {"operator", "bridgeRelayer"}, {"depositId",
     "txHash", "flowmemoryRecipient", "metadataHash"}, bridgeDepositId, NoCodes)

bridgeCreditDescriptor ==
  descriptor("bridge_credit", "creditId", {"operator", "bridgeReleaseAuthority"},
     {"creditId", "depositId", "recipient", "assetId", "nonce"}, bridgeCreditId,
     [status |-> "statusCode"])

bridgeWithdrawalDescriptor ==
  descriptor("bridge_withdrawal", "withdrawalId", {"agent", "operator", "user"},
     {"withdrawalId", "accountId", "metadataHash", "nonce"}, bridgeWithdrawalId,
     [status |-> "statusCode"])

localBalanceRecordDescriptor ==
  descriptor("local_balance_record", "balanceRecordId", {"operator", "emergencyOperator"},
     {"balanceRecordId", "accountId", "assetId", "stateRoot", "nonce"},
     localBalanceRecordId, NoCodes)

productTransferDescriptor ==
  descriptor("product_transfer", "transferId", {"agent", "user"}, {"transferId",
     "fromAccountId", "toAccountId", "assetId"}, productTransferId, NoCodes)

productTokenLaunchDescriptor ==
  descriptor("product_token_launch", "tokenLaunchId", {"agent", "user"}, {"tokenLaunchId",
     "issuerAccountId", "tokenId", "symbolHash", "nameHash", "metadataHash",
     "recipientAccountId", "launchPolicyHash"}, productTokenLaunchId, NoCodes)

productPoolCreateDescriptor ==
  descriptor("product_pool_create", "poolCreateId", {"agent", "user"}, {"poolCreateId",
     "creatorAccountId", "poolId", "baseAssetId", "quoteAssetId", "metadataHash"},
     productPoolCreateId, NoCodes)

productAddLiquidityDescriptor ==
  descriptor("product_add_liquidity", "addLiquidityId", {"agent", "user"},
     {"addLiquidityId", "providerAccountId", "poolId"}, productAddLiquidityId, NoCodes)

productRemoveLiquidityDescriptor ==
  descriptor("product_remove_liquidity", "removeLiquidityId", {"agent", "user"},
     {"removeLiquidityId", "providerAccountId", "poolId"}, productRemoveLiquidityId,
     NoCodes)

productSwapDescriptor ==
  descriptor("product_swap", "swapId", {"agent", "user"}, {"swapId", "traderAccountId",
     "poolId", "assetInId", "assetOutId"}, productSwapId, NoCodes)

productBridgeCreditAckDescriptor ==
  descriptor("product_bridge_credit_ack", "bridgeCreditAckId", {"agent", "user"},
     {"bridgeCreditAckId", "creditId", "depositId", "accountId", "assetId"},
     productBridgeCreditAckId, NoCodes)

bridgeWithdrawalIntentDescriptor ==
  descriptor("bridge_withdrawal_intent", "withdrawalIntentId", {"agent", "user"},
     {"withdrawalIntentId", "creditId", "depositId", "flowmemoryAccount"},
     bridgeWithdrawalIntentId, NoCodes)

pilotBridgeCreditAckDescriptor ==
  descriptor("pilot_bridge_credit_ack", "pilotBridgeCreditAckId", {"operator",
     "bridgeReleaseAuthority"}, {"pilotBridgeCreditAckId", "operatorId", "creditId",
     "depositId", "accountId", "assetId"}, pilotBridgeCreditAckId, NoCodes)

pilotWithdrawalIntentDescriptor ==
  descriptor("pilot_withdrawal_intent", "pilotWithdrawalIntentId", {"operator",
     "bridgeReleaseAuthority"}, {"pilotWithdrawalIntentId", "operatorId", "creditId",
     "depositId", "flowmemoryAccount"}, pilotWithdrawalIntentId, NoCodes)

pilotReleaseEvidenceDescriptor ==
  descriptor("pilot_release_evidence", "pilotReleaseEvidenceId", {"operator",
     "bridgeReleaseAuthority"}, {"pilotReleaseEvidenceId", "operatorId",
     "withdrawalIntentId", "releaseTxHash", "evidenceHash"}, pilotReleaseEvidenceId,
     NoCodes)

pilotEmergencyControlDescriptor ==
  descriptor("pilot_emergency_control", "pilotEmergencyControlId", {"operator",
     "emergencyOperator"}, {"pilotEmergencyControlId", "operatorId", "targetSignerId",
     "reasonHash", "nonce"}, pilotEmergencyControlId, NoCodes)

hardwareSignalEnvelopeDescriptor ==
  descriptor("hardware_signal_envelope", "hardwareSignalEnvelopeId", {"hardware"},
     {"hardwareSignalEnvelopeId", "deviceId", "signalRoot", "channelRoot", "nonce"},
     hardwareSignalEnvelopeId, [transport |-> "transportCode"])

controlPlaneProvenanceResponseDescriptor ==
  descriptor("control_plane_provenance_response", "provenanceResponseId", {"operator",
     "agent"}, {"provenanceResponseId", "requestId", "subjectId", "agentId", "receiptId",
     "reportId", "memoryCellId", "dependencyRoot", "responseBodyHash"},
     controlPlaneProvenanceResponseId, NoCodes)

LOCAL_ALPHA_OBJECT_DESCRIPTORS ==
  "flowmemory.agent_account.v0" :> agentAccountDescriptor
  @@ "flowmemory.model_passport.v0" :> modelPassportDescriptor
  @@ "flowmemory.work_receipt.v0" :> workReceiptDescriptor
  @@ "flowmemory.artifact_availability_proof.v0" :> artifactAvailabilityProofDescriptor
  @@ "flowmemory.verifier_module.v0" :> verifierModuleDescriptor
  @@ "flowmemory.verifier_report.v0" :> verifierReportDescriptor
  @@ "flowmemory.memory_cell.v0" :> memoryCellDescriptor
  @@ "flowmemory.challenge.v0" :> challengeDescriptor
  @@ "flowmemory.finality_receipt.v0" :> finalityReceiptDescriptor
  @@ "flowmemory.bridge_deposit.v0" :> bridgeDepositDescriptor
  @@ "flowmemory.bridge_credit.v0" :> bridgeCreditDescriptor
  @@ "flowmemory.bridge_withdrawal.v0" :> bridgeWithdrawalDescriptor
  @@ "flowmemory.local_balance_record.v0" :> localBalanceRecordDescriptor
  @@ "flowmemory.product_transfer.v0" :> productTransferDescriptor
  @@ "flowmemory.product_token_launch.v0" :> productTokenLaunchDescriptor
  @@ "flowmemory.product_pool_create.v0" :> productPoolCreateDescriptor
  @@ "flowmemory.product_add_liquidity.v0" :> productAddLiquidityDescriptor
  @@ "flowmemory.product_remove_liquidity.v0" :> productRemoveLiquidityDescriptor
  @@ "flowmemory.product_swap.v0" :> productSwapDescriptor
  @@ "flowmemory.product_bridge_credit_ack.v0" :> productBridgeCreditAckDescriptor
  @@ "flowmemory.bridge_withdrawal_intent.v0" :> bridgeWithdrawalIntentDescriptor
  @@ "flowmemory.pilot_bridge_credit_ack.v0" :> pilotBridgeCreditAckDescriptor
  @@ "flowmemory.pilot_withdrawal_intent.v0" :> pilotWithdrawalIntentDescriptor
  @@ "flowmemory.pilot_release_evidence.v0" :> pilotReleaseEvidenceDescriptor
  @@ "flowmemory.pilot_emergency_control.v0" :> pilotEmergencyControlDescriptor
  @@ "flowmemory.hardware_signal_envelope.v0" :> hardwareSignalEnvelopeDescriptor
  @@ "flowmemory.control_plane_provenance_response.v0" :> controlPlaneProvenanceResponseDescriptor

\* A word or an id field of a document, read under the document's own name.
docField(d, f) == IF f \in DOMAIN d.codes THEN d.codes[f] ELSE f

localAlphaObjectInput(document) ==
  LET d == LOCAL_ALPHA_OBJECT_DESCRIPTORS[document.schema]
  IN [f \in d.id.words \cup d.id.plain |-> document[docField(d, f)]]

localAlphaObjectId(document) ==
  typedHash(LOCAL_ALPHA_OBJECT_DESCRIPTORS[document.schema].id, localAlphaObjectInput(document))

localAlphaObjectTypeHash(schema) == keccakUtf8(schema)

-----------------------------------------------------------------------------
(* The checks between the fields of one document.                            *)

LOCAL_ALPHA_FINALITY_STATES ==
  [provisional |-> 1, challengeable |-> 2, challenged |-> 3, accepted |-> 4, rejected |-> 5,
   finalized |-> 6, superseded |-> 7, reorged |-> 8]

LOCAL_ALPHA_BRIDGE_STATUSES == 
  [observed |-> 1, acceptedLocal |-> 2, credited |-> 3, withdrawalRequested |-> 4,
   released |-> 5, rejected |-> 6, failed |-> 7]

\* 84532 and 8453 are the Base chains, 31337 the local chain.
BaseChains == {8453, 84532}

PilotChains == BaseChains \cup {31337}

hasPilotCap(cap) ==
  /\ isHex32(cap.capId) /\ isHex32(cap.assetId)
  /\ cap.realValuePilot /\ ~ cap.productionReady
  /\ cap.maxAmount > 0 /\ cap.usedAmount \in 0..cap.maxAmount
  /\ cap.windowEndsAtUnixMs > cap.windowStartsAtUnixMs

memoryCellRootCheck(d) ==
  /\ d.currentMemoryRoot # ZERO_BYTES32
  /\ d.currentMemoryRoot # d.previousMemoryRoot

finalityRootCheck(d) ==
  d.finalityStateCode = LOCAL_ALPHA_FINALITY_STATES.finalized
    => /\ d.finalizedAtUnixMs # 0 /\ d.finalizedBlockNumber # 0
       /\ d.finalizedBlockHash # ZERO_BYTES32

bridgeDepositRootCheck(d) == d.sourceChainId \in BaseChains /\ d.amount > 0 /\ d.logIndex >= 0

bridgeCreditRootCheck(d) ==
  d.amount > 0 /\ d.statusCode = LOCAL_ALPHA_BRIDGE_STATUSES.credited

bridgeWithdrawalRootCheck(d) == d.destinationChainId \in BaseChains /\ d.amount > 0

localBalanceRootCheck(d) == d.availableAmount >= 0 /\ d.lockedAmount >= 0

productTransferRootCheck(d) == d.fromAccountId # d.toAccountId /\ d.amount > 0

productTokenLaunchRootCheck(d) == d.decimals <= 18 /\ d.initialSupply > 0

productPoolCreateRootCheck(d) ==
  d.baseAssetId # d.quoteAssetId /\ d.feeBps \in 0..10000 /\ d.tickSpacing > 0

productAddLiquidityRootCheck(d) == d.baseAmount > 0 /\ d.quoteAmount > 0

productRemoveLiquidityRootCheck(d) == d.liquidityTokens > 0

productSwapRootCheck(d) == d.assetInId # d.assetOutId /\ d.amountIn > 0

productBridgeCreditAckRootCheck(d) == d.amount > 0

bridgeWithdrawalIntentRootCheck(d) ==
  /\ {d.sourceChainId, d.destinationChainId} \subseteq PilotChains
  /\ d.amount > 0 /\ d.testMode /\ ~ d.broadcast /\ ~ d.productionReady

pilotBridgeCreditAckRootCheck(d) ==
  d.chainId \in PilotChains /\ d.amount > 0 /\ hasPilotCap(d.pilotCap)

pilotWithdrawalIntentRootCheck(d) ==
  /\ {d.sourceChainId, d.destinationChainId} \subseteq PilotChains
  /\ d.amount > 0 /\ d.status = "requested" /\ hasPilotCap(d.pilotCap)

pilotReleaseEvidenceRootCheck(d) ==
  d.chainId \in PilotChains /\ d.amount > 0 /\ d.releaseLogIndex >= 0 /\ hasPilotCap(d.pilotCap)

pilotEmergencyControlRootCheck(d) ==
  /\ d.chainId \in PilotChains /\ d.action \in {"pause", "revoke"}
  /\ d.expiresAtUnixMs >= d.issuedAtUnixMs /\ hasPilotCap(d.pilotCap)

hardwareSignalRootCheck(d) == d.previousSignalEnvelopeId # d.hardwareSignalEnvelopeId

parentRootCheck(d) ==
  LET type == LOCAL_ALPHA_OBJECT_DESCRIPTORS[d.schema].objectType
  IN CASE type = "memory_cell" -> memoryCellRootCheck(d)
       [] type = "finality_receipt" -> finalityRootCheck(d)
       [] type = "bridge_deposit" -> bridgeDepositRootCheck(d)
       [] type = "bridge_credit" -> bridgeCreditRootCheck(d)
       [] type = "bridge_withdrawal" -> bridgeWithdrawalRootCheck(d)
       [] type = "local_balance_record" -> localBalanceRootCheck(d)
       [] type = "product_transfer" -> productTransferRootCheck(d)
       [] type = "product_token_launch" -> productTokenLaunchRootCheck(d)
       [] type = "product_pool_create" -> productPoolCreateRootCheck(d)
       [] type = "product_add_liquidity" -> productAddLiquidityRootCheck(d)
       [] type = "product_remove_liquidity" -> productRemoveLiquidityRootCheck(d)
       [] type = "product_swap" -> productSwapRootCheck(d)
       [] type = "product_bridge_credit_ack" -> productBridgeCreditAckRootCheck(d)
       [] type = "bridge_withdrawal_intent" -> bridgeWithdrawalIntentRootCheck(d)
       [] type = "pilot_bridge_credit_ack" -> pilotBridgeCreditAckRootCheck(d)
       [] type = "pilot_withdrawal_intent" -> pilotWithdrawalIntentRootCheck(d)
       [] type = "pilot_release_evidence" -> pilotReleaseEvidenceRootCheck(d)
       [] type = "pilot_emergency_control" -> pilotEmergencyControlRootCheck(d)
       [] type = "hardware_signal_envelope" -> hardwareSignalRootCheck(d)
       [] OTHER -> TRUE

-----------------------------------------------------------------------------
(* Signers, and the sequence-numbered envelope that signs one document.      *)

LOCAL_ALPHA_SIGNER_ROLES ==
  [operator |-> 1, agent |-> 2, verifier |-> 3, hardware |-> 4, user |-> 10, validator |-> 11,
   bridgeRelayer |-> 12, bridgeReleaseAuthority |-> 13, emergencyOperator |-> 14]

\* The signature of a key over a digest: no other key or digest verifies.
signDigest(publicKey, digest) == <<"signature", publicKey, digest>>

verifyDigest(digest, signature, publicKey) == signature = signDigest(publicKey, digest)

has(object, f) == f \in DOMAIN object

\* The set holding `code' when the condition holds: one `errors.push'.
when(condition, code) == IF condition THEN {code} ELSE {}

localSignatureEnvelopeHash ==
  idSpec("localSignatureEnvelopeV0",
     {"objectId", "objectTypeHash", "domainSeparator", "signerId", "signerKeyId", "nonce"},
     {"signerRoleCode", "sequence", "issuedAtUnixMs", "expiresAtUnixMs"})

localSignatureEnvelopeInput(envelope) ==
  [f \in localSignatureEnvelopeHash.words \cup localSignatureEnvelopeHash.plain |-> envelope[f]]

localSignatureEnvelopePayload(envelope) ==
  LET structHash == typedHash(localSignatureEnvelopeHash, localSignatureEnvelopeInput(envelope))
  IN [structHash |-> structHash,
      signingDigest |-> eip712Digest(envelope.domainSeparator, structHash)]

localAlphaEnvelopeReplayKey(envelope) == <<envelope.signerId, envelope.domain, envelope.sequence>>

\* The kinds whose document names the root it depends on.
DependentTypes == {"memory_cell", "control_plane_provenance_response"}

zeroHash(d, document, envelope) ==
  envelope.objectId = ZERO_BYTES32 \/ \E f \in d.nonzeroFields : document[f] = ZERO_BYTES32

signerMissing(d, envelope) ==
  \/ ~ has(envelope, "signature")
  \/ ZERO_BYTES32 \in {envelope.signerId, envelope.signerKeyId}
  \/ envelope.signerRole \notin DOMAIN LOCAL_ALPHA_SIGNER_ROLES
  \/ LOCAL_ALPHA_SIGNER_ROLES[envelope.signerRole] # envelope.signerRoleCode
  \/ envelope.signerRole \notin d.signerRoles

\* The failure codes of a document and its envelope; none when it is accepted.
validateLocalAlphaEnvelope(document, envelope, seenSequences) ==
  IF document.schema \notin DOMAIN LOCAL_ALPHA_OBJECT_DESCRIPTORS THEN {"wrong-object-type"} ELSE
  LET d == LOCAL_ALPHA_OBJECT_DESCRIPTORS[document.schema]
      id == localAlphaObjectId(document)
      payload == localSignatureEnvelopePayload(envelope)
  IN UNION
     { when(\/ envelope.objectSchema # document.schema
            \/ envelope.objectType # d.objectType
            \/ envelope.objectTypeHash # localAlphaObjectTypeHash(document.schema),
            "wrong-object-type"),
       when(\/ envelope.domain # d.id.type
            \/ envelope.domainSeparator # keccakUtf8(d.id.type), "wrong-domain"),
       when(Malformed \in {document[d.idField], envelope.objectId, envelope.envelopeId},
            "malformed-id"),
       when(zeroHash(d, document, envelope), "zero-hash"),
       when(/\ d.objectType \in DependentTypes
            /\ document.dependencyRoot \in {Malformed, ZERO_BYTES32}, "malformed-dependency"),
       when(~ parentRootCheck(document),
            IF d.objectType = "bridge_deposit" THEN "malformed-bridge-deposit"
            ELSE "bad-parent-root"),
       when(id = Malformed, "malformed-id"),
       when(id # Malformed /\ \E v \in {document[d.idField], envelope.objectId} : v # id,
            "bad-object-id"),
       when(signerMissing(d, envelope), "missing-signer"),
       when(localAlphaEnvelopeReplayKey(envelope) \in seenSequences, "replay"),
       when(payload.structHash = Malformed, "malformed-id"),
       when(envelope.envelopeId # payload.structHash, "bad-envelope-id"),
       when(envelope.signingDigest # payload.signingDigest, "bad-envelope-digest"),
       when(/\ has(envelope, "signature")
            /\ ~ verifyDigest(envelope.signingDigest, envelope.signature, envelope.publicKey),
            "bad-signature") }

-----------------------------------------------------------------------------
(* Artifact commitments (crypto/src/merkle.js): the manifest of an artifact's *)
(* chunks, the Merkle root over its leaves and the hash that commits to both. *)
(* A chunk is a sequence of bytes.                                            *)

chunkHash(chunk) == <<"bytes", chunk>>

merkleLeafHash(entry) ==
  <<"merkleLeafV0", entry.index, entry.offset, entry.length, entry.chunkHash>>

merkleNodeHash(leftHash, rightHash) == <<"merkleInternalNodeV0", leftHash, rightHash>>

emptyMerkleRoot == <<"empty">>

\* Mutant: the last hash of an odd level is paired with itself.
nextLevelDuplicating(level) ==
  [i \in 1..((Len(level) + 1) \div 2) |->
     merkleNodeHash(level[2 * i - 1], level[IF 2 * i <= Len(level) THEN 2 * i ELSE 2 * i - 1])]

\* One level up: pairs are hashed, the last one of an odd level moves up as it is.
nextLevel(level) ==
  [i \in 1..((Len(level) + 1) \div 2) |->
     IF 2 * i <= Len(level) THEN merkleNodeHash(level[2 * i - 1], level[2 * i])
     ELSE level[2 * i - 1]]

RECURSIVE reduceLevels(_)
reduceLevels(level) == IF Len(level) <= 1 THEN level[1] ELSE reduceLevels(nextLevel(level))

merkleRoot(leafHashes) == IF leafHashes = <<>> THEN emptyMerkleRoot ELSE reduceLevels(leafHashes)

\* Chunk lengths up to and including the i-th; offsets are counted from zero.
bytesThrough(chunks, i) == FoldLeft(LAMBDA n, chunk : n + Len(chunk), 0, SubSeq(chunks, 1, i))

buildArtifactManifest(chunks, chunkSize) ==
  [chunkSize |-> chunkSize, byteLength |-> bytesThrough(chunks, Len(chunks)),
   chunks |-> [i \in DOMAIN chunks |->
     [index |-> i - 1, offset |-> bytesThrough(chunks, i - 1), length |-> Len(chunks[i]),
      chunkHash |-> chunkHash(chunks[i])]]]

artifactCommitmentHash(a) ==
  <<"artifactRootV0", a.manifestHash, a.contentMerkleRoot, a.byteLength, a.chunkSize,
    a.mediaTypeHash, a.metadataHash>>

artifactFromChunks(chunks, chunkSize, mediaType, metadata) ==
  LET manifest == buildArtifactManifest(chunks, chunkSize)
      leafHashes == [i \in DOMAIN chunks |-> merkleLeafHash(manifest.chunks[i])]
      artifact == [manifestHash |-> <<"json", manifest>>, contentMerkleRoot |-> merkleRoot(leafHashes),
                   byteLength |-> manifest.byteLength, chunkSize |-> chunkSize,
                   mediaTypeHash |-> <<"utf8", mediaType>>, metadataHash |-> <<"json", metadata>>]
  IN  [manifest |-> manifest, leafHashes |-> leafHashes,
       contentMerkleRoot |-> artifact.contentMerkleRoot,
       artifactRoot |-> artifactCommitmentHash(artifact)]

=============================================================================
