----------------------------- MODULE Envelopes ------------------------------
(* Transaction envelopes: the record a wallet signs around one object        *)
(* document, what it binds, and the three validators that decide whether the *)
(* runtime, the wallet and the bridge pilot accept it.                       *)
(*                                                                           *)
(* A context is a record holding only the expectations the caller sets.  A   *)
(* validator is the set of failure codes it reports; it accepts when the set *)
(* is empty.                                                                 *)
EXTENDS Objects

FLOWMEMORY_NETWORK_PROFILES == {"local-chain", "private-lan", "base-8453-pilot-bridge"}

FLOWMEMORY_ACCOUNT_ROLES ==
  {"user", "validator", "bridgeRelayer", "bridgeReleaseAuthority", "emergencyOperator"}

isFlowMemoryRole(role) == role \in FLOWMEMORY_ACCOUNT_ROLES

-----------------------------------------------------------------------------
(* Identities derived from a public key.                                     *)

\* A public key is a tuple; Malformed is not a point of the curve.
flowmemoryPublicKeyHash(publicKey) == <<"publicKeyHash", publicKey>>

flowmemoryAddressFromPublicKey(publicKey) == <<"address", flowmemoryPublicKeyHash(publicKey)>>

flowmemoryRoleRoot(role) == <<"roleRoot", role>>

flowmemoryAccountId(publicKey, role) ==
  <<"flowmemoryAccountIdV0", flowmemoryPublicKeyHash(publicKey),
    flowmemoryAddressFromPublicKey(publicKey), flowmemoryRoleRoot(role)>>

flowmemorySignerKeyId(publicKey) == <<"flowmemorySignerKey", publicKey>>

flowmemoryPublicAccountMetadata(publicKey, role) ==
  [role |-> role, publicKey |-> publicKey,
   address |-> flowmemoryAddressFromPublicKey(publicKey),
   accountId |-> flowmemoryAccountId(publicKey, role),
   signerKeyId |-> flowmemorySignerKeyId(publicKey)]

\* The signer id the local wallet gives a key.
signerAddressFromPublicKey(publicKey) == <<"local-alpha.signer", publicKey>>

-----------------------------------------------------------------------------
(* What the signature of a transaction envelope covers.                      *)

flowmemoryNetworkProfileHash(networkProfile) == keccakUtf8(networkProfile)

flowmemoryProductionDomain(chainId, networkProfile) == <<"production", networkProfile, chainId>>

flowmemoryProductionDomainSeparator(chainId, networkProfile) ==
  <<"separator", flowmemoryProductionDomain(chainId, networkProfile)>>

flowmemoryTransactionId(e) ==
  <<"flowmemoryTransactionIdV0", e.chainId, e.networkProfile, e.envelopeId, e.payloadHash,
    e.signature>>

\* Any one field of the production network makes an envelope canonical.
isProductionNetworkEnvelopeInput(e) ==
  \E f \in {"schemaVersion", "networkProfile", "payloadType", "expiresAtUnixMs"} : has(e, f)

localTransactionDomain(e) ==
  IF isProductionNetworkEnvelopeInput(e) THEN flowmemoryProductionDomain(e.chainId, e.networkProfile)
  ELSE <<"local", e.chainId>>

localTransactionDomainSeparator(e) ==
  IF isProductionNetworkEnvelopeInput(e)
  THEN flowmemoryProductionDomainSeparator(e.chainId, e.networkProfile)
  ELSE keccakUtf8(localTransactionDomain(e))

HashedFields == {"chainId", "domainSeparator", "signerId", "signerKeyId", "signerRoleCode", "nonce",
                 "payloadHash", "objectId", "objectTypeHash", "issuedAtUnixMs"}

\* Mutant: the expiry is not signed.
HashedWithoutExpiry ==
  HashedFields \cup {"schemaVersion", "networkProfileHash", "payloadTypeHash",
                     "localExecutionCostHash", "feeHash", "signatureAlgorithmHash"}

ProductionHashedFields ==
  HashedFields \cup {"schemaVersion", "networkProfileHash", "payloadTypeHash", "expiresAtUnixMs",
                     "localExecutionCostHash", "feeHash", "signatureAlgorithmHash"}

localTransactionEnvelopeInput(e) ==
  [f \in (IF isProductionNetworkEnvelopeInput(e) THEN ProductionHashedFields ELSE HashedFields)
     |-> e[f]]

HashedWords == {"domainSeparator", "signerId", "signerKeyId", "payloadHash", "objectId",
                "objectTypeHash"}

localTransactionEnvelopeHash(e) ==
  IF \E f \in HashedWords : e[f] = Malformed THEN Malformed
  ELSE <<"localTransactionEnvelope", localTransactionEnvelopeInput(e)>>

localTransactionEnvelopePayload(e) ==
  LET structHash == localTransactionEnvelopeHash(e)
  IN [structHash |-> structHash, signingDigest |-> eip712Digest(e.domainSeparator, structHash)]

localTransactionReplayKey(e) ==
  IF has(e, "networkProfile")
  THEN <<e.chainId, e.networkProfile, e.signerId, e.signerRole, e.nonce>>
  ELSE <<e.chainId, "", e.signerId, "", e.nonce>>

-----------------------------------------------------------------------------
(* Building and signing.                                                     *)

defaultLocalExecutionCost == "not-metered-local-private-testnet"

defaultFee == "no-value-local-private-testnet"

\* One hour, in the unit the instances count time in.
defaultExpiresAtUnixMs(issuedAtUnixMs) == issuedAtUnixMs + 3600

DEFAULT_SIGNATURE_ALGORITHM == "secp256k1-keccak256-eip712-local-v0"

withDomain(bare) ==
  [domain |-> localTransactionDomain(bare),
   domainSeparator |-> localTransactionDomainSeparator(bare)] @@ bare

withPayload(named) ==
  LET payload == localTransactionEnvelopePayload(named)
  IN [envelopeId |-> payload.structHash, signingDigest |-> payload.signingDigest,
      signerAddress |-> flowmemoryAddressFromPublicKey(named.publicKey)] @@ named

\* `signer' is the account that signs: its id, key id, role and public key.
buildUnsignedLocalTransactionEnvelope(document, signer, chainId, nonce, issuedAtUnixMs) ==
  LET d == LOCAL_ALPHA_OBJECT_DESCRIPTORS[document.schema]
      bare ==
        [schema |-> "flowmemory.local_transaction_envelope.v0",
         schemaVersion |-> 1, networkProfile |-> "local-chain",
         networkProfileHash |-> flowmemoryNetworkProfileHash("local-chain"),
         chainId |-> chainId, nonce |-> nonce,
         signerId |-> signer.signerId, signerKeyId |-> signer.signerKeyId,
         signerRole |-> signer.signerRole,
         signerRoleCode |-> LOCAL_ALPHA_SIGNER_ROLES[signer.signerRole],
         publicKey |-> signer.publicKey,
         objectSchema |-> document.schema, objectType |-> d.objectType,
         payloadType |-> d.objectType, payloadTypeHash |-> keccakUtf8(d.objectType),
         objectTypeHash |-> localAlphaObjectTypeHash(document.schema),
         objectId |-> localAlphaObjectId(document), payloadHash |-> canonicalJsonHash(document),
         issuedAtUnixMs |-> issuedAtUnixMs,
         expiresAtUnixMs |-> defaultExpiresAtUnixMs(issuedAtUnixMs),
         localExecutionCost |-> defaultLocalExecutionCost,
         localExecutionCostHash |-> canonicalJsonHash(defaultLocalExecutionCost),
         fee |-> defaultFee, feeHash |-> canonicalJsonHash(defaultFee),
         signatureAlgorithm |-> DEFAULT_SIGNATURE_ALGORITHM,
         signatureAlgorithmHash |-> keccakUtf8(DEFAULT_SIGNATURE_ALGORITHM)]
  IN withPayload(withDomain(bare))

-----------------------------------------------------------------------------
(* The validators.                                                           *)

RequiredCanonicalFields ==
  {"schemaVersion", "networkProfile", "networkProfileHash", "payloadType", "payloadTypeHash",
   "expiresAtUnixMs", "localExecutionCost", "localExecutionCostHash", "fee", "feeHash",
   "signatureAlgorithm", "signatureAlgorithmHash"}

\* A missing field makes the hash of it, or the comparison, fail as well.
validateProductionNetworkEnvelopeExtension(e, context) ==
  IF \E f \in RequiredCanonicalFields : ~ has(e, f) THEN {"missing-canonical-field"} ELSE
  UNION
  { when(e.schemaVersion # 1, "wrong-schema-version"),
    when(e.networkProfileHash # flowmemoryNetworkProfileHash(e.networkProfile),
         "wrong-network-profile"),
    when(e.payloadTypeHash # keccakUtf8(e.payloadType), "wrong-payload-type"),
    when(e.localExecutionCostHash # canonicalJsonHash(e.localExecutionCost), "bad-local-execution-cost"),
    when(e.feeHash # canonicalJsonHash(e.fee), "bad-fee"),
    when(e.signatureAlgorithmHash # keccakUtf8(e.signatureAlgorithm), "bad-signature-algorithm"),
    when(e.expiresAtUnixMs < e.issuedAtUnixMs, "expired-tx"),
    when(has(context, "nowUnixMs") /\ e.expiresAtUnixMs < context.nowUnixMs, "expired-tx"),
    when(e.publicKey = Malformed, "malformed-public-key"),
    when(/\ isFlowMemoryRole(e.signerRole)
         /\ \/ e.signerId # flowmemoryAccountId(e.publicKey, e.signerRole)
            \/ /\ has(e, "signerAddress")
               /\ e.signerAddress # flowmemoryAddressFromPublicKey(e.publicKey), "wrong-signer"),
    when(has(e, "signature") /\ e.signature = Malformed, "malformed-signature"),
    when(/\ has(e, "signature") /\ has(e, "transactionId")
         /\ e.transactionId # flowmemoryTransactionId(e), "bad-transaction-id"),
    when(/\ has(e, "signature") /\ has(context, "seenTransactionIds")
         /\ (IF has(e, "transactionId") THEN e.transactionId ELSE flowmemoryTransactionId(e))
              \in context.seenTransactionIds, "duplicate-tx-id") }

\* The checks inside the validator's try block, once the document has an id.
validateHashes(document, e, context) ==
  LET d == LOCAL_ALPHA_OBJECT_DESCRIPTORS[document.schema]
      id == localAlphaObjectId(document)
      payload == localTransactionEnvelopePayload(e)
  IN UNION
     { when(Malformed \in {document[d.idField], e.objectId, e.envelopeId}, "malformed-id"),
       when(document[d.idField] # id \/ e.objectId # id, "bad-object-id"),
       when(zeroHash(d, document, e), "zero-hash"),
       when(~ parentRootCheck(document), "invalid-transaction"),
       when(e.payloadHash # canonicalJsonHash(document), "bad-payload-hash"),
       IF isProductionNetworkEnvelopeInput(e)
       THEN validateProductionNetworkEnvelopeExtension(e, context) ELSE {},
       IF payload.structHash = Malformed THEN {"malformed-id"}
       ELSE when(e.envelopeId # payload.structHash, "bad-envelope-id")
            \cup when(e.signingDigest # payload.signingDigest, "bad-envelope-digest")
            \cup when(/\ has(e, "signature")
                      /\ ~ verifyDigest(e.signingDigest, e.signature, e.publicKey),
                      "bad-signature") }

validateLocalTransactionEnvelope(document, e, context) ==
  IF document.schema \notin DOMAIN LOCAL_ALPHA_OBJECT_DESCRIPTORS THEN {"wrong-object-type"} ELSE
  LET d == LOCAL_ALPHA_OBJECT_DESCRIPTORS[document.schema]
  IN UNION
     { when(has(context, "chainId") /\ e.chainId # context.chainId, "wrong-chain-id"),
       when(has(context, "networkProfile") /\ e.networkProfile # context.networkProfile,
            "wrong-network-profile"),
       when(has(context, "expectedNonce") /\ e.nonce # context.expectedNonce, "wrong-nonce"),
       when(\/ e.domain # localTransactionDomain(e)
            \/ e.domainSeparator # localTransactionDomainSeparator(e), "wrong-domain"),
       when(\/ e.objectSchema # document.schema \/ e.objectType # d.objectType
            \/ e.objectTypeHash # localAlphaObjectTypeHash(document.schema), "wrong-object-type"),
       when(e.signerRole \notin d.signerRoles, "wrong-signer"),
       when(\/ ~ has(e, "signature") \/ ZERO_BYTES32 \in {e.signerId, e.signerKeyId}
            \/ e.signerRoleCode # LOCAL_ALPHA_SIGNER_ROLES[e.signerRole], "missing-signer"),
       when(has(context, "expectedSignerId") /\ e.signerId # context.expectedSignerId,
            "wrong-signer"),
       IF has(context, "seenNonces") /\ localTransactionReplayKey(e) \in context.seenNonces
       THEN {"replay", "duplicate-nonce"} ELSE {},
       when(has(context, "minimumNonce") /\ e.nonce < context.minimumNonce, "stale-nonce"),
       when(has(context, "expectedPayloadType") /\ e.payloadType # context.expectedPayloadType,
            "wrong-payload-type"),
       when(has(context, "requireCanonical") /\ ~ isProductionNetworkEnvelopeInput(e),
            "missing-canonical-field"),
       IF localAlphaObjectId(document) = Malformed THEN {"malformed-id"}
       ELSE validateHashes(document, e, context) }

\* The document fields that name a root.
RootFields ==
  {"artifactRoot", "availabilitySampleRoot", "challengeRoot", "channelRoot", "checksRoot",
   "codeRoot", "currentMemoryRoot", "dependencyRoot", "evidenceRoot", "lastDeltaRoot",
   "licenseRoot", "manifestRoot", "memoryNamespaceRoot", "modelAllowlistRoot", "policyRoot",
   "previousMemoryRoot", "signalRoot", "sourceReceiptsRoot", "stateRoot",
   "supportedChallengeTypesRoot", "supportedModesRoot", "toolPermissionsRoot",
   "verifierSetRoot"}

malformedRootCodes(document) ==
  when(\E f \in RootFields \cap DOMAIN document : document[f] = Malformed, "malformed-root")

deriveSignerIdentity(e) ==
  [accountId |-> IF isFlowMemoryRole(e.signerRole) THEN flowmemoryAccountId(e.publicKey, e.signerRole)
                 ELSE e.signerId,
   address |-> flowmemoryAddressFromPublicKey(e.publicKey)]

bridgeSourceEventReplayKey(event) ==
  <<"bridgeSourceEventReplayKeyV0", event.sourceChainId, event.lockbox, event.txHash,
    event.logIndex>>

\* The runtime's own check of a submitted envelope.
verifyFlowMemoryEnvelope(document, e, context) ==
  UNION
  { validateLocalTransactionEnvelope(document, e, [requireCanonical |-> TRUE] @@ context),
    malformedRootCodes(document),
    when(has(context, "seenReplayKeys") /\ localTransactionReplayKey(e) \in context.seenReplayKeys,
         "duplicate-nonce"),
    when(/\ has(context, "bridgeSourceEvent")
         /\ bridgeSourceEventReplayKey(context.bridgeSourceEvent) \in context.seenBridgeSourceEvents,
         "duplicate-bridge-source-event"),
    when(e.publicKey = Malformed, "malformed-public-key"),
    when(/\ has(e, "signature") /\ has(context, "seenTransactionIds")
         /\ flowmemoryTransactionId(e) \in context.seenTransactionIds, "duplicate-tx-id") }

-----------------------------------------------------------------------------
(* The wallet's wrapper of a signed envelope, and the pilot operator's check. *)

walletSignedEnvelope(document, e) ==
  [schema |-> "flowmemory.wallet_signed_envelope.v0",
   txId |-> e.envelopeId, chainId |-> e.chainId, payloadType |-> document.schema,
   payload |-> document, signerAddress |-> e.signerId,
   signer |-> [signerKeyId |-> e.signerKeyId, publicKey |-> e.publicKey],
   nonce |-> e.nonce, signature |-> e.signature, localEnvelope |-> e]

\* Of the context only these expectations reach the inner validator.
ForwardedExpectations == {"chainId", "expectedNonce", "expectedSignerId", "seenNonces"}

verifyWalletSignedEnvelope(w, context) ==
  LET e == w.localEnvelope IN
  UNION
  { validateLocalTransactionEnvelope(w.payload, e,
      [f \in ForwardedExpectations \cap DOMAIN context |-> context[f]]),
    when(has(context, "expectedPayloadType") /\ w.payloadType # context.expectedPayloadType,
         "wrong-payload-type"),
    when(has(context, "chainId") /\ w.chainId # context.chainId, "wrong-chain-id"),
    when(has(context, "expectedNonce") /\ w.nonce # context.expectedNonce, "wrong-nonce"),
    when(has(context, "expectedSignerAddress") /\ w.signerAddress # context.expectedSignerAddress,
         "wrong-signer"),
    when(w.payloadType # w.payload.schema, "wrong-payload-type"),
    when(w.txId # e.envelopeId \/ w.signature # e.signature, "bad-envelope-id"),
    when(w.chainId # e.chainId \/ w.nonce # e.nonce \/ w.signerAddress # e.signerId,
         "envelope-metadata-mismatch"),
    when(w.signer.publicKey # e.publicKey \/ w.signer.signerKeyId # e.signerKeyId,
         "signer-metadata-mismatch"),
    when(w.signer.publicKey = Malformed, "malformed-public-key"),
    when(/\ w.signer.publicKey # Malformed
         /\ signerAddressFromPublicKey(w.signer.publicKey) # e.signerId, "public-key-mismatch") }

PILOT_MESSAGE_SCHEMAS ==
  {"flowmemory.pilot_bridge_credit_ack.v0", "flowmemory.pilot_withdrawal_intent.v0",
   "flowmemory.pilot_release_evidence.v0", "flowmemory.pilot_emergency_control.v0"}

documentChainId(document) ==
  IF has(document, "chainId") THEN document.chainId ELSE document.sourceChainId

validatePilotOperatorEnvelope(document, e, context) ==
  IF document.schema \notin PILOT_MESSAGE_SCHEMAS THEN {"wrong-object-type"} ELSE
  LET expectation(f, g) == IF has(context, f) THEN {context[f]}
                           ELSE IF has(context, g) THEN {context[g]} ELSE {}
      signerIds == expectation("expectedSignerId", "expectedOperatorId")
      forwarded == [f \in ForwardedExpectations \cap DOMAIN context |-> context[f]]
      now == IF has(context, "nowUnixMs") THEN context.nowUnixMs ELSE 0
  IN UNION
     { when(~ hasPilotCap(document.pilotCap), "missing-cap-fields"),
       validateLocalTransactionEnvelope(document, e,
         IF signerIds = {} THEN forwarded
         ELSE [expectedSignerId |-> CHOOSE s \in signerIds : TRUE] @@ forwarded),
       when(has(context, "chainId") /\ documentChainId(document) # context.chainId,
            "wrong-chain-id"),
       when(/\ has(context, "expectedDestinationChainId")
            /\ \/ ~ has(document, "destinationChainId")
               \/ document.destinationChainId # context.expectedDestinationChainId,
            "wrong-chain-id"),
       when(/\ has(context, "expectedContractAddress")
            /\ document.contractAddress # context.expectedContractAddress,
            "wrong-contract-address"),
       when(has(context, "expectedOperatorId") /\ document.operatorId # context.expectedOperatorId,
            "wrong-operator"),
       when(e.signerId # document.operatorId \/ e.signerRole # "operator", "wrong-operator"),
       when(\/ document.expiresAtUnixMs < document.issuedAtUnixMs
            \/ document.expiresAtUnixMs < now
            \/ document.pilotCap.windowEndsAtUnixMs < now, "expired-message") }

=============================================================================
