---------------------------- MODULE MCAlgorithms ----------------------------
(* The functions of the project on enumerated inputs: each initial state     *)
(* holds one input (`subject'), and the properties say what the functions    *)
(* compute on it; the larger ones are stated of the steps that leave it.     *)
(* Two subjects take further steps: the square root, which counts through    *)
(* its argument, and the wallet, whose vault the command line changes.       *)
EXTENDS IntegerSqrt, WalletVault, MCServices

CONSTANTS
  MaxRoot, ExhaustiveRoot,  \* roots counted through; up to here, every value with that root
  MaxAccounts               \* accounts a vault grows to

VARIABLE root

vars == <<root, subject>>

-----------------------------------------------------------------------------
(* _sqrt on both ends of the interval of values with a given root, and on     *)
(* every value while the intervals are short.                                 *)

SqrtInit == root = 0

SqrtNext == root < MaxRoot /\ root' = root + 1

values ==
  LET low == root * root
      high == low + 2 * root
  IN  IF root <= ExhaustiveRoot THEN low..high
      ELSE {low, low + 1, low + root, high - 1, high}


-----------------------------------------------------------------------------
(* Sample documents: every field of a kind of object holds its own word or    *)
(* the least value its checks admit.                                          *)

SampleCap ==
  [capId |-> <<"cap">>, assetId |-> <<"usdc">>, unit |-> "USDC-6", realValuePilot |-> TRUE,
   productionReady |-> FALSE, maxAmount |-> 5, usedAmount |-> 5, windowStartsAtUnixMs |-> 0,
   windowEndsAtUnixMs |-> 9000]

PlainSample ==
  [sourceChainId |-> 8453, destinationChainId |-> 8453, chainId |-> 8453, statusCode |-> 3,
   finalityStateCode |-> 6, status |-> "requested", action |-> "pause", testMode |-> TRUE,
   broadcast |-> FALSE, productionReady |-> FALSE, releasePolicy |-> "test_record_only",
   requestedAt |-> "now", expiresAtUnixMs |-> 9000, pilotCap |-> SampleCap]

wordFields(d) == {docField(d, f) : f \in d.id.words} \cup d.nonzeroFields

sampleFields(schema, operatorId) ==
  LET d == LOCAL_ALPHA_OBJECT_DESCRIPTORS[schema]
      plain == {docField(d, f) : f \in d.id.plain}
  IN [f \in wordFields(d) \cup plain |->
        IF f = "operatorId" THEN operatorId
        ELSE IF f \in wordFields(d) THEN <<f>>
        ELSE IF f \in DOMAIN PlainSample THEN PlainSample[f] ELSE 1]

sampleDocument(schema, operatorId) == withObjectId(schema, sampleFields(schema, operatorId))

Schemas == DOMAIN LOCAL_ALPHA_OBJECT_DESCRIPTORS

Roles == DOMAIN LOCAL_ALPHA_SIGNER_ROLES

keyOf(name) == <<"key", name>>

roleVault(role, chainId) == createEncryptedTestVault(<<"vault">>, keyOf(role), role, chainId)

IssuedAt == 10

\* A document of the schema, signed by an account of the role.
signedBy(schema, role, chainId, nonce) ==
  LET vault == roleVault(role, chainId)
      document == sampleDocument(schema, vault.accounts[1].signerId)
  IN [document |-> document,
      envelope |-> signLocalTransactionWithVault(vault, vault.accounts[1].signerKeyId, document,
                                                 chainId, nonce, IssuedAt)]

EnvelopeSubjects == [kind : {"envelope"}, schema : Schemas, role : Roles, chainId : {8453, 31337}]

subjectSigned == signedBy(subject.schema, subject.role, subject.chainId, 1)

subjectAllowed == subject.role \in LOCAL_ALPHA_OBJECT_DESCRIPTORS[subject.schema].signerRoles

runtimeCodes(signed, nowUnixMs) ==
  verifyFlowMemoryEnvelope(signed.document, signed.envelope,
    [chainId |-> subject.chainId, expectedNonce |-> 1, nowUnixMs |-> nowUnixMs])

walletCodes(signed) ==
  verifyWalletSignedEnvelope(walletSignedEnvelope(signed.document, signed.envelope),
    [chainId |-> subject.chainId, expectedNonce |-> 1])

\* What a vault account signs is accepted by the runtime (up to and including the
\* millisecond it expires) and by the wallet exactly when the kind of object admits
\* the account's role.  The vault names a signer by its key and the runtime a
\* FlowMemory role by its account id, so an envelope of such a role is refused with
\* that one code.
signedEnvelopesVerify ==
  is("envelope") =>
    LET expected == IF subjectAllowed /\ ~ isFlowMemoryRole(subject.role) THEN {}
                    ELSE {"wrong-signer"}
        expiry == defaultExpiresAtUnixMs(IssuedAt)
    IN /\ runtimeCodes(subjectSigned, expiry) = expected
       /\ walletCodes(subjectSigned) = expected
       /\ runtimeCodes(subjectSigned, expiry + 1) = expected \cup {"expired-tx"}

IntegerFields == {"chainId", "nonce", "issuedAtUnixMs", "expiresAtUnixMs", "schemaVersion",
                  "signerRoleCode"}

StringFields == {"networkProfile", "objectSchema", "objectType", "payloadType",
                 "localExecutionCost", "fee", "signatureAlgorithm"}

\* Fields neither hashed nor compared for a role outside the FlowMemory ones.
FreeFields == {"schema", "signerAddress"}

altered(e, f) ==
  [e EXCEPT ![f] = IF f \in IntegerFields THEN @ + 1
                   ELSE IF f \in StringFields THEN "altered"
                   ELSE IF f = "signerRole" THEN (IF @ = "agent" THEN "operator" ELSE "agent")
                   ELSE <<"altered", @>>]

\* Every field the envelope carries but two is bound by its signature: changing one,
\* signing another nonce, chain or document with the same signature, or presenting the
\* envelope with another document is refused.
alteredEnvelopeRejected ==
  is("envelope") /\ subjectAllowed =>
    LET signed == subjectSigned
        e == signed.envelope
        codes(document, envelope) == validateLocalTransactionEnvelope(document, envelope, <<>>)
        transplant(other) == [other.envelope EXCEPT !.signature = e.signature,
                                !.transactionId = flowmemoryTransactionId([other.envelope EXCEPT !.signature = e.signature])]
        others == {signedBy(subject.schema, subject.role, subject.chainId, 2),
                   signedBy(subject.schema, subject.role, 84532, 1)}
                  \cup {signedBy(s, subject.role, subject.chainId, 1) : s \in Schemas \ {subject.schema}}
    IN /\ \A f \in DOMAIN e \ FreeFields : codes(signed.document, altered(e, f)) # {}
       /\ \A other \in others :
            /\ "bad-signature" \in codes(other.document, transplant(other))
            /\ other.document # signed.document => codes(other.document, e) # {}

-----------------------------------------------------------------------------
(* The sequence-numbered envelope.                                           *)

localAlphaSigned(schema, role) ==
  LET d == LOCAL_ALPHA_OBJECT_DESCRIPTORS[schema]
      document == sampleDocument(schema, signerAddressFromPublicKey(keyOf(role)))
      bare == [objectSchema |-> schema, objectType |-> d.objectType,
               objectTypeHash |-> localAlphaObjectTypeHash(schema),
               objectId |-> localAlphaObjectId(document), domain |-> d.id.type,
               domainSeparator |-> keccakUtf8(d.id.type),
               signerId |-> signerAddressFromPublicKey(keyOf(role)),
               signerKeyId |-> signerKeyIdOf(keyOf(role)), signerRole |-> role,
               signerRoleCode |-> LOCAL_ALPHA_SIGNER_ROLES[role], sequence |-> 1,
               nonce |-> <<"nonce">>, issuedAtUnixMs |-> 1, expiresAtUnixMs |-> 2,
               publicKey |-> keyOf(role)]
      payload == localSignatureEnvelopePayload(bare)
  IN [document |-> document,
      envelope |-> [envelopeId |-> payload.structHash, signingDigest |-> payload.signingDigest,
                    signature |-> signDigest(keyOf(role), payload.signingDigest)] @@ bare]

\* A signed object is accepted once per signer, kind and sequence number: with the
\* sequence seen, the replay is the only complaint about it.
sequenceAcceptedOnce ==
  is("envelope") /\ subjectAllowed =>
    LET signed == localAlphaSigned(subject.schema, subject.role)
        seen == {localAlphaEnvelopeReplayKey(localAlphaSigned(s, r).envelope)
                 : s \in Schemas \ {subject.schema}, r \in Roles}
    IN /\ validateLocalAlphaEnvelope(signed.document, signed.envelope, seen) = {}
       /\ validateLocalAlphaEnvelope(signed.document, signed.envelope,
            {localAlphaEnvelopeReplayKey(signed.envelope)}) = {"replay"}

\* What is signed is accepted as it was signed and as nothing else: by the role its
\* kind of object admits, until it expires, once per sequence number, and with none
\* of its fields, its chain, its nonce or its document exchanged.
EnvelopeBindsDocument ==
  [][signedEnvelopesVerify /\ alteredEnvelopeRejected /\ sequenceAcceptedOnce]_subject

-----------------------------------------------------------------------------
(* The documents the wallet builds.                                          *)

BuilderSchemas ==
  {"flowmemory.product_transfer.v0", "flowmemory.product_token_launch.v0",
   "flowmemory.product_pool_create.v0", "flowmemory.product_add_liquidity.v0",
   "flowmemory.product_remove_liquidity.v0", "flowmemory.product_swap.v0",
   "flowmemory.bridge_withdrawal_intent.v0", "flowmemory.finality_receipt.v0"}

BuilderSubjects == [kind : {"builder"}, schema : BuilderSchemas]

\* The values tried for one field of a builder's input: for a word its own value, one
\* another field may share, zero and no hex; for a number the ends of its ranges.  The
\* builder itself hashes the symbol and the name.
boundaryValues(schema, f) ==
  IF f \in {"symbolHash", "nameHash"} THEN {<<f>>}
  ELSE IF f \in wordFields(LOCAL_ALPHA_OBJECT_DESCRIPTORS[schema])
  THEN {<<f>>, <<"shared">>, ZERO_BYTES32, Malformed}
  ELSE IF f = "finalityStateCode" THEN {0, 1, 6, 8, 9}
  ELSE IF f \in DOMAIN PlainSample THEN {PlainSample[f]} ELSE {0, 1, 18, 19, 10000, 10001}

builderSample(schema) ==
  LET sample == sampleFields(schema, <<"operator">>)
  IN [f \in DOMAIN sample \ {LOCAL_ALPHA_OBJECT_DESCRIPTORS[schema].idField} |-> sample[f]]

\* The three things a builder lets through and the runtime does not.
refusedAfterBuilding(document) ==
  LET d == LOCAL_ALPHA_OBJECT_DESCRIPTORS[document.schema]
  IN when(\E f \in d.nonzeroFields : document[f] = ZERO_BYTES32, "zero-hash")
     \cup when(\/ /\ document.schema = "flowmemory.product_transfer.v0"
                  /\ document.fromAccountId = document.toAccountId
               \/ /\ document.schema = "flowmemory.finality_receipt.v0"
                  /\ document.finalityStateCode = LOCAL_ALPHA_FINALITY_STATES.finalized
                  /\ \/ 0 \in {document.finalizedAtUnixMs, document.finalizedBlockNumber}
                     \/ document.finalizedBlockHash = ZERO_BYTES32, "invalid-transaction")

\* Builder and runtime check the same document twice, in different code.  What the
\* wallet builds and signs is refused for a zero word, a transfer to its own sender
\* or a finalized receipt that names no block, and for nothing else.
builtDocumentsValidate ==
  is("builder") =>
    LET role == IF subject.schema = "flowmemory.finality_receipt.v0" THEN "verifier" ELSE "agent"
        vault == roleVault(role, 31337)
        codes(document) ==
          validateLocalTransactionEnvelope(document,
            signLocalTransactionWithVault(vault, vault.accounts[1].signerKeyId, document, 31337, 1,
                                          IssuedAt), [chainId |-> 31337])
        sample == builderSample(subject.schema)
    IN \A f, g \in DOMAIN sample : \A v \in boundaryValues(subject.schema, f) :
         \A w \in boundaryValues(subject.schema, g) :
           LET document == buildDocument(subject.schema, [sample EXCEPT ![f] = v, ![g] = w])
           IN document.schema # "threw" => codes(document) = refusedAfterBuilding(document)

-----------------------------------------------------------------------------
(* The vault under the command line: `add-account' and `rotate' in any order. *)

VaultRoles == {"operator", "agent"}

WalletSubjects ==
  {[kind |-> "wallet", vault |-> createEncryptedTestVault(<<"vault">>, keyOf(0), role, 8453),
    rerotated |-> {}] : role \in VaultRoles}

freshKey(vault) == keyOf(Len(vault.accounts))

AddAccount ==
  /\ is("wallet") /\ Len(subject.vault.accounts) < MaxAccounts
  /\ \E role \in VaultRoles :
       subject' = [subject EXCEPT !.vault =
                     addEncryptedTestVaultAccount(@, freshKey(@), role, 8453)]
  /\ UNCHANGED root

\* `rerotated' remembers the signers one of whose retired keys was rotated again.
RotateAccount ==
  /\ is("wallet") /\ Len(subject.vault.accounts) < MaxAccounts
  /\ \E i \in DOMAIN subject.vault.accounts :
       LET a == subject.vault.accounts[i] IN
       subject' = [subject EXCEPT
         !.vault = rotateEncryptedTestVaultAccount(@, a.signerKeyId, freshKey(@)),
         !.rerotated = IF a.active THEN @ ELSE @ \cup {a.signerId}]
  /\ UNCHANGED root

activeKeys(vault, signerId) ==
  {vault.accounts[i].signerKeyId : i \in {j \in DOMAIN vault.accounts :
     vault.accounts[j].signerId = signerId /\ vault.accounts[j].active}}

signersOf(vault) == {vault.accounts[i].signerId : i \in DOMAIN vault.accounts}

\* Rotation never leaves a signer without a key, and gives it a second one only when
\* a key already retired is rotated again; the key signing by default is always one
\* that can sign.
rotationKeepsOneKey ==
  is("wallet") =>
    LET vault == subject.vault IN
    /\ \A s \in signersOf(vault) :
         /\ activeKeys(vault, s) # {}
         /\ s \notin subject.rerotated => Cardinality(activeKeys(vault, s)) = 1
    /\ signingAccount(vault, selectSignerKeyId(vault, <<>>)) # <<>>

\* The pilot operator keeps operating after its key was rotated: the key selected
\* for the configured operator signs messages the pilot's validator accepts, and no
\* message is signed for an operator the vault does not hold.
rotatedOperatorSigns ==
  is("wallet") =>
    LET vault == subject.vault IN
    \A signerId \in signersOf(vault) \cup {<<"unknown">>} :
      LET config == createPilotOperatorConfigFromEnv(
            [chainId |-> 8453, contractAddress |-> <<"contractAddress">>, operatorId |-> signerId,
             cap |-> SampleCap])[1]
          key == selectOperatorSignerKeyId(vault, config)
          isOperator == \E i \in DOMAIN vault.accounts :
            vault.accounts[i].signerId = signerId /\ vault.accounts[i].signerRole = "operator"
      IN /\ isOperator <=> key # <<>>
         /\ isOperator => \A schema \in PILOT_MESSAGE_SCHEMAS :
              LET document == sampleDocument(schema, signerId)
                  e == signLocalTransactionWithVault(vault, key, document, 8453, 1, IssuedAt)
              IN validatePilotOperatorEnvelope(document, e, pilotVerifyContext(config, 1, 9000)) = {}


-----------------------------------------------------------------------------
(* Merkle roots.                                                             *)

Leaves == {<<"leaf", "a">>, <<"leaf", "b">>}

LeafLists == UNION {[1..n -> Leaves] : n \in 0..5}

MerkleSubjects == [kind : {"merkle"}, leaves : LeafLists]

ChunkLists == UNION {[1..n -> {<<"x">>, <<"x", "x">>, <<>>}] : n \in 0..3}

\* A root commits to the number, the order and the value of its leaves: an odd level
\* whose last hash moves up unpaired never meets a list of another length.
merkleRootBinds ==
  is("merkle") => \A other \in LeafLists :
    merkleRoot(other) = merkleRoot(subject.leaves) => other = subject.leaves

ArtifactSubjects == [kind : {"artifact"}, chunks : ChunkLists]

\* An artifact root tells apart two ways of cutting the same bytes into chunks, and
\* the manifest's chunks follow one another without gap or overlap.
artifactRootBinds ==
  is("artifact") =>
    LET artifact(chunks) == artifactFromChunks(chunks, 2, "text", <<>>)
        manifest == artifact(subject.chunks).manifest
    IN /\ \A other \in ChunkLists :
            artifact(other).artifactRoot = artifact(subject.chunks).artifactRoot => other = subject.chunks
       /\ \A i \in 1..(Len(subject.chunks) - 1) :
            manifest.chunks[i + 1].offset = manifest.chunks[i].offset + manifest.chunks[i].length

\* A commitment names everything it commits to: Merkle and artifact roots, the digest
\* an owner signs for an agent or a swarm, and the attestation of a recourse decision.
CommitmentsBind ==
  [][/\ merkleRootBinds /\ artifactRootBinds
     /\ launchDigestBindsLaunch /\ swarmHashBindsLaunch /\ attestationBindsDecision]_subject

-----------------------------------------------------------------------------
AllSubjects ==
  EnvelopeSubjects \cup BuilderSubjects \cup WalletSubjects \cup MerkleSubjects
  \cup ArtifactSubjects \cup DamagedSubjects \cup StagedSubjects \cup EnvSubjects
  \cup RpcSubjects \cup RecourseSubjects \cup LaunchSubjects \cup {[kind |-> "sqrt"]}

AlgorithmsInit == SqrtInit /\ subject \in AllSubjects

LeaveSubject ==
  /\ ~ is("sqrt") /\ ~ is("done")
  /\ subject' = [kind |-> "done"] /\ UNCHANGED root

AlgorithmsNext ==
  \/ LeaveSubject
  \/ is("sqrt") /\ SqrtNext /\ UNCHANGED subject
  \/ AddAccount
  \/ RotateAccount

AlgorithmsSpec == AlgorithmsInit /\ [][AlgorithmsNext]_vars

=============================================================================
